----------------------------- MODULE Similarity -----------------------------
(* The second task of the generate DAG: the stored windows against the     *)
(* comparison data set.  A column is a sequence of readings, one per hour, *)
(* some missing; of a metric only whether it is a number is kept, of the   *)
(* missing readings the gaps they form.                                    *)
EXTENDS Generation

CONSTANTS
    RealKpis,       \* the KPI columns of the comparison data set, {} if there is none
    RealSamples,    \* what it may hold: [KPI -> readings]
    SynthSamples,   \* what may have been generated
    MinPairs,       \* 10 in the code: the pairs a lag needs
    Missing         \* NaN

ASSUME SimilarityAssumption ==
    \A S \in RealSamples \cup SynthSamples : \A k \in RealKpis : S[k] \in Seq(Range(S[k]))

VARIABLE report     \* summary.json under the run's prefix, or None

Present(x) == {i \in DOMAIN x : x[i] # Missing}
Varies(x)  == Cardinality({x[i] : i \in Present(x)}) > 1

-----------------------------------------------------------------------------
(* missing_gap_lengths and missing_summary.                                *)

Ascending(S) ==
    [n \in 1..Cardinality(S) |-> CHOOSE i \in S : Cardinality({j \in S : j <= i}) = n]

\* Where the mask of missing readings rises and falls, closed at both ends.
GapStarts(x) == {i \in DOMAIN x \ Present(x) : i = 1 \/ i - 1 \in Present(x)}
\* Mutant: the mask is not closed at its end.
GapEndsOpen(x) == {i + 1 : i \in {j \in DOMAIN x \ Present(x) : j < Len(x) /\ j + 1 \in Present(x)}}
GapEnds(x) == {i + 1 : i \in {j \in DOMAIN x \ Present(x) : j = Len(x) \/ j + 1 \in Present(x)}}

GapLengths(x) ==
    LET s == Ascending(GapStarts(x))
        e == Ascending(GapEnds(x))
    IN  [k \in 1..Min({Len(s), Len(e)}) |-> e[k] - s[k]]

Total(gaps) ==
    LET upTo[n \in 0..Len(gaps)] == IF n = 0 THEN 0 ELSE upTo[n - 1] + gaps[n]
    IN  upTo[Len(gaps)]

MissingSummary(x) ==
    LET gaps == GapLengths(x)
    IN  [missing |-> Cardinality(DOMAIN x \ Present(x)), n_gaps |-> Len(gaps),
         total_gap |-> Total(gaps),
         max_gap |-> IF gaps = <<>> THEN 0 ELSE Max(Range(gaps))]

-----------------------------------------------------------------------------
(* Which metrics are numbers.  r and s are the real and the generated       *)
(* column of one KPI, R and S those of several.                            *)

Both(r, s, n) == Cardinality(Present(r)) >= n /\ Cardinality(Present(s)) >= n

Wasserstein(r, s) == Both(r, s, 1)
Mmd(r, s)         == Both(r, s, 2)

\* A periodogram of five readings or more; that of a constant is not a number.
LombScargle(x)         == Cardinality(Present(x)) >= 5 /\ Varies(x)
SpectrumDistance(r, s) == LombScargle(r) /\ LombScargle(s)

\* acf_nan_aware: the lags with enough pairs that vary, and lag 0 by definition.
Acf(x) ==
    IF Present(x) = {} THEN {}
    ELSE {0} \cup {k \in 1..(Len(x) - 1) :
                     /\ Cardinality({i \in Present(x) : i + k \in Present(x)}) >= MinPairs
                     /\ Varies(x)}
AcfDistance(r, s) == Acf(r) \cap Acf(s) # {}

\* Densities of columns that vary, on one grid; their divergence.
KdeCurves(r, s)     == Both(r, s, 2) /\ Varies(r) /\ Varies(s)
JensenShannon(r, s) == KdeCurves(r, s)

HourlyProfile(x)        == {(i - 1) % DayHours : i \in Present(x)}
HourlyProfileRmse(r, s) == HourlyProfile(r) \cap HourlyProfile(s) # {}

ComputeSingleMetrics(r, s) ==
    Where(Wasserstein(r, s), {"wasserstein_1d"})
    \cup Where(Mmd(r, s), {"mmd_rbf"})
    \cup Where(SpectrumDistance(r, s), {"ls_spectrum_distance"})
    \cup Where(AcfDistance(r, s), {"acf_distance"})
    \cup Where(HourlyProfileRmse(r, s), {"hourly_profile_rmse"})
    \cup Where(JensenShannon(r, s), {"jensen_shannon"})

\* Rows in which no KPI is missing, as collect_clean_multi keeps them.
CompleteRows(X, kpis) ==
    {i \in UNION {Present(X[k]) : k \in kpis} : \A k \in kpis : i \in Present(X[k])}

EnoughRows(R, S, kpis, n) ==
    Cardinality(CompleteRows(R, kpis)) >= n /\ Cardinality(CompleteRows(S, kpis)) >= n

SlicedWasserstein(R, S, kpis) == EnoughRows(R, S, kpis, 1)
MmdMultivariate(R, S, kpis)   == EnoughRows(R, S, kpis, 2)

VariesOn(x, rows) == Cardinality({x[i] : i \in rows}) > 1

\* A constant column has no correlation with another, and spoils the inverse.
PartialCorrelations(X, kpis) ==
    /\ Cardinality(CompleteRows(X, kpis)) >= 3
    /\ \A k \in kpis : VariesOn(X[k], CompleteRows(X, kpis))
PartialCorrDistance(R, S, kpis) == PartialCorrelations(R, kpis) /\ PartialCorrelations(S, kpis)

\* The entries of the matrix that are numbers; the diagonal is, by definition.
PairwiseCorr(X, kpis) ==
    {pair \in kpis \X kpis :
        LET rows == CompleteRows(X, {pair[1], pair[2]})
        IN  pair[1] # pair[2] =>
               /\ Cardinality(rows) >= 3
               /\ VariesOn(X[pair[1]], rows) /\ VariesOn(X[pair[2]], rows)}
CorrMatrixDistance(R, S, kpis) == PairwiseCorr(R, kpis) \cap PairwiseCorr(S, kpis) # {}

ComputeMultiMetrics(R, S, kpis) ==
    Where(SlicedWasserstein(R, S, kpis), {"sliced_wasserstein"})
    \cup Where(MmdMultivariate(R, S, kpis), {"mmd_multivariate"})
    \cup Where(PartialCorrDistance(R, S, kpis), {"partial_corr_distance"})
    \cup Where(CorrMatrixDistance(R, S, kpis), {"pairwise_corr_distance"})

-----------------------------------------------------------------------------
(* The task.                                                               *)

StoredCells == DOMAIN out \ {"metadata"}

\* Labels that every object under the prefix has: one schema, one reader.
SynthKpis == {k \in UNION {{c.label : c \in out[o].columns} : o \in StoredCells} :
                \A o \in StoredCells : \E c \in out[o].columns : c.label = k}

ValidKpis == Range(gen.conf.kpi_list) \cap RealKpis \cap SynthKpis

\* _validate_single_kpi: a KPI whose metrics raise is left out of the summary,
\* as the metrics of all of them are when theirs do.
ValidateSingle(R, S, kpis) ==
    [k \in kpis |-> [metrics |-> ComputeSingleMetrics(R[k], S[k]),
                     real    |-> MissingSummary(R[k]), synth |-> MissingSummary(S[k])]]

\* _validate_multi_kpi: two KPIs at least.
ValidateMulti(R, S, kpis) ==
    IF Cardinality(kpis) < 2 THEN {} ELSE ComputeMultiMetrics(R, S, kpis)

RunDataSimilarity ==
    /\ Running("similarity") /\ RealKpis # {} /\ StoredCells # {}
    /\ \E R \in RealSamples, S \in SynthSamples, raised \in SUBSET ValidKpis :
           \E multi \in {ValidateMulti(R, S, ValidKpis), {}} :
               report' = [synth |-> S, multi |-> multi,
                          single |-> ValidateSingle(R, S, ValidKpis \ raised)]
    /\ gen' = [gen EXCEPT !.phase = "done"]
    /\ UNCHANGED <<bucket, out>>

\* No comparison data set, nothing to read, a figure that cannot be drawn, a crash:
\* nothing is written before the summary.
SimilarityFails ==
    /\ Running("similarity")
    /\ Again("similarity", "similarity")
    /\ UNCHANGED <<bucket, out, report>>

-----------------------------------------------------------------------------
vars == <<trainingVars, generationVars, report>>

Init == TrainingInit /\ GenerationInit /\ report = None

\* Bound: nothing reads the run directory after it was published, so no training follows.
Unpublished == bucket = <<>>

Next ==
    \/ Unpublished /\ TrainingNext /\ UNCHANGED <<generationVars, report>>
    \/ GenerationNext /\ UNCHANGED <<trainingVars, report>>
    \/ RunDataSimilarity /\ UNCHANGED trainingVars
    \/ SimilarityFails /\ UNCHANGED trainingVars

Spec == Init /\ [][Next]_vars

-----------------------------------------------------------------------------
\* What summary.json says of a column is true: its gaps are the maximal runs of missing
\* readings, none counted twice or forgotten wherever it lies, and no metric is a number
\* when one side has no reading at all.
SummaryIsHonest ==
    report # None => \A k \in DOMAIN report.single :
        LET x    == report.synth[k]
            hole == DOMAIN x \ Present(x)
            runs == {r \in hole \X hole : /\ r[1] <= r[2] /\ r[1]..r[2] \subseteq hole
                                          /\ r[1] - 1 \notin hole /\ r[2] + 1 \notin hole}
            told == report.single[k].synth
        IN  /\ told.n_gaps = Cardinality(runs)
            /\ told.total_gap = told.missing /\ told.missing = Cardinality(hole)
            /\ told.max_gap = Max({r[2] - r[1] + 1 : r \in runs} \cup {0})
            /\ Present(x) = {} => report.single[k].metrics = {}
=============================================================================
