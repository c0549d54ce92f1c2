----------------------------- MODULE KpiWindows -----------------------------
(***************************************************************************)
(* The first half of the preprocessing job: from hourly measurements with  *)
(* holes in them to the windows of hours that can be trained on.  A series *)
(* is what one KPI measured in one cell; a value is only there or not.     *)
(* A "cell" here is a group of _GROUPING_COLS, a cell with one of its      *)
(* configurations; what comes before is in RawTables.                      *)
(***************************************************************************)
EXTENDS Integers, FiniteSets, FiniteSetsExt

CONSTANTS
    Cells,         \* the groups of _GROUPING_COLS
    Nameless,      \* those with a null in one of these columns
    Kpis,
    LastHour,      \* bound: measurements of the hours 0..LastHour
    Hint,          \* what a KPI's name, unit and values suggest: [Kpis -> Hints]
    ImputeGap,     \* MAX_IMPUTABLE_GAP
    Tables,        \* the inputs: sets of series
    Configs        \* the arguments of the DAG run

Hours == 0..LastHour

\* A row of a series may be missing, be there without a value, or have one.
Rows == {"none", "null", "value"}

Hints == {"min word", "max word", "average word", "ratio word", "rate unit",
          "count sign", "positive", "percentage", "other"}

\* All but ImputeGap and the percentages of prefilter_kpis is an argument of the run.
ConfigType ==
    [window: Nat \ {0}, stride: Nat \ {0}, floor: Int,
     density: Nat, shortRuns: Nat, gateGap: Nat]

ASSUME KpiWindowsAssumption ==
    /\ LastHour \in Nat /\ ImputeGap \in Nat
    /\ IsFiniteSet(Cells) /\ IsFiniteSet(Kpis) /\ Nameless \subseteq Cells
    /\ Hint \in [Kpis -> Hints]
    /\ Tables \subseteq [Cells \X Kpis -> [Hours -> Rows]]
    /\ Configs \subseteq ConfigType

VARIABLES
    cfg,           \* the arguments
    stage,         \* the last stage that has ended
    series,        \* the long table, overwritten by each stage
    good           \* good windows: <<cell, KPI, anchor hour>>

windowVars == <<cfg, stage, series, good>>

Present(s) == {h \in Hours : s[h] # "none"}
Values(s)  == {h \in Hours : s[h] = "value"}
NoSeries   == [h \in Hours |-> "none"]

\* The hours of the null run that h belongs to, and all such runs.
NullRun(s, h) ==
    {g \in Hours : \A i \in Min({g, h})..Max({g, h}) : s[i] = "null"}
NullRuns(s) == {NullRun(s, h) : h \in {g \in Hours : s[g] = "null"}}

-----------------------------------------------------------------------------
(* fill_internal_gaps: a row for every hour between a series' first and    *)
(* last.  The values are joined to these by equality, which null is not:   *)
(* a group with a null finds none of its own.                              *)
Spine(s) == {h \in Hours : \E f, l \in Present(s) : f <= h /\ h <= l}

FillInternalGaps ==
    /\ stage = "read"
    /\ series' = [x \in DOMAIN series |->
                    LET s == series[x] IN
                    [h \in Hours |->
                       IF h \in Spine(s) /\ (s[h] = "none" \/ x[1] \in Nameless)
                       THEN "null" ELSE s[h]]]
    /\ stage' = "filled"
    /\ UNCHANGED <<cfg, good>>

\* series_imputability_gate: dense enough, and enough of its null runs short.  What
\* passes is joined by equality again.
Imputable(s) ==
    LET runs  == NullRuns(s)
        short == {r \in runs : Cardinality(r) <= cfg.gateGap}
    IN  /\ 100 * Cardinality(Values(s)) >= cfg.density * Cardinality(Present(s))
        /\ 100 * Cardinality(short) >= cfg.shortRuns * Cardinality(runs)

ImputabilityGate ==
    /\ stage = "filled"
    /\ series' = [x \in DOMAIN series |->
                    IF x[1] \notin Nameless /\ Imputable(series[x])
                    THEN series[x] ELSE NoSeries]
    /\ stage' = "gated"
    /\ UNCHANGED <<cfg, good>>

\* classify_kpis as it is called: the keyword lists go to other parameters than those
\* they are named for, so that the word "max" is taken for a mean and a ratio's acronym
\* for a volume.
AggMethod(hint) ==
    CASE hint = "min word"                    -> "min"
      [] hint = "count sign"                  -> "max"
      [] hint \in {"ratio word", "other"}     -> "sum"
      [] OTHER                                -> "avg"

\* impute, for the null row of hour h: is there a value to put there?
Fillable(s, h, method) ==
    LET before == \E g \in Values(s) : g < h
        after  == \E g \in Values(s) : g > h
        length == Cardinality(NullRun(s, h))
    IN  /\ length <= ImputeGap
        /\ CASE method = "avg" -> before /\ after
             [] method = "sum" -> IF length <= 2 THEN before ELSE Values(s) # {}
             [] OTHER          -> \E g \in Values(s) : h - 4 <= g /\ g <= h + 4

Impute ==
    /\ stage = "gated"
    /\ series' = [x \in DOMAIN series |->
                    LET s == series[x] IN
                    [h \in Hours |->
                       IF s[h] = "null" /\ Fillable(s, h, AggMethod(Hint[x[2]]))
                       THEN "value" ELSE s[h]]]
    /\ stage' = "imputed"
    /\ UNCHANGED <<cfg, good>>

-----------------------------------------------------------------------------
(* drop_windows_with_nulls: windows begin every stride hours from the      *)
(* first hour of the cell.                                                 *)

Origin(c) == Min(UNION {Present(series[<<c, k>>]) : k \in Kpis})

Anchor(c, n) == Origin(c) + n * cfg.stride

SequenceMutant(first, last) == (first + 1)..last

\* Spark's sequence(first, last) descends when first exceeds last.
Sequence(first, last) == IF first <= last THEN first..last ELSE last..first

\* The numbers of the anchors that the row of hour h is exploded to.
AnchorsOf(c, h) ==
    LET last  == (h - Origin(c)) \div cfg.stride
        first == Max({0, last - (cfg.window \div cfg.stride - 1)})
    IN  Sequence(first, last)

\* The hours that are counted for the n-th anchor, as hour_idx.
Counted(c, k, n) ==
    {h - Anchor(c, n) : h \in {g \in Values(series[<<c, k>>]) : n \in AnchorsOf(c, g)}}
       \cap 0..(cfg.window - 1)

IsGoodWindow(c, k, n) ==
    LET hours == Counted(c, k, n) IN
    /\ Cardinality(hours) = cfg.window
    /\ Min(hours) = 0
    /\ Max(hours) = cfg.window - 1
    /\ Anchor(c, n) + cfg.window - 1 <= Max(Values(series[<<c, k>>]))

\* With discard_invalid_windows.
DropWindowsWithNulls ==
    /\ stage = "imputed"
    /\ good' = {w \in Cells \X Kpis \X Hours :
                  /\ Present(series[<<w[1], w[2]>>]) # {}
                  /\ \E n \in Hours : w[3] = Anchor(w[1], n) /\ IsGoodWindow(w[1], w[2], n)}
    /\ stage' = "windows"
    /\ UNCHANGED <<cfg, series>>

-----------------------------------------------------------------------------
WindowInit ==
    /\ cfg \in Configs
    /\ stage = "read"
    /\ series \in Tables
    /\ good = {}

WindowNext ==
    \/ FillInternalGaps \/ ImputabilityGate \/ Impute \/ DropWindowsWithNulls

\* What a good window is, said without explode and counts: it begins a whole number of
\* strides after the cell's first row, and each of its hours has a value.
WholeWindows ==
    {w \in Cells \X Kpis \X Hours :
       LET c == w[1]  s == series[<<c, w[2]>>] IN
       /\ w[3]..(w[3] + cfg.window - 1) \subseteq Values(s)
       /\ (w[3] - Origin(c)) % cfg.stride = 0}

\* The sets of anchors that rows are exploded to leave none out only if the stride
\* divides the window, or exceeds it.
StrideFits == cfg.window % cfg.stride = 0 \/ cfg.stride > cfg.window

\* A window passes for good exactly if it is whole: no hour is counted twice, borrowed from
\* a neighbour or lost between the anchors (drop_windows_with_nulls);
\* with a stride that does not fit, none is wrongly kept.
GoodIsWhole ==
    stage = "windows" =>
       /\ good \subseteq WholeWindows
       /\ StrideFits => WholeWindows \subseteq good
=============================================================================
