--------------------------- MODULE MCKpiSelection ---------------------------
(* Instances of RawTables, with all that follows it, for TLC.              *)
EXTENDS RawTables, TLC

CONSTANTS k1, k2, k3, k4

\* Cell "d" with a band, another, or none that is known.
MCReportNames == {"band"}
MCResults     == {"u", "v"}
Group(v)      == <<"d", [band |-> v]>>
c1 == Group("u")
c2 == Group("v")
ThreeCells == {c1, c2, Group(Null)}
MCNameless == {Group(Null)}
OneCell    == {c1}
FourKpis  == {k1, k2, k3, k4}
FourHints == k1 :> "max word" @@ k2 :> "min word" @@ k3 :> "ratio word" @@ k4 :> "other"

NoLimit == -1

Series(values, nulls) ==
    [h \in 0..4 |-> IF h \in values THEN "value" ELSE IF h \in nulls THEN "null" ELSE "none"]

Full  == Series(0..4, {})
Empty == Series({}, {})

\* A cell whose series start late, begin with a null row, miss an hour or two, or end
\* early; and a cell that a KPI covers or does not.
Ragged == {Full, Series(1..4, {}), Series(1..4, {0}), Series({0, 1, 3, 4}, {}),
           Series({0, 3, 4}, {2}), Series(0..2, {})}

RaggedTables ==
    {[x \in ThreeCells \X FourKpis |->
        CASE x[1] = c1 -> f[x[2]] [] x[1] = c2 -> g[x[2]] [] OTHER -> Empty] :
        f \in {h \in [FourKpis -> Ragged] : h[k4] \in {Full, Series(0..2, {}), Series(1..4, {0})}},
        g \in {h \in [FourKpis -> {Full, Empty}] : h[k3] = h[k4]}}

\* k2 and k3 are versions of k1; a version follows another, overlaps it, and is defined as
\* the one before, otherwise, or not at all; k4 is constant, or not.  The band of "d" is
\* reported at any of four hours.
MCVersion == [k \in FourKpis |->
    CASE k = k1 -> [base |-> k1, rank |-> 1] [] k = k2 -> [base |-> k1, rank |-> 2]
      [] k = k3 -> [base |-> k1, rank |-> 3] [] OTHER  -> [base |-> k4, rank |-> 4]]

Measured(k, hours, nulls, flat) ==
    {[cell |-> "d", kpi |-> k, hour |-> h,
      value |-> IF h \in nulls THEN Null ELSE IF flat THEN 1 ELSE 1 + (h % 2)] : h \in hours}

\* k4 is constant where it is not defined.
Measurements(d) ==
    Measured(k1, 0..2, {}, FALSE) \cup Measured(k2, 1..3, {2}, FALSE)
    \cup Measured(k3, 3..4, {}, FALSE) \cup Measured(k4, 0..4, {}, k4 \notin DOMAIN d)
    \cup {[cell |-> Null, kpi |-> k1, hour |-> 0, value |-> 7]}

Definitions == {k1 :> 1 @@ k2 :> 1 @@ k3 :> 1 @@ k4 :> 1, k1 :> 1 @@ k2 :> 2 @@ k3 :> 2,
                k1 :> 1 @@ k2 :> Null @@ k3 :> 2 @@ k4 :> 1, k2 :> 1 @@ k3 :> 2}

Told == {[e \in {f \in 0..3 : b[f] # "none"} |-> b[e]] : b \in [0..3 -> MCResults \cup {"none"}]}

MCRawInputs ==
    {[pm |-> Measurements(d), definitions |-> d,
      reports |-> {[cell |-> "d", hour |-> h, name |-> "band", result |-> t[h]] : h \in DOMAIN t}
                  \cup {[cell |-> "e", hour |-> 0, name |-> "band", result |-> "u"]}] :
        d \in Definitions, t \in Told}

NoRaw == {}

\* Strides that divide the window, do not divide it, and exceed it; with a floor, and without.
Argument(window, stride, least) ==
    [window |-> window, stride |-> stride, floor |-> least,
     density |-> 60, shortRuns |-> 80, gateGap |-> 2]

Arguments == {Argument(2, 1, NoLimit), Argument(2, 1, 4), Argument(3, 2, NoLimit),
              Argument(4, 2, 1), Argument(1, 2, NoLimit)}

\* One cell, windows of an hour, and each series all there or a single hour.
SparseTables == [OneCell \X FourKpis -> {Full} \cup {Series({h}, {}) : h \in 0..4}]
Elbowed      == {Argument(1, 1, NoLimit)}
=============================================================================
