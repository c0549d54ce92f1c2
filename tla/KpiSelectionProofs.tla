------------------------- MODULE KpiSelectionProofs -------------------------
(***************************************************************************)
(* Theorems about the preprocessing job, for any cells, KPIs, tables and   *)
(* arguments, and any number of hours.                                     *)
(***************************************************************************)
EXTENDS RawTables, FiniteSetTheorems, NaturalsInduction, TLAPS

-----------------------------------------------------------------------------
(* Least and greatest numbers.                                             *)

LEMMA LeastOf ==
    ASSUME NEW S \in SUBSET Nat, S # {}
    PROVE  Min(S) \in S /\ \A x \in S : Min(S) <= x
PROOF
<1>1. IsWellFoundedOn(OpToRel(<, Nat), Nat)
  BY NatLessThanWellFounded
<1>2. PICK d \in S : \A e \in S : ~ (<<e, d>> \in OpToRel(<, Nat))
  BY <1>1, WFMin
<1>3. \A e \in S : d <= e
  <2> TAKE e \in S
  <2>1. d \in Nat /\ e \in Nat
    OBVIOUS
  <2>2. ~ (e < d)
    BY <1>2, <2>1 DEF OpToRel
  <2> QED BY <2>1, <2>2
<1> QED BY <1>3 DEF Min

LEMMA GreatestOf ==
    ASSUME NEW n \in Nat, NEW S \in SUBSET (0..n), S # {}
    PROVE  Max(S) \in S /\ \A x \in S : x <= Max(S)
PROOF
<1> DEFINE D == {n - x : x \in S}
<1>1. D \in SUBSET Nat /\ D # {}
  <2>1. \A x \in S : n - x \in Nat
    OBVIOUS
  <2>2. PICK x \in S : TRUE
    OBVIOUS
  <2> QED BY <2>1, <2>2
<1>2. PICK d \in D : \A e \in D : d <= e
  BY <1>1, LeastOf
<1>3. PICK x \in S : d = n - x
  BY <1>2
<1>4. \A y \in S : x >= y
  <2> TAKE y \in S
  <2>1. n - x <= n - y
    BY <1>2, <1>3
  <2> QED BY <2>1
<1> QED BY <1>4 DEF Max

\* A set of places that contains all places before each of its own is the first so many.
LEMMA FirstPlaces ==
    ASSUME NEW n \in Nat, NEW D \in SUBSET (1..n), \A i \in D : \A j \in 1..i : j \in D
    PROVE  \E m \in 0..n : D = 1..m /\ (m < n => m + 1 \notin D)
PROOF
<1>1. CASE D = 1..n
  BY <1>1
<1>2. CASE D # 1..n
  <2> DEFINE R == (1..n) \ D
  <2>1. R # {}
    BY <1>2
  <2> R \in SUBSET Nat
    OBVIOUS
  <2>2. PICK e \in R : \A x \in R : e <= x
    BY <2>1, LeastOf
  <2>3. \A i \in D : i < e
    <3> SUFFICES ASSUME NEW i \in D, ~(i < e) PROVE FALSE
      OBVIOUS
    <3>1. i \in 1..n /\ e \in 1..n /\ e \in 1..i
      BY <2>2
    <3> QED BY <2>2, <3>1
  <2>4. e \in 1..n /\ e \notin D
    BY <2>2
  <2>5. \A j \in 1..(e - 1) : j \in D
    <3> SUFFICES ASSUME NEW j \in 1..(e - 1), j \notin D PROVE FALSE
      OBVIOUS
    <3>1. j \in R /\ j < e
      BY <2>4
    <3> QED BY <2>2, <3>1
  <2>6. \A i \in D : i \in 1..(e - 1)
    BY <2>3, <2>4
  <2>7. e - 1 \in 0..n /\ (e - 1) + 1 = e
    BY <2>4
  <2>8. D = 1..(e - 1)
    BY <2>5, <2>6
  <2> QED BY <2>4, <2>7, <2>8
<1> QED BY <1>1, <1>2

-----------------------------------------------------------------------------
(* Good windows.                                                           *)

SeriesOk == cfg \in ConfigType /\ series \in [Cells \X Kpis -> [Hours -> Rows]]

\* Windows begin at the first hour of the cell, or after it.
LEMMA OriginType ==
    ASSUME SeriesOk, NEW c \in Cells, NEW k \in Kpis, Present(series[<<c, k>>]) # {}
    PROVE  Origin(c) \in Hours /\ \A h \in Present(series[<<c, k>>]) : Origin(c) <= h
PROOF
<1> DEFINE P == UNION {Present(series[<<c, l>>]) : l \in Kpis}
<1>1. P \subseteq Hours /\ Hours \subseteq Nat
  <2>1. \A l \in Kpis : Present(series[<<c, l>>]) \subseteq Hours
    BY DEF Present
  <2>2. P \subseteq Hours
    BY <2>1
  <2>3. Hours \subseteq Nat
    BY KpiWindowsAssumption DEF Hours
  <2> QED BY <2>2, <2>3
<1>2. Present(series[<<c, k>>]) \subseteq P /\ P # {}
  OBVIOUS
<1>3. Min(P) \in P /\ \A x \in P : Min(P) <= x
  BY <1>1, <1>2, LeastOf
<1>4. Origin(c) = Min(P)
  BY DEF Origin
<1> QED BY <1>1, <1>2, <1>3, <1>4

\* A window that passes for good has a value in each of its hours.
LEMMA WindowIsFull ==
    ASSUME SeriesOk, NEW c \in Cells, NEW k \in Kpis, NEW n \in Hours,
           Present(series[<<c, k>>]) # {}, IsGoodWindow(c, k, n)
    PROVE  Anchor(c, n)..(Anchor(c, n) + cfg.window - 1) \subseteq Values(series[<<c, k>>])
PROOF
<1> DEFINE W == cfg.window
           S == 0..(W - 1)
           C == Counted(c, k, n)
<1>1. W \in Nat \ {0} /\ cfg.stride \in Nat \ {0} /\ n \in Nat
  BY KpiWindowsAssumption DEF SeriesOk, ConfigType, Hours
<1>2. Anchor(c, n) \in Int
  <2>1. Origin(c) \in Hours
    BY OriginType
  <2>2. n * cfg.stride \in Nat
    BY <1>1
  <2> QED BY <2>1, <2>2, KpiWindowsAssumption DEF Anchor, Hours
<1>3. C \subseteq S /\ Cardinality(C) = W
  BY DEF Counted, IsGoodWindow
<1>4. IsFiniteSet(S) /\ Cardinality(S) = W
  <2>1. 0 \in Int /\ W - 1 \in Int /\ ~(0 > W - 1) /\ (W - 1) - 0 + 1 = W
    BY <1>1
  <2> HIDE DEF W
  <2> QED BY <2>1, FS_Interval
<1>5. C = S
  BY <1>3, <1>4, FS_Subset
<1>6. \A i \in S : Anchor(c, n) + i \in Values(series[<<c, k>>])
  <2> TAKE i \in S
  <2>1. PICK h \in Values(series[<<c, k>>]) : i = h - Anchor(c, n)
    BY <1>5 DEF Counted
  <2>2. h \in Nat
    BY KpiWindowsAssumption DEF Values, Hours
  <2> QED BY <1>2, <2>1, <2>2
<1>7. ASSUME NEW h \in Anchor(c, n)..(Anchor(c, n) + W - 1)
      PROVE  h \in Values(series[<<c, k>>])
  <2>1. h - Anchor(c, n) \in S
    BY <1>1, <1>2
  <2>2. Anchor(c, n) + (h - Anchor(c, n)) = h
    BY <1>2
  <2> QED BY <1>6, <2>1, <2>2
<1> QED BY <1>7

\* A number is a multiple of the divisor and a rest.
LEMMA DivMod ==
    ASSUME NEW a \in Nat, NEW d \in Nat \ {0}
    PROVE  a \div d \in Nat /\ a % d \in 0..(d - 1) /\ a = (a \div d) * d + (a % d)
PROOF
<1>1. a \div d \in Nat
  OBVIOUS
<1>2. a % d \in 0..(d - 1)
  OBVIOUS
<1>3. (a \div d) * d + (a % d) = a
  BY SMTT(30)
<1> QED BY <1>1, <1>2, <1>3

\* An hour of the n-th window is exploded to the n-th anchor, if the stride fits: among
\* those behind it, or, the sequence descending, as the first.
LEMMA AnchorsFit ==
    ASSUME NEW W \in Nat \ {0}, NEW d \in Nat \ {0}, W % d = 0 \/ d > W,
           NEW n \in Nat, NEW i \in 0..(W - 1)
    PROVE  n \in Sequence(Max({0, (n * d + i) \div d - (W \div d - 1)}), (n * d + i) \div d)
PROOF
<1> DEFINE last == (n * d + i) \div d
           lag  == W \div d - 1
           first == Max({0, last - lag})
<1>1. ASSUME NEW x \in Int
      PROVE  Max({0, x}) \in {0, x} /\ Max({0, x}) >= 0 /\ Max({0, x}) >= x
  <2>1. \E m \in {0, x} : \A y \in {0, x} : m >= y
    BY <1>1
  <2>2. Max({0, x}) \in {0, x} /\ \A y \in {0, x} : Max({0, x}) >= y
    BY <2>1 DEF Max
  <2> QED BY <2>2
<1>2. CASE W % d = 0
  <2>1. PICK q \in Nat : W = q * d
    BY <1>2, SMTT(30)
  <2>2. q \in Nat \ {0} /\ W \div d = q
    <3>1. q # 0
      BY <2>1
    <3>2. (q * d + 0) \div d = q
      BY SMTT(30)
    <3> QED BY <2>1, <3>1, <3>2
  <2>3. PICK m \in Nat, r \in 0..(d - 1) : i = m * d + r
    <3>1. i \in Nat
      OBVIOUS
    <3> QED BY <3>1, DivMod
  <2>5. m < q
    <3>1. m * d < q * d
      BY <2>1, <2>3
    <3> QED BY <3>1, SMTT(30)
  <2>6. last = n + m
    <3>1. n * d + i = (n + m) * d + r
      BY <2>3
    <3>2. ((n + m) * d + r) \div d = n + m
      BY SMTT(30)
    <3> QED BY <3>1, <3>2
  <2>7. first <= n /\ n <= last /\ first \in Int
    <3>1. last - lag \in Int /\ last - lag <= n
      BY <2>2, <2>5, <2>6
    <3> HIDE DEF last, lag
    <3> QED BY <1>1, <2>6, <3>1
  <2> HIDE DEF first, last
  <2>8. n \in Sequence(first, last)
    BY <2>6, <2>7 DEF Sequence
  <2> QED BY <2>8 DEF first, last
<1>3. CASE d > W
  <2>1. last = n
    <3>1. i \in 0..(d - 1)
      BY <1>3
    <3> QED BY <3>1, SMTT(30)
  <2>2. W \div d = 0
    <3>1. W \in 0..(d - 1)
      BY <1>3
    <3>2. (0 * d + W) \div d = 0
      BY <3>1, SMTT(30)
    <3> QED BY <3>2
  <2>3. first = n + 1
    <3>1. last - lag = n + 1
      BY <2>1, <2>2
    <3> HIDE DEF last, lag
    <3> QED BY <1>1, <3>1
  <2> HIDE DEF first, last
  <2>4. n \in Sequence(first, last)
    BY <2>1, <2>3 DEF Sequence
  <2> QED BY <2>4 DEF first, last
<1> QED BY <1>2, <1>3

\* A whole window passes for good, if the stride fits.
LEMMA WholeIsGood ==
    ASSUME SeriesOk, StrideFits, NEW w \in WholeWindows
    PROVE  /\ Present(series[<<w[1], w[2]>>]) # {}
           /\ \E n \in Hours : w[3] = Anchor(w[1], n) /\ IsGoodWindow(w[1], w[2], n)
PROOF
<1> DEFINE c == w[1]
           k == w[2]
           a == w[3]
           W == cfg.window
           d == cfg.stride
           s == series[<<c, k>>]
           V == Values(s)
<1>1. /\ c \in Cells /\ k \in Kpis /\ a \in Hours
      /\ a..(a + W - 1) \subseteq V /\ (a - Origin(c)) % d = 0
  BY DEF WholeWindows
<1>2. W \in Nat \ {0} /\ d \in Nat \ {0} /\ LastHour \in Nat /\ Hours = 0..LastHour
  BY KpiWindowsAssumption DEF SeriesOk, ConfigType, Hours
<1>3. V \subseteq Hours /\ V \subseteq Present(s)
  BY DEF Values, Present
<1>4. a \in V
  BY <1>1, <1>2
<1>5. Origin(c) \in Hours /\ Origin(c) <= a
  BY <1>1, <1>3, <1>4, OriginType
<1> DEFINE o == Origin(c)
<1>6. PICK n \in Nat : a - o = n * d
  <2> DEFINE x == a - o
  <2>1. x \in Nat /\ x % d = 0
    BY <1>1, <1>2, <1>5
  <2> HIDE DEF x
  <2>2. \E n \in Nat : x = n * d
    <3>1. x = (x \div d) * d + 0 /\ x \div d \in Nat
      BY <1>2, <2>1, DivMod
    <3> DEFINE q == x \div d
    <3>2. q \in Nat /\ x = q * d
      BY <1>2, <3>1
    <3> HIDE DEF q
    <3> QED BY <3>2
  <2> QED BY <2>2 DEF x
<1>7. n \in Hours /\ a = Anchor(c, n)
  <2>1. n <= n * d
    BY <1>2, SMTT(30)
  <2>2. n * d = a - o /\ a \in 0..LastHour /\ o \in 0..LastHour /\ n * d \in Nat
    BY <1>1, <1>2, <1>5, <1>6
  <2>3. n \in Hours
    BY <1>2, <2>1, <2>2
  <2> QED BY <2>2, <2>3 DEF Anchor
<1>8. ASSUME NEW i \in 0..(W - 1) PROVE a + i \in V /\ n \in AnchorsOf(c, a + i)
  <2>1. a + i \in V
    <3>1. a \in Nat /\ W \in Nat
      BY <1>1, <1>2
    <3>2. a..(a + W - 1) \subseteq V
      BY <1>1
    <3> HIDE DEF a, W, V
    <3>3. a + i \in a..(a + W - 1)
      BY <3>1
    <3> QED BY <3>2, <3>3
  <2>2. (a + i) - o = n * d + i
    BY <1>1, <1>2, <1>5, <1>6
  <2>3. W % d = 0 \/ d > W
    BY DEF StrideFits
  <2>4. n \in Sequence(Max({0, (n * d + i) \div d - (W \div d - 1)}), (n * d + i) \div d)
    BY <1>2, <2>3, AnchorsFit
  <2>5. AnchorsOf(c, a + i)
          = Sequence(Max({0, ((a + i) - o) \div d - (W \div d - 1)}), ((a + i) - o) \div d)
    BY DEF AnchorsOf
  <2>6. n \in AnchorsOf(c, a + i)
    BY ONLY <2>2, <2>4, <2>5
  <2> QED BY <2>1, <2>6
<1> DEFINE H == Counted(c, k, n)
<1>9. H = 0..(W - 1)
  <2>1. H \subseteq 0..(W - 1)
    BY DEF Counted
  <2>2. ASSUME NEW i \in 0..(W - 1) PROVE i \in H
    <3>1. i = (a + i) - Anchor(c, n)
      BY <1>1, <1>2, <1>7
    <3> QED BY <1>8, <3>1 DEF Counted
  <2> QED BY <2>1, <2>2
<1>10. Cardinality(H) = W
  <2>1. 0 \in Int /\ W - 1 \in Int /\ ~(0 > W - 1) /\ (W - 1) - 0 + 1 = W
    BY <1>2
  <2> HIDE DEF W
  <2> QED BY <1>9, <2>1, FS_Interval
<1>11. Min(H) = 0 /\ Max(H) = W - 1
  <2>1. H \in SUBSET Nat /\ H # {} /\ W - 1 \in Nat /\ H \in SUBSET (0..(W - 1))
    BY <1>2, <1>9
  <2>2. Min(H) \in H /\ \A x \in H : Min(H) <= x
    BY <2>1, LeastOf
  <2>3. Max(H) \in H /\ \A x \in H : x <= Max(H)
    BY <2>1, GreatestOf
  <2>4. 0 \in H /\ W - 1 \in H
    BY <1>2, <1>9
  <2> HIDE DEF H
  <2> QED BY <1>2, <1>9, <2>2, <2>3, <2>4
<1>12. a + W - 1 <= Max(V)
  <2>1. a + W - 1 \in V
    <3>1. a \in Nat /\ W \in Nat \ {0}
      BY <1>1, <1>2
    <3>2. a..(a + W - 1) \subseteq V
      BY <1>1
    <3> HIDE DEF a, W, V
    <3>3. a + W - 1 \in a..(a + W - 1)
      BY <3>1
    <3> QED BY <3>2, <3>3
  <2> QED BY <1>2, <1>3, <2>1, GreatestOf
<1>13. IsGoodWindow(c, k, n)
  BY <1>7, <1>10, <1>11, <1>12 DEF IsGoodWindow
<1> QED BY <1>3, <1>4, <1>7, <1>13

\* A good window begins a whole number of strides after the first hour.
LEMMA GoodIsAnchored ==
    ASSUME SeriesOk, NEW c \in Cells, NEW k \in Kpis, NEW n \in Hours,
           Present(series[<<c, k>>]) # {}
    PROVE  (Anchor(c, n) - Origin(c)) % cfg.stride = 0
PROOF
<1>1. cfg.stride \in Nat \ {0} /\ n \in Nat /\ Origin(c) \in Nat
  <2>1. Origin(c) \in Hours
    BY OriginType
  <2> QED BY <2>1, KpiWindowsAssumption DEF SeriesOk, ConfigType, Hours
<1> DEFINE d == cfg.stride
<1>2. (n * d) % d = 0
  BY <1>1
<1>3. Anchor(c, n) - Origin(c) = n * d
  <2>1. n * d \in Nat
    BY <1>1
  <2> QED BY <1>1, <2>1 DEF Anchor
<1> QED BY <1>2, <1>3

-----------------------------------------------------------------------------
(* The invariant.                                                          *)

Reading    == {"raw", "prepared", "coalesced", "varying", "pivoted", "read", "filled", "gated",
               "imputed"}
Unordered  == Reading \cup {"windows", "candidates"}
Unselected == Unordered \cup {"ordering", "ordered"}
Chosen     == {"selected", "joint", "indexed", "written", "announced"}
Joined     == {"joint", "indexed", "written", "announced"}

First(i) == {order[j] : j \in 1..i}

\* What a stage fills is empty before.
BlankInv ==
    /\ stage \in Reading => good = {}
    /\ stage \in Unordered => order = <<>> /\ counts = <<>>
    /\ stage \in Unselected => selected = {}
    /\ stage \in Unselected \cup {"selected"} => joint = {}

\* A good window has a value in each of its hours.
SoundInv ==
    \A w \in good : w[3]..(w[3] + cfg.window - 1) \subseteq Values(series[<<w[1], w[2]>>])

\* No KPI is picked twice, and each count is that of the windows its picks have in common.
OrderInv ==
    /\ counts \in Seq(Nat)
    /\ stage \in {"ordering", "ordered"} =>
          /\ \A i, j \in 1..Len(order) : order[i] = order[j] => i = j
          /\ \A i \in 1..Len(order) : counts[i] = Cardinality(Common(First(i)))
    /\ stage = "ordering" => live = Common(Picked)

\* The KPIs selected are the first so many of the order, as many as the floor allows.
SelectedInv ==
    stage \in Chosen =>
       /\ good \subseteq Cells \X selected \X Hours
       /\ selected # {} =>
             /\ Cardinality(Common(selected)) >= floor
             /\ Cardinality(selected) \in 1..Len(order)
             /\ Cardinality(selected) < Len(order) => counts[Cardinality(selected) + 1] < floor

\* A window is joint if every selected KPI has it.
JointInv ==
    stage \in Joined => joint = {w \in good : <<w[1], w[3]>> \in Common(selected)}

Anchors == {<<w[1], w[3]>> : w \in joint}

\* The rows that are indexed, and the index.
Inside(c, h) == \E a \in Anchors : a[1] = c /\ a[2] <= h /\ h < a[2] + cfg.window
IndexRows ==
    {r \in Cells \X Kpis \X Hours : /\ <<r[1], r[2]>> \in {<<w[1], w[2]>> : w \in joint}
                                    /\ series[<<r[1], r[2]>>][r[3]] # "none"
                                    /\ Inside(r[1], r[3])}
IndexInv ==
    stage = "indexed" =>
       index = {<<r[1], r[2], r[3], <<r[1], r[3]>> \in Anchors>> : r \in IndexRows}

DataInv ==
    stage \in {"written", "announced"} =>
       dataset = {<<w[1], w[3], i, selected>> : w \in joint, i \in Span}

FullInv == stage = "announced" => dataset # {}

IInv ==
    /\ TypeOK /\ BlankInv /\ SoundInv /\ OrderInv
    /\ SelectedInv /\ JointInv /\ IndexInv /\ DataInv /\ FullInv

-----------------------------------------------------------------------------
(* What windows KPIs have in common.                                       *)

LEMMA HoursAreFinite ==
    /\ Hours \subseteq Nat /\ IsFiniteSet(Hours)
    /\ IsFiniteSet(Cells \X Hours)
PROOF
<1>1. Hours \subseteq Nat /\ IsFiniteSet(Hours)
  BY KpiWindowsAssumption, FS_Interval DEF Hours
<1>2. IsFiniteSet(Cells) /\ IsFiniteSet(Kpis)
  BY KpiWindowsAssumption
<1>3. IsFiniteSet(Cells \X Hours)
  BY <1>1, <1>2, FS_Product
<1> QED BY <1>1, <1>3

LEMMA CommonIsFinite ==
    ASSUME NEW S
    PROVE  /\ IsFiniteSet(Common(S)) /\ Cardinality(Common(S)) \in Nat
           /\ Cardinality(Common(S)) <= Cardinality(Cells \X Hours)
           /\ Cardinality(Cells \X Hours) \in Nat
PROOF
<1>1. Common(S) \in SUBSET (Cells \X Hours)
  BY DEF Common
<1>2. IsFiniteSet(Cells \X Hours)
  BY HoursAreFinite
<1> QED BY <1>1, <1>2, FS_Subset, FS_CardinalityType

LEMMA CoverageOf ==
    ASSUME TypeOK, NEW k \in Kpis
    PROVE  /\ Coverage(k) \subseteq Cells \X Hours
           /\ \A c \in Cells, h \in Hours : <<c, h>> \in Coverage(k) <=> <<c, k, h>> \in good
PROOF
<1>1. good \subseteq Cells \X Kpis \X Hours
  BY DEF TypeOK
<1> QED BY <1>1 DEF Coverage

LEMMA CommonGrows ==
    ASSUME TypeOK, NEW S, NEW k \in Kpis
    PROVE  Common(S \cup {k}) = Common(S) \cap Coverage(k)
PROOF
<1>1. Coverage(k) \subseteq Cells \X Hours
  BY CoverageOf
<1> QED BY <1>1 DEF Common

LEMMA OrderType ==
    ASSUME TypeOK
    PROVE  /\ Len(order) \in Nat /\ DOMAIN order = 1..Len(order)
           /\ \A i \in 1..Len(order) : order[i] \in candidates /\ order[i] \in Kpis
           /\ Picked = First(Len(order))
PROOF
<1>1. order \in Seq(candidates) /\ candidates \subseteq Kpis
  BY DEF TypeOK
<1>2. Len(order) \in Nat /\ DOMAIN order = 1..Len(order)
      /\ \A i \in 1..Len(order) : order[i] \in candidates
  BY <1>1
<1> QED BY <1>1, <1>2 DEF Picked, First

-----------------------------------------------------------------------------
(* The steps.                                                              *)

LEMMA InitIInv == PreprocessingInit => IInv
PROOF
<1> SUFFICES ASSUME PreprocessingInit PROVE IInv
  OBVIOUS
<1>1. cfg \in Configs /\ stage \in {"raw", "read"} /\ good = {}
      /\ series \in [Cells \X Kpis -> [Hours -> Rows]]
  <2>1. CASE WindowInit
    BY <2>1, KpiWindowsAssumption DEF WindowInit
  <2>2. CASE ~WindowInit
    <3>1. series = [x \in Cells \X Kpis |-> NoSeries] /\ cfg \in Configs /\ stage = "raw"
          /\ good = {}
      BY <2>2 DEF PreprocessingInit
    <3>2. NoSeries \in [Hours -> Rows]
      BY DEF NoSeries, Rows
    <3> QED BY <3>1, <3>2
  <2> QED BY <2>1, <2>2, KpiWindowsAssumption
<1>2. NothingChosen
  BY DEF PreprocessingInit
<1>3. TypeOK
  <2>1. order \in Seq(candidates) /\ Len(order) = Len(counts)
    BY <1>2 DEF NothingChosen
  <2>2. stage \in Stages
    BY <1>1 DEF Stages
  <2> QED BY <1>1, <1>2, <2>1, <2>2 DEF TypeOK, NothingChosen
<1>4. BlankInv /\ SoundInv
  BY <1>1, <1>2 DEF BlankInv, SoundInv, NothingChosen
<1>5. OrderInv
  <2>1. counts \in Seq(Nat)
    BY <1>2 DEF NothingChosen
  <2> QED BY <1>1, <2>1 DEF OrderInv
<1>6. SelectedInv /\ JointInv /\ IndexInv /\ DataInv /\ FullInv
  BY <1>1 DEF SelectedInv, JointInv, IndexInv, DataInv, FullInv, Chosen, Joined
<1> QED BY <1>3, <1>4, <1>5, <1>6 DEF IInv

\* A stage of the reading leaves windows and choice empty, and rows in the series.
LEMMA ReadingKeeps ==
    ASSUME IInv, stage \in Reading, stage' \in Reading, UNCHANGED <<cfg, good>>,
           UNCHANGED choiceVars, UNCHANGED outputVars,
           series' \in [Cells \X Kpis -> [Hours -> Rows]]
    PROVE  IInv'
PROOF
<1> USE DEF IInv, choiceVars, outputVars
<1>1. TypeOK'
  BY DEF TypeOK, Reading, Stages
<1>2. BlankInv' /\ good' = {}
  BY DEF BlankInv, Reading, Unordered, Unselected
<1>3. SoundInv'
  BY <1>2 DEF SoundInv
<1>4. OrderInv'
  BY DEF OrderInv, Reading
<1>5. SelectedInv' /\ JointInv' /\ IndexInv' /\ DataInv' /\ FullInv'
  BY DEF SelectedInv, JointInv, IndexInv, DataInv, FullInv, Chosen, Joined, Reading
<1> QED BY <1>1, <1>2, <1>3, <1>4, <1>5

\* The stages before the windows.
LEMMA RawKeeps ==
    ASSUME IInv, UNCHANGED choiceVars, UNCHANGED outputVars,
           PrepareRaw \/ CoalesceKpiVersion \/ PopConstantKpis \/ PivotReports \/ JoinConfigs
    PROVE  IInv'
PROOF
<1>1. series \in [Cells \X Kpis -> [Hours -> Rows]]
  BY DEF IInv, TypeOK
<1>2. CASE JoinConfigs
  <2>1. stage \in Reading /\ stage' \in Reading /\ UNCHANGED <<cfg, good>>
    BY <1>2 DEF JoinConfigs, Reading
  <2>2. series' \in [Cells \X Kpis -> [Hours -> Rows]]
    <3> DEFINE G == [r \in pm |-> <<r.cell, ConfigOf(r)>>]
               R(x, h) == {r \in pm : r.kpi = x[2] /\ r.hour = h /\ G[r] = x[1]}
               V(x, h) == CASE R(x, h) = {}                      -> "none"
                            [] \E r \in R(x, h) : r.value # Null -> "value"
                            [] OTHER                             -> "null"
    <3>1. series' = [x \in Cells \X Kpis |-> [h \in Hours |-> V(x, h)]]
      BY <1>1, <1>2 DEF JoinConfigs
    <3>2. \A x \in Cells \X Kpis, h \in Hours : V(x, h) \in Rows
      <4> TAKE x \in Cells \X Kpis, h \in Hours
      <4>1. CASE R(x, h) = {} /\ ~ \E r \in R(x, h) : r.value # Null
        BY <4>1 DEF Rows
      <4>2. CASE R(x, h) # {} /\ \E r \in R(x, h) : r.value # Null
        BY <4>2 DEF Rows
      <4>3. CASE R(x, h) # {} /\ ~ \E r \in R(x, h) : r.value # Null
        BY <4>3 DEF Rows
      <4>4. R(x, h) = {} => ~ \E r \in R(x, h) : r.value # Null
        OBVIOUS
      <4> QED BY <4>1, <4>2, <4>3, <4>4
    <3> HIDE DEF V
    <3> QED BY <3>1, <3>2
  <2> QED BY <2>1, <2>2, ReadingKeeps
<1>3. CASE ~JoinConfigs
  <2>1. stage \in Reading /\ stage' \in Reading /\ UNCHANGED <<cfg, good, series>>
    BY <1>3 DEF PrepareRaw, CoalesceKpiVersion, PopConstantKpis, PivotReports, Reading
  <2> QED BY <1>1, <2>1, ReadingKeeps
<1> QED BY <1>2, <1>3

LEMMA FillingKeeps ==
    ASSUME IInv, UNCHANGED choiceVars, UNCHANGED outputVars,
           FillInternalGaps \/ ImputabilityGate \/ Impute
    PROVE  IInv'
PROOF
<1>1. series \in [Cells \X Kpis -> [Hours -> Rows]]
  BY DEF IInv, TypeOK
<1>2. stage \in Reading /\ stage' \in Reading /\ UNCHANGED <<cfg, good>>
  BY DEF FillInternalGaps, ImputabilityGate, Impute, Reading
<1>3. series' \in [Cells \X Kpis -> [Hours -> Rows]]
  <2>1. CASE FillInternalGaps
    <3> DEFINE V(x, h) == IF h \in Spine(series[x]) /\ (series[x][h] = "none" \/ x[1] \in Nameless)
                          THEN "null" ELSE series[x][h]
    <3>1. series' = [x \in Cells \X Kpis |-> [h \in Hours |-> V(x, h)]]
      BY <1>1, <2>1 DEF FillInternalGaps
    <3>2. \A x \in Cells \X Kpis, h \in Hours : V(x, h) \in Rows
      BY <1>1 DEF Rows
    <3> HIDE DEF V
    <3> QED BY <3>1, <3>2
  <2>2. CASE ImputabilityGate
    <3> DEFINE V(x) == IF x[1] \notin Nameless /\ Imputable(series[x]) THEN series[x] ELSE NoSeries
    <3>1. series' = [x \in Cells \X Kpis |-> V(x)]
      BY <1>1, <2>2 DEF ImputabilityGate
    <3>2. NoSeries \in [Hours -> Rows]
      BY DEF NoSeries, Rows
    <3>3. \A x \in Cells \X Kpis : V(x) \in [Hours -> Rows]
      BY <1>1, <3>2
    <3> HIDE DEF V
    <3> QED BY <3>1, <3>3
  <2>3. CASE Impute
    <3> DEFINE V(x, h) == IF series[x][h] = "null"
                                /\ Fillable(series[x], h, AggMethod(Hint[x[2]]))
                          THEN "value" ELSE series[x][h]
    <3>1. series' = [x \in Cells \X Kpis |-> [h \in Hours |-> V(x, h)]]
      BY <1>1, <2>3 DEF Impute
    <3>2. \A x \in Cells \X Kpis, h \in Hours : V(x, h) \in Rows
      BY <1>1 DEF Rows
    <3> HIDE DEF V
    <3> QED BY <3>1, <3>2
  <2> QED BY <2>1, <2>2, <2>3
<1> QED BY <1>2, <1>3, ReadingKeeps

\* The windows that are found are sound.
LEMMA WindowsKeep ==
    ASSUME IInv, UNCHANGED choiceVars, UNCHANGED outputVars, DropWindowsWithNulls
    PROVE  IInv'
PROOF
<1> USE DEF IInv, choiceVars, outputVars
<1>1. stage = "imputed" /\ stage' = "windows" /\ UNCHANGED <<cfg, series>>
      /\ good' = {w \in Cells \X Kpis \X Hours :
                    /\ Present(series[<<w[1], w[2]>>]) # {}
                    /\ \E n \in Hours : w[3] = Anchor(w[1], n) /\ IsGoodWindow(w[1], w[2], n)}
  BY DEF DropWindowsWithNulls
<1>2. order = <<>> /\ counts = <<>> /\ selected = {} /\ joint = {}
  BY <1>1 DEF BlankInv, Reading, Unordered, Unselected
<1>3. TypeOK'
  <2>1. good' \subseteq Cells \X Kpis \X Hours /\ joint' \subseteq good'
    BY <1>1, <1>2
  <2> QED BY <1>1, <2>1 DEF TypeOK, Stages
<1>4. BlankInv'
  BY <1>1, <1>2 DEF BlankInv, Reading, Unordered, Unselected
<1>5. SoundInv'
  <2> SUFFICES ASSUME NEW w \in good'
               PROVE  w[3]..(w[3] + cfg.window - 1) \subseteq Values(series[<<w[1], w[2]>>])
    BY <1>1 DEF SoundInv, Values
  <2>1. w[1] \in Cells /\ w[2] \in Kpis /\ Present(series[<<w[1], w[2]>>]) # {}
    BY <1>1
  <2>2. PICK n \in Hours : w[3] = Anchor(w[1], n) /\ IsGoodWindow(w[1], w[2], n)
    BY <1>1
  <2>3. SeriesOk
    BY KpiWindowsAssumption DEF SeriesOk, TypeOK
  <2> QED BY <2>1, <2>2, <2>3, WindowIsFull
<1>6. OrderInv'
  BY <1>1 DEF OrderInv
<1>7. SelectedInv' /\ JointInv' /\ IndexInv' /\ DataInv' /\ FullInv'
  BY <1>1 DEF SelectedInv, JointInv, IndexInv, DataInv, FullInv, Chosen, Joined
<1> QED BY <1>3, <1>4, <1>5, <1>6, <1>7

LEMMA PrefilterKeeps ==
    ASSUME IInv, PrefilterKpis
    PROVE  IInv'
PROOF
<1> USE DEF IInv, outputVars
<1>1. stage = "windows" /\ stage' \in {"failed", "candidates"}
      /\ UNCHANGED <<cfg, series, order, counts, live, floor, selected, joint, index, dataset>>
  BY DEF PrefilterKpis
<1>2. order = <<>> /\ counts = <<>> /\ selected = {} /\ joint = {}
  BY <1>1 DEF BlankInv, Reading, Unordered, Unselected
<1>3. good' \subseteq good /\ candidates' \subseteq Kpis
  <2> DEFINE found == {w[2] : w \in good}
             cells     == Cardinality({w[1] : w \in good})
             rank      == (Percentile * Cardinality(found) + 99) \div 100
             atMost(b) == Cardinality({k \in found : Breadth(k) <= b})
             quantile  == Min({Breadth(k) : k \in {l \in found : atMost(Breadth(l)) >= rank}})
             survivors == {k \in found : \/ Breadth(k) >= quantile
                                         \/ 100 * Breadth(k) >= BreadthFloor * cells}
             dropped   == Cardinality(found \ survivors)
  <2>1. found \subseteq Kpis /\ survivors \subseteq found
    BY DEF TypeOK
  <2>2. CASE UNCHANGED <<candidates, good>>
    BY <2>2 DEF TypeOK
  <2>3. CASE ~UNCHANGED <<candidates, good>>
    <3>1. candidates' = IF 100 * dropped > MaxDrop * Cardinality(found) THEN found ELSE survivors
      BY <2>3, Zenon DEF PrefilterKpis
    <3>2. good' = {w \in good : w[2] \in candidates'}
      BY <2>3 DEF PrefilterKpis
    <3>3. candidates' \subseteq found
      <4> HIDE DEF found, survivors, dropped
      <4> QED BY <2>1, <3>1
    <3> QED BY <2>1, <3>2, <3>3
  <2> QED BY <2>2, <2>3
<1>4. TypeOK'
  <2>1. good' \subseteq Cells \X Kpis \X Hours /\ joint' \subseteq good'
    BY <1>1, <1>2, <1>3 DEF TypeOK
  <2>2. order' \in Seq(candidates') /\ selected' \subseteq candidates'
    BY <1>1, <1>2
  <2> QED BY <1>1, <1>3, <2>1, <2>2 DEF TypeOK, Stages
<1>5. BlankInv'
  BY <1>1, <1>2 DEF BlankInv, Reading, Unordered, Unselected
<1>6. SoundInv'
  BY <1>1, <1>3 DEF SoundInv, Values
<1>7. OrderInv'
  BY <1>1 DEF OrderInv
<1>8. SelectedInv' /\ JointInv' /\ IndexInv' /\ DataInv' /\ FullInv'
  BY <1>1 DEF SelectedInv, JointInv, IndexInv, DataInv, FullInv, Chosen, Joined
<1> QED BY <1>4, <1>5, <1>6, <1>7, <1>8

-----------------------------------------------------------------------------
(* The order of the KPIs.                                                  *)

\* What an order leaves alone.
LEMMA OrderingKeeps ==
    ASSUME IInv, UNCHANGED <<cfg, series, good, candidates>>, UNCHANGED outputVars,
           stage \in Unselected, stage' \in {"ordering", "ordered", "failed"},
           order' \in Seq(candidates), counts' \in Seq(Nat), Len(counts') = Len(order'),
           live' \subseteq Cells \X Hours, floor' \in Int, OrderInv'
    PROVE  IInv'
PROOF
<1> USE DEF IInv, outputVars
<1>1. selected = {} /\ joint = {}
  BY DEF BlankInv, Unselected
<1>2. TypeOK'
  BY DEF TypeOK, Stages
<1>3. BlankInv'
  BY <1>1 DEF BlankInv, Reading, Unordered, Unselected
<1>4. SoundInv'
  BY DEF SoundInv, Values
<1>5. SelectedInv' /\ JointInv' /\ IndexInv' /\ DataInv' /\ FullInv'
  BY DEF SelectedInv, JointInv, IndexInv, DataInv, FullInv, Chosen, Joined
<1> QED BY <1>2, <1>3, <1>4, <1>5

LEMMA SeedKeeps ==
    ASSUME IInv, SeedOrder
    PROVE  IInv'
PROOF
<1>1. PICK k \in candidates : /\ order' = <<k>> /\ live' = Coverage(k)
                              /\ counts' = <<Cardinality(live')>>
  BY DEF SeedOrder
<1>2. k \in Kpis /\ TypeOK
  BY DEF IInv, TypeOK
<1>3. stage = "candidates" /\ stage' = "ordering" /\ UNCHANGED <<cfg, series, good, candidates, floor>>
  BY DEF SeedOrder
<1>4. Coverage(k) = Common({k}) /\ Coverage(k) \subseteq Cells \X Hours
  BY <1>2, CoverageOf DEF Common
<1>5. Cardinality(live') \in Nat
  BY <1>1, <1>4, CommonIsFinite
<1>6. Len(order') = 1 /\ Len(counts') = 1 /\ order' \in Seq(candidates) /\ counts' \in Seq(Nat)
  BY <1>1, <1>5
<1>7. OrderInv'
  <2>1. order'[1] = k /\ counts'[1] = Cardinality(live')
    BY <1>1
  <2>2. Picked' = {k} /\ First(1)' = {k}
    BY <1>6, <2>1 DEF Picked, First
  <2>3. Common({k})' = Common({k})
    BY <1>3 DEF Common, Coverage
  <2>4. Common(Picked)' = live' /\ Cardinality(Common(First(1))') = counts'[1]
    <3>1. Common(Picked)' = Common({k})' /\ Common(First(1))' = Common({k})'
      BY <2>2 DEF Common, Coverage
    <3> QED BY <1>1, <1>4, <2>1, <2>3, <3>1
  <2> QED BY <1>3, <1>6, <2>4 DEF OrderInv
<1>8. stage \in Unselected /\ UNCHANGED outputVars /\ floor' \in Int
  BY <1>2, <1>3 DEF SeedOrder, Unselected, Unordered, TypeOK
<1> QED BY <1>1, <1>3, <1>4, <1>6, <1>7, <1>8, OrderingKeeps

LEMMA PickKeeps ==
    ASSUME IInv, Pick
    PROVE  IInv'
PROOF
<1>0. PICK n \in Nat : n = Len(order)
  BY DEF IInv, TypeOK
<1>1. PICK k \in candidates \ Picked :
          /\ order' = Append(order, k) /\ live' = Keep(k)
          /\ counts' = Append(counts, Cardinality(live'))
  BY DEF Pick
<1>2. stage = "ordering" /\ stage' = "ordering" /\ UNCHANGED <<cfg, series, good, candidates, floor>>
  BY DEF Pick
<1>3. k \in Kpis /\ TypeOK /\ OrderInv
  BY DEF IInv, TypeOK
<1>4. live = Common(Picked) /\ counts \in Seq(Nat) /\ Len(counts) = n /\ n \in Nat
      /\ order \in Seq(candidates)
      /\ (\A i, j \in 1..n : order[i] = order[j] => i = j)
      /\ \A i \in 1..n : counts[i] = Cardinality(Common(First(i)))
  BY <1>0, <1>2, <1>3 DEF OrderInv, TypeOK
<1>5. live' = Common(Picked \cup {k}) /\ live' \subseteq Cells \X Hours
  <2>1. live' = Common(Picked) \cap Coverage(k)
    BY <1>1, <1>4 DEF Keep
  <2>2. Coverage(k) \subseteq Cells \X Hours
    BY <1>3, CoverageOf
  <2> QED BY <1>3, <2>1, <2>2, CommonGrows
<1>6. Cardinality(live') \in Nat
  BY <1>5, CommonIsFinite
<1>7. /\ order' \in Seq(candidates) /\ Len(order') = n + 1
      /\ order'[n + 1] = k /\ \A i \in 1..n : order'[i] = order[i]
  BY <1>0, <1>1, <1>4
<1>8. /\ counts' \in Seq(Nat) /\ Len(counts') = n + 1
      /\ counts'[n + 1] = Cardinality(live') /\ \A i \in 1..n : counts'[i] = counts[i]
  BY SMTT(30), <1>1, <1>4, <1>6
<1>9. \A i \in 1..n : First(i)' = First(i)
  <2> TAKE i \in 1..n
  <2>1. \A j \in 1..i : j \in 1..n
    OBVIOUS
  <2>2. \A j \in 1..n : order'[j] = order[j]
    BY <1>7
  <2>3. \A j \in 1..i : order'[j] = order[j]
    BY ONLY <2>1, <2>2
  <2> QED BY <2>3 DEF First
<1>10. Picked' = Picked \cup {k} /\ First(n + 1)' = Picked \cup {k}
  <2>1. Picked = {order[j] : j \in 1..n}
    BY <1>0, <1>3, OrderType DEF First
  <2>2. 1..(n + 1) = 1..n \cup {n + 1}
    BY <1>4
  <2>3. {order'[j] : j \in 1..(n + 1)} = Picked \cup {k}
    BY <1>7, <2>1, <2>2
  <2>4. DOMAIN order' = 1..(n + 1)
    BY <1>7
  <2> QED BY <2>3, <2>4 DEF Picked, First
<1>11. OrderInv'
  <2>1. ASSUME NEW i \in 1..(n + 1), NEW j \in 1..(n + 1), order'[i] = order'[j] PROVE i = j
    <3>1. \A m \in 1..n : order[m] \in Picked
      BY <1>0, <1>3, OrderType DEF First
    <3>2. CASE i \in 1..n /\ j \in 1..n
      BY <1>4, <1>7, <2>1, <3>2
    <3>3. CASE i \in 1..n /\ j = n + 1
      BY <1>1, <1>7, <2>1, <3>1, <3>3
    <3>4. CASE i = n + 1 /\ j \in 1..n
      BY <1>1, <1>7, <2>1, <3>1, <3>4
    <3>5. CASE i = n + 1 /\ j = n + 1
      BY <3>5
    <3>6. \A m \in 1..(n + 1) : m \in 1..n \/ m = n + 1
      BY <1>4
    <3> QED BY <3>2, <3>3, <3>4, <3>5, <3>6
  <2>2. ASSUME NEW i \in 1..(n + 1) PROVE counts'[i] = Cardinality(Common(First(i))')
    <3>1. CASE i \in 1..n
      <4>1. Common(First(i))' = Common(First(i))
        BY <1>2, <1>9, <3>1 DEF Common, Coverage
      <4> QED BY <1>4, <1>8, <3>1, <4>1
    <3>2. CASE i = n + 1
      <4>1. Common(First(i))' = Common(Picked \cup {k})
        BY <1>2, <1>10, <3>2 DEF Common, Coverage
      <4> QED BY <1>5, <1>8, <3>2, <4>1
    <3> QED BY <1>4, <3>1, <3>2
  <2>3. live' = Common(Picked)'
    BY <1>2, <1>5, <1>10 DEF Common, Coverage
  <2> QED BY <1>7, <1>8, <2>1, <2>2, <2>3 DEF OrderInv
<1>12. stage \in Unselected /\ UNCHANGED outputVars /\ floor' \in Int
  BY <1>2, <1>3 DEF Pick, Unselected, TypeOK
<1> QED BY <1>2, <1>5, <1>7, <1>8, <1>11, <1>12, OrderingKeeps

\* Counts are between nothing and all windows, so second differences have a least one.
LEMMA ElbowType ==
    ASSUME IInv, stage = "ordering", Len(counts) >= 3
    PROVE  Elbow \in 1..Len(counts)
PROOF
<1> DEFINE n     == Len(counts)
           b     == Cardinality(Cells \X Hours)
           steps == 1..(n - 2)
           least == {i \in steps : \A j \in steps : SecondDifference(i) <= SecondDifference(j)}
           D     == {SecondDifference(i) + 2 * b : i \in steps}
<1>1. n \in Nat /\ n >= 3 /\ Len(order) = n
  BY DEF IInv, TypeOK, OrderInv
<1>2. \A i \in 1..n : counts[i] \in 0..b
  <2> TAKE i \in 1..n
  <2>1. counts[i] = Cardinality(Common(First(i)))
    BY <1>1 DEF IInv, OrderInv
  <2>2. Cardinality(Common(First(i))) \in Nat /\ Cardinality(Common(First(i))) <= b /\ b \in Nat
    BY CommonIsFinite
  <2> HIDE DEF b
  <2> QED BY <2>1, <2>2
<1>3. b \in Nat
  BY CommonIsFinite
<1>4. \A i \in steps : SecondDifference(i) \in Int /\ SecondDifference(i) + 2 * b \in Nat
  <2> TAKE i \in steps
  <2>1. i \in 1..n /\ i + 1 \in 1..n /\ i + 2 \in 1..n
    BY <1>1
  <2>2. counts[i] \in 0..b /\ counts[i + 1] \in 0..b /\ counts[i + 2] \in 0..b
    BY <1>2, <2>1
  <2>3. SecondDifference(i) = counts[i + 2] - 2 * counts[i + 1] + counts[i]
    BY DEF SecondDifference
  <2>4. \A x, y, z \in 0..b :
           (x - 2 * y + z) \in Int /\ (x - 2 * y + z) + 2 * b \in Nat
    <3> HIDE DEF b
    <3> QED BY <1>3
  <2> HIDE DEF b
  <2> QED BY <2>2, <2>3, <2>4
<1>5. D \in SUBSET Nat /\ D # {}
  <2>1. 1 \in steps
    BY <1>1
  <2>2. \A i \in steps : SecondDifference(i) + 2 * b \in Nat
    BY <1>4
  <2> HIDE DEF b, steps
  <2> QED BY <2>1, <2>2
<1>6. PICK d \in D : \A x \in D : d <= x
  BY <1>5, LeastOf
<1>7. PICK i \in steps : d = SecondDifference(i) + 2 * b
  BY <1>6
<1>8. i \in least
  <2> SUFFICES ASSUME NEW j \in steps PROVE SecondDifference(i) <= SecondDifference(j)
    OBVIOUS
  <2>1. SecondDifference(i) + 2 * b <= SecondDifference(j) + 2 * b
    BY <1>6, <1>7
  <2>2. SecondDifference(i) \in Int /\ SecondDifference(j) \in Int
    BY <1>4
  <2> HIDE DEF b
  <2> QED BY <1>3, <2>1, <2>2
<1>9. least \in SUBSET Nat /\ least # {}
  <2>1. steps \subseteq Nat /\ least \subseteq steps
    BY <1>1
  <2> HIDE DEF steps, least
  <2> QED BY <1>8, <2>1
<1>10. Min(least) \in least
  BY <1>9, LeastOf
<1>11. Elbow = Min(least)
  BY DEF Elbow
<1>12. least \subseteq 1..n
  BY <1>1
<1> QED BY <1>10, <1>11, <1>12

LEMMA FloorKeeps ==
    ASSUME IInv, SetFloor
    PROVE  IInv'
PROOF
<1>1. stage = "ordering" /\ stage' \in {"ordered", "failed"}
      /\ UNCHANGED <<cfg, series, good, candidates, order, counts, live>> /\ UNCHANGED outputVars
  BY DEF SetFloor
<1>2. TypeOK /\ OrderInv /\ cfg \in ConfigType
  BY KpiWindowsAssumption DEF IInv, TypeOK
<1>3. floor' \in Int
  <2>1. CASE cfg.floor # NoFloor
    <3>1. cfg.floor \in Int
      BY <1>2 DEF ConfigType
    <3> QED BY <2>1, <3>1 DEF SetFloor
  <2>2. CASE cfg.floor = NoFloor /\ Len(counts) >= 3
    <3>1. Elbow \in 1..Len(counts)
      BY <1>1, <2>2, ElbowType
    <3>2. counts[Elbow] \in Nat
      BY <1>2, <3>1 DEF OrderInv
    <3>3. Len(counts) \in Nat /\ floor' = counts[Elbow]
      BY <1>2, <2>2 DEF SetFloor, OrderInv
    <3> QED BY <3>2, <3>3
  <2>3. CASE floor' = floor
    BY <1>2, <2>3 DEF TypeOK
  <2> QED BY <2>1, <2>2, <2>3 DEF SetFloor
<1>4. OrderInv'
  <2>1. \A i : First(i)' = First(i) /\ Common(First(i))' = Common(First(i))
    BY <1>1 DEF First, Common, Coverage
  <2> QED BY <1>1, <1>2, <2>1 DEF OrderInv
<1>5. /\ order' \in Seq(candidates) /\ counts' \in Seq(Nat) /\ Len(counts') = Len(order')
      /\ live' \subseteq Cells \X Hours /\ stage \in Unselected
  BY <1>1, <1>2 DEF TypeOK, OrderInv, Unselected
<1> QED BY <1>1, <1>3, <1>4, <1>5, OrderingKeeps

-----------------------------------------------------------------------------
(* What is selected and what is written.                                   *)

\* As many KPIs as places, since no KPI is picked twice.
LEMMA FirstAre ==
    ASSUME NEW n \in Nat, n = Len(order), NEW m \in 0..n,
           \A i, j \in 1..n : order[i] = order[j] => i = j
    PROVE  Cardinality(First(m)) = m
PROOF
<1> DEFINE f == [i \in 1..m |-> order[i]]
<1>1. f \in Bijection(1..m, First(m))
  <2>1. f \in [1..m -> First(m)] /\ \A t \in First(m) : \E i \in 1..m : f[i] = t
    BY DEF First
  <2>2. \A i, j \in 1..m : f[i] = f[j] => i = j
    <3>1. \A i \in 1..m : i \in 1..n
      OBVIOUS
    <3> QED BY <3>1
  <2> QED BY <2>1, <2>2 DEF Bijection, Injection, Surjection, IsInjective
<1>2. IsFiniteSet(1..m) /\ Cardinality(1..m) = m
  BY FS_Interval
<1> QED BY <1>1, <1>2, FS_Bijection DEF ExistsBijection

LEMMA SelectKeeps ==
    ASSUME IInv, Select
    PROVE  IInv'
PROOF
<1>0. PICK n \in Nat : n = Len(order)
  BY DEF IInv, TypeOK
<1>1. /\ stage = "ordered" /\ stage' = "selected"
      /\ UNCHANGED <<cfg, joint, index, dataset, candidates, order, counts, live, floor>>
      /\ good' = {w \in good : w[2] \in selected'}
  BY DEF Select, choiceVars
<1>2. TypeOK /\ OrderInv /\ joint = {}
  BY <1>1 DEF IInv, BlankInv, Unselected
<1>3. /\ (\A i, j \in 1..n : order[i] = order[j] => i = j)
      /\ \A i \in 1..n : counts[i] = Cardinality(Common(First(i)))
  BY <1>0, <1>1, <1>2 DEF OrderInv
<1>4. \A i \in 1..n : counts[i] \in Nat /\ order[i] \in candidates
  BY <1>0, <1>2, OrderType DEF OrderInv, TypeOK
<1> DEFINE D == {j \in 1..n : \A l \in 1..j : Reaches(l)}
<1>5. PICK m \in 0..n : D = 1..m /\ (m < n => m + 1 \notin D)
  <2>1. \A i \in D : \A j \in 1..i : j \in D
    OBVIOUS
  <2> HIDE DEF D
  <2>2. D \in SUBSET (1..n)
    BY DEF D
  <2> QED BY <2>1, <2>2, FirstPlaces
<1>6. selected' = First(m) /\ First(m) \subseteq candidates
  <2>1. DOMAIN order = 1..n
    BY <1>0, <1>2, OrderType
  <2>2. selected' = {order[i] : i \in D}
    BY <2>1 DEF Select
  <2> QED BY <1>4, <1>5, <2>2 DEF First
<1>7. Cardinality(First(m)) = m
  BY <1>0, <1>3, FirstAre
<1>8. TypeOK'
  <2>1. NoSeries \in [Hours -> Rows]
    BY DEF NoSeries, Rows
  <2>2. series' \in [Cells \X Kpis -> [Hours -> Rows]]
    BY <1>2, <2>1 DEF Select, TypeOK
  <2>3. good' \subseteq Cells \X Kpis \X Hours /\ joint' \subseteq good'
    BY <1>1, <1>2 DEF TypeOK
  <2>4. selected' \subseteq candidates'
    BY <1>1, <1>6
  <2> QED BY <1>1, <1>2, <2>2, <2>3, <2>4 DEF TypeOK, Stages
<1>9. BlankInv'
  BY <1>1, <1>2 DEF BlankInv, Reading, Unordered, Unselected
<1>10. SoundInv'
  <2> SUFFICES ASSUME NEW w \in good'
               PROVE  w[3]..(w[3] + cfg.window - 1) \subseteq Values(series'[<<w[1], w[2]>>])
    BY <1>1 DEF SoundInv, Values
  <2>1. w \in good /\ w[2] \in selected' /\ w \in Cells \X Kpis \X Hours
    BY <1>1, <1>2 DEF TypeOK
  <2>2. series'[<<w[1], w[2]>>] = series[<<w[1], w[2]>>]
    BY <1>2, <2>1 DEF Select, TypeOK
  <2> QED BY <2>1, <2>2 DEF IInv, SoundInv
<1>11. OrderInv'
  BY <1>1, <1>2 DEF OrderInv
<1>12. SelectedInv'
  <2>1. good' \subseteq Cells \X selected' \X Hours
    BY <1>1, <1>2 DEF TypeOK
  <2>2. Common(selected)' = Common(First(m))
    <3>1. \A k \in selected' : Coverage(k)' = Coverage(k)
      BY <1>1 DEF Coverage
    <3> QED BY <1>6, <3>1 DEF Common
  <2>3. ASSUME selected' # {}
        PROVE  /\ Cardinality(Common(First(m))) >= floor
               /\ m \in 1..n /\ (m < n => counts[m + 1] < floor)
    <3>1. m \in 1..n
      <4>1. m # 0
        BY <1>6, <2>3 DEF First
      <4> QED BY <4>1
    <3>2. \A l \in 1..m : Reaches(l)
      BY <1>5, <3>1
    <3>3. counts[m] >= floor
      BY <3>1, <3>2 DEF Reaches
    <3>4. ASSUME m < n PROVE counts[m + 1] < floor
      <4>1. m + 1 \in 1..n /\ ~ \A l \in 1..(m + 1) : Reaches(l)
        BY <1>5, <3>4
      <4>2. ~Reaches(m + 1)
        BY <3>2, <4>1
      <4>3. counts[m + 1] \in Nat /\ floor \in Int
        BY <1>2, <1>4, <4>1 DEF TypeOK
      <4> QED BY <4>2, <4>3 DEF Reaches
    <3> QED BY <1>3, <3>1, <3>3, <3>4
  <2> QED BY <1>0, <1>1, <1>6, <1>7, <2>1, <2>2, <2>3 DEF SelectedInv
<1>13. JointInv' /\ IndexInv' /\ DataInv' /\ FullInv'
  BY <1>1 DEF JointInv, IndexInv, DataInv, FullInv, Joined
<1> QED BY <1>8, <1>9, <1>10, <1>11, <1>12, <1>13 DEF IInv

\* After the selection nothing changes what KPIs have in common.
LEMMA WritingKeeps ==
    ASSUME IInv, UNCHANGED <<cfg, series, good, selected>>, UNCHANGED choiceVars,
           stage \in Chosen, stage' \in Joined \cup {"failed"}
    PROVE  BlankInv' /\ SoundInv' /\ OrderInv' /\ SelectedInv'
PROOF
<1> USE DEF IInv, choiceVars
<1>1. BlankInv' /\ OrderInv'
  BY DEF BlankInv, OrderInv, Reading, Unordered, Unselected, Chosen, Joined
<1>2. SoundInv'
  BY DEF SoundInv, Values
<1>3. SelectedInv'
  <2>1. Common(selected)' = Common(selected)
    BY DEF Common, Coverage
  <2> QED BY <2>1 DEF SelectedInv, Joined
<1> QED BY <1>1, <1>2, <1>3

LEMMA JoinKeeps ==
    ASSUME IInv, FilterJointCompleteWindows
    PROVE  IInv'
PROOF
<1>1. /\ stage = "selected" /\ stage' = "joint"
      /\ UNCHANGED <<cfg, series, good, selected, index, dataset>> /\ UNCHANGED choiceVars
      /\ joint' = {w \in good : Complete(w[1], w[3])}
  BY DEF FilterJointCompleteWindows
<1>2. BlankInv' /\ SoundInv' /\ OrderInv' /\ SelectedInv'
  BY <1>1, WritingKeeps DEF Chosen, Joined
<1>3. TypeOK'
  BY <1>1 DEF IInv, TypeOK, Stages, choiceVars
<1>4. JointInv'
  <2>1. Common(selected)' = Common(selected)
    BY <1>1 DEF Common, Coverage
  <2>2. \A w \in good : Complete(w[1], w[3]) <=> <<w[1], w[3]>> \in Common(selected)
    <3> TAKE w \in good
    <3> DEFINE c == w[1]
               a == w[3]
               has == {k \in selected : <<c, k, a>> \in good}
    <3>1. c \in Cells /\ a \in Hours /\ selected \subseteq Kpis
      BY DEF IInv, TypeOK
    <3>2. \A k \in selected : <<c, a>> \in Coverage(k) <=> <<c, k, a>> \in good
      BY <3>1, CoverageOf DEF IInv
    <3>3. <<c, a>> \in Common(selected) <=> has = selected
      BY <3>1, <3>2 DEF Common
    <3>4. IsFiniteSet(selected) /\ has \in SUBSET selected
      BY <3>1, FS_Subset, KpiWindowsAssumption
    <3>5. Cardinality(has) = Cardinality(selected) <=> has = selected
      BY <3>4, FS_Subset
    <3>6. Complete(w[1], w[3]) <=> Cardinality(has) = Cardinality(selected)
      BY DEF Complete
    <3> QED BY <3>3, <3>5, <3>6
  <2> QED BY <1>1, <2>1, <2>2 DEF JointInv
<1>5. IndexInv' /\ DataInv' /\ FullInv'
  BY <1>1 DEF IndexInv, DataInv, FullInv
<1> QED BY <1>2, <1>3, <1>4, <1>5 DEF IInv

LEMMA IndexKeeps ==
    ASSUME IInv, EmitWindowIndex
    PROVE  IInv'
PROOF
<1>1. /\ stage = "joint" /\ stage' = "indexed"
      /\ UNCHANGED <<cfg, series, good, selected, joint, dataset>> /\ UNCHANGED choiceVars
  BY DEF EmitWindowIndex
<1>2. BlankInv' /\ SoundInv' /\ OrderInv' /\ SelectedInv'
  BY <1>1, WritingKeeps DEF Chosen, Joined
<1>3. index' = {<<r[1], r[2], r[3], <<r[1], r[3]>> \in Anchors>> : r \in IndexRows}
  BY DEF EmitWindowIndex, Anchors, IndexRows, Inside
<1>4. Anchors' = Anchors /\ IndexRows' = IndexRows
  BY <1>1 DEF Anchors, IndexRows, Inside
<1>5. IndexInv'
  BY <1>3, <1>4 DEF IndexInv
<1>6. index' \subseteq Cells \X Kpis \X Hours \X BOOLEAN
  <2> SUFFICES ASSUME NEW r \in IndexRows
               PROVE  <<r[1], r[2], r[3], <<r[1], r[3]>> \in Anchors>>
                         \in Cells \X Kpis \X Hours \X BOOLEAN
    BY <1>3
  <2>1. r[1] \in Cells /\ r[2] \in Kpis /\ r[3] \in Hours
    BY DEF IndexRows
  <2> DEFINE marked == <<r[1], r[3]>> \in Anchors
  <2>2. marked \in BOOLEAN
    OBVIOUS
  <2>3. <<r[1], r[2], r[3], marked>> \in Cells \X Kpis \X Hours \X BOOLEAN
    <3> HIDE DEF marked
    <3> QED BY <2>1, <2>2
  <2> QED BY <2>3
<1>7. TypeOK'
  BY <1>1, <1>6 DEF IInv, TypeOK, Stages, choiceVars
<1>8. JointInv'
  <2>1. Common(selected)' = Common(selected)
    BY <1>1 DEF Common, Coverage
  <2> QED BY <1>1, <2>1 DEF IInv, JointInv, Joined
<1>9. DataInv' /\ FullInv'
  BY <1>1 DEF DataInv, FullInv
<1> QED BY <1>2, <1>5, <1>7, <1>8, <1>9 DEF IInv

\* A joint window has every selected KPI, with a value in each of its hours.
LEMMA JointIsWhole ==
    ASSUME IInv, stage \in Joined, NEW w \in joint, NEW k \in selected, NEW i \in Span
    PROVE  /\ w[1] \in Cells /\ w[2] \in selected /\ w[3] \in Hours /\ k \in Kpis
           /\ <<w[1], k, w[3]>> \in joint
           /\ w[3] + i \in Hours /\ series[<<w[1], k>>][w[3] + i] = "value"
PROOF
<1>1. /\ good \subseteq Cells \X selected \X Hours /\ selected \subseteq Kpis /\ TypeOK
      /\ joint = {v \in good : <<v[1], v[3]>> \in Common(selected)}
      /\ stage \in Chosen
  BY DEF IInv, SelectedInv, JointInv, TypeOK, Joined, Chosen
<1>2. w[1] \in Cells /\ w[2] \in selected /\ w[3] \in Hours /\ k \in Kpis
      /\ <<w[1], w[3]>> \in Common(selected)
  BY <1>1
<1>3. <<w[1], k, w[3]>> \in good
  BY <1>1, <1>2, CoverageOf DEF Common
<1>4. <<w[1], k, w[3]>> \in joint
  BY <1>1, <1>2, <1>3
<1>5. w[3]..(w[3] + cfg.window - 1) \subseteq Values(series[<<w[1], k>>])
  BY <1>3 DEF IInv, SoundInv
<1>6. w[3] \in Nat /\ cfg.window \in Nat
  BY <1>1, <1>2, HoursAreFinite, KpiWindowsAssumption DEF TypeOK, ConfigType
<1>7. w[3] + i \in Values(series[<<w[1], k>>])
  <2>1. i \in 0..(cfg.window - 1)
    BY DEF Span
  <2>2. w[3] + i \in w[3]..(w[3] + cfg.window - 1)
    BY <1>6, <2>1
  <2> QED BY <1>5, <2>2
<1> QED BY <1>2, <1>4, <1>7 DEF Values

\* What the index has of an hour of a joint window: a row of every selected KPI.
LEMMA IndexOf ==
    ASSUME IInv, stage = "indexed", NEW w \in joint, NEW i \in Span
    PROVE  /\ <<w[1], w[3] + i>> \in {<<r[1], r[3]>> : r \in index}
           /\ {k \in Kpis : /\ \E r \in index : r[1] = w[1] /\ r[2] = k /\ r[3] = w[3] + i
                            /\ series[<<w[1], k>>][w[3] + i] = "value"} = selected
PROOF
<1> DEFINE c == w[1]
           h == w[3] + i
           Q(r) == <<r[1], r[2], r[3], <<r[1], r[3]>> \in Anchors>>
<1>1. index = {Q(r) : r \in IndexRows} /\ stage \in Joined /\ stage \in Chosen
  BY DEF IInv, IndexInv, Joined, Chosen
<1>2. joint \subseteq good /\ good \subseteq Cells \X selected \X Hours /\ selected \subseteq Kpis
  BY <1>1 DEF IInv, TypeOK, SelectedInv
<1>3. w[2] \in selected /\ w[3] \in Nat /\ cfg.window \in Nat /\ i \in 0..(cfg.window - 1)
  BY <1>2, HoursAreFinite, KpiWindowsAssumption DEF IInv, TypeOK, ConfigType, Span
<1>4. \A k \in selected : <<c, k, h>> \in IndexRows /\ series[<<c, k>>][h] = "value"
  <2> TAKE k \in selected
  <2>1. c \in Cells /\ h \in Hours /\ k \in Kpis /\ <<c, k, w[3]>> \in joint
        /\ series[<<c, k>>][h] = "value"
    BY <1>1, JointIsWhole
  <2>2. <<c, k>> \in {<<v[1], v[2]>> : v \in joint}
    BY <2>1
  <2>3. <<c, w[3]>> \in Anchors /\ w[3] <= h /\ h < w[3] + cfg.window
    BY <1>3 DEF Anchors
  <2>4. Inside(c, h)
    BY <2>3 DEF Inside
  <2> QED BY <2>1, <2>2, <2>4 DEF IndexRows
<1>5. \A r \in index : r[2] \in selected
  <2> TAKE r \in index
  <2>1. PICK q \in IndexRows : r = Q(q)
    BY <1>1
  <2>2. <<q[1], q[2]>> \in {<<v[1], v[2]>> : v \in joint}
    BY DEF IndexRows
  <2>3. r[2] = q[2]
    BY <2>1
  <2> QED BY <1>2, <2>2, <2>3
<1>6. \A k \in selected : \E r \in index : r[1] = c /\ r[2] = k /\ r[3] = h
  <2> TAKE k \in selected
  <2>1. Q(<<c, k, h>>) \in index
    <3> HIDE DEF Q
    <3> QED BY <1>1, <1>4
  <2>2. Q(<<c, k, h>>)[1] = c /\ Q(<<c, k, h>>)[2] = k /\ Q(<<c, k, h>>)[3] = h
    OBVIOUS
  <2> QED BY <2>1, <2>2
<1>7. <<c, h>> \in {<<r[1], r[3]>> : r \in index}
  BY <1>3, <1>6
<1> HIDE DEF c, h
<1>8. {k \in Kpis : (\E r \in index : r[1] = c /\ r[2] = k /\ r[3] = h)
                    /\ series[<<c, k>>][h] = "value"} = selected
  BY <1>2, <1>4, <1>5, <1>6
<1> QED BY <1>7, <1>8 DEF c, h

\* The rows that are marked are those of the anchors.
LEMMA MarkedOf ==
    ASSUME IInv, stage = "indexed"
    PROVE  {<<r[1], r[3]>> : r \in {q \in index : q[4]}} = Anchors
PROOF
<1> DEFINE Q(r) == <<r[1], r[2], r[3], <<r[1], r[3]>> \in Anchors>>
           M == {q \in index : q[4]}
<1>1. index = {Q(r) : r \in IndexRows} /\ stage \in Joined
  BY DEF IInv, IndexInv, Joined
<1>2. \A r \in IndexRows : Q(r)[1] = r[1] /\ Q(r)[3] = r[3] /\ (Q(r)[4] <=> <<r[1], r[3]>> \in Anchors)
  OBVIOUS
<1>3. ASSUME NEW r \in M PROVE <<r[1], r[3]>> \in Anchors
  <2>1. PICK q \in IndexRows : r = Q(q)
    BY <1>1
  <2>2. r[4]
    OBVIOUS
  <2>3. r[1] = q[1] /\ r[3] = q[3] /\ (r[4] <=> <<q[1], q[3]>> \in Anchors)
    BY <1>2, <2>1
  <2> HIDE DEF Q
  <2> QED BY <2>2, <2>3
<1>4. ASSUME NEW w \in joint PROVE \E r \in M : <<r[1], r[3]>> = <<w[1], w[3]>>
  <2>1. w[2] \in selected /\ cfg.window \in Nat \ {0} /\ w[3] \in Nat
        /\ w[1] \in Cells /\ w[2] \in Kpis /\ w[3] \in Hours
    BY <1>1, HoursAreFinite, KpiWindowsAssumption
       DEF IInv, TypeOK, ConfigType, SelectedInv, Chosen, Joined
  <2>2. 0 \in Span /\ w[3] + 0 = w[3]
    BY <2>1 DEF Span
  <2>3. series[<<w[1], w[2]>>][w[3]] = "value"
    BY ZenonT(30), <1>1, <2>1, <2>2, JointIsWhole
  <2>4. <<w[1], w[3]>> \in Anchors /\ Inside(w[1], w[3])
    <3>1. <<w[1], w[3]>> \in Anchors
      BY DEF Anchors
    <3> QED BY <2>1, <3>1 DEF Inside
  <2>5. <<w[1], w[2], w[3]>> \in IndexRows
    <3>1. <<w[1], w[2]>> \in {<<v[1], v[2]>> : v \in joint}
      OBVIOUS
    <3> QED BY <2>1, <2>3, <2>4, <3>1 DEF IndexRows
  <2>6. PICK r \in index : r[1] = w[1] /\ r[3] = w[3] /\ (r[4] <=> <<w[1], w[3]>> \in Anchors)
    <3>1. Q(<<w[1], w[2], w[3]>>) \in index
      <4> HIDE DEF Q
      <4> QED BY <1>1, <2>5
    <3>2. <<w[1], w[2], w[3]>>[1] = w[1] /\ <<w[1], w[2], w[3]>>[3] = w[3]
      OBVIOUS
    <3> HIDE DEF Q
    <3> QED BY <1>2, <2>5, <3>1, <3>2
  <2>7. r \in M
    BY <2>4, <2>6
  <2> QED BY <2>6, <2>7
<1>5. Anchors = {<<w[1], w[3]>> : w \in joint}
  BY DEF Anchors
<1> HIDE DEF M
<1>6. {<<r[1], r[3]>> : r \in M} = Anchors
  BY <1>3, <1>4, <1>5
<1> QED BY <1>6 DEF M

LEMMA MaterializeKeeps ==
    ASSUME IInv, MaterializeWindows
    PROVE  IInv'
PROOF
<1> DEFINE hours == {<<r[1], r[3]>> : r \in index}
           marked == {<<r[1], r[3]>> : r \in {q \in index : q[4]}}
           With(c, h) == {k \in Kpis : /\ \E r \in index : r[1] = c /\ r[2] = k /\ r[3] = h
                                       /\ series[<<c, k>>][h] = "value"}
           T(c, a, i) == <<c, a, i, With(c, a + i)>>
<1>1. /\ stage = "indexed" /\ stage' = "written"
      /\ UNCHANGED <<cfg, series, good, selected, joint, index>> /\ UNCHANGED choiceVars
  BY DEF MaterializeWindows
<1>2. BlankInv' /\ SoundInv' /\ OrderInv' /\ SelectedInv'
  BY <1>1, WritingKeeps DEF Chosen, Joined
<1>3. dataset' = {T(p[1][1], p[1][2], p[2]) :
                     p \in {q \in marked \X Span : <<q[1][1], q[1][2] + q[2]>> \in hours}}
  BY DEF MaterializeWindows
<1>4. marked = {<<w[1], w[3]>> : w \in joint}
  BY <1>1, MarkedOf DEF Anchors
<1>5. \A w \in joint, i \in Span : <<w[1], w[3] + i>> \in hours /\ With(w[1], w[3] + i) = selected
  BY <1>1, IndexOf
<1>6. dataset' = {<<w[1], w[3], i, selected>> : w \in joint, i \in Span}
  <2> HIDE DEF hours, marked, With
  <2>1. ASSUME NEW w \in joint, NEW i \in Span
        PROVE  /\ <<<<w[1], w[3]>>, i>> \in {q \in marked \X Span : <<q[1][1], q[1][2] + q[2]>> \in hours}
               /\ T(w[1], w[3], i) = <<w[1], w[3], i, selected>>
    BY <1>4, <1>5
  <2>2. ASSUME NEW w \in joint, NEW i \in Span
        PROVE  <<w[1], w[3], i, selected>> \in dataset'
    <3> DEFINE p == <<<<w[1], w[3]>>, i>>
    <3>1. p[1][1] = w[1] /\ p[1][2] = w[3] /\ p[2] = i
      OBVIOUS
    <3>2. T(p[1][1], p[1][2], p[2]) \in dataset'
      <4> HIDE DEF T
      <4> QED BY <1>3, <2>1
    <3> QED BY <2>1, <3>1, <3>2
  <2>3. ASSUME NEW t \in dataset'
        PROVE  \E w \in joint, i \in Span : t = <<w[1], w[3], i, selected>>
    <3>1. PICK q \in marked \X Span : t = T(q[1][1], q[1][2], q[2])
      <4> HIDE DEF T
      <4> QED BY <1>3
    <3>2. PICK w \in joint : q[1] = <<w[1], w[3]>>
      BY <1>4
    <3>3. q[1][1] = w[1] /\ q[1][2] = w[3] /\ q[2] \in Span
      BY <3>2
    <3>4. t = T(w[1], w[3], q[2])
      BY <3>1, <3>3
    <3> QED BY <2>1, <3>3, <3>4
  <2> HIDE DEF T
  <2> QED BY <2>2, <2>3
<1>7. dataset' \subseteq Cells \X Hours \X (0..(cfg.window - 1)) \X SUBSET Kpis
  <2>1. joint \subseteq Cells \X Kpis \X Hours /\ selected \in SUBSET Kpis
    BY DEF IInv, TypeOK
  <2> QED BY <1>6, <2>1 DEF Span
<1>8. TypeOK'
  BY <1>1, <1>7 DEF IInv, TypeOK, Stages, choiceVars
<1>9. JointInv'
  <2>1. Common(selected)' = Common(selected)
    BY <1>1 DEF Common, Coverage
  <2> QED BY <1>1, <2>1 DEF IInv, JointInv, Joined
<1>10. DataInv'
  <2>1. Span' = Span
    BY <1>1 DEF Span
  <2> QED BY <1>1, <1>6, <2>1 DEF DataInv
<1>11. IndexInv' /\ FullInv'
  BY <1>1 DEF IndexInv, FullInv
<1> QED BY <1>2, <1>8, <1>9, <1>10, <1>11 DEF IInv

LEMMA DumpKeeps ==
    ASSUME IInv, DumpMetadata
    PROVE  IInv'
PROOF
<1>1. /\ stage = "written" /\ stage' = IF dataset = {} THEN "failed" ELSE "announced"
      /\ UNCHANGED <<cfg, series, good, selected, joint, index, dataset>> /\ UNCHANGED choiceVars
  BY DEF DumpMetadata, outputVars
<1>2. BlankInv' /\ SoundInv' /\ OrderInv' /\ SelectedInv'
  BY <1>1, WritingKeeps DEF Chosen, Joined
<1>3. TypeOK'
  BY <1>1 DEF IInv, TypeOK, Stages, choiceVars
<1>4. JointInv'
  <2>1. Common(selected)' = Common(selected)
    BY <1>1 DEF Common, Coverage
  <2> QED BY <1>1, <2>1 DEF IInv, JointInv, Joined
<1>5. IndexInv' /\ DataInv' /\ FullInv'
  <2>1. Span' = Span
    BY <1>1 DEF Span
  <2> QED BY <1>1, <2>1 DEF IInv, IndexInv, DataInv, FullInv
<1> QED BY <1>2, <1>3, <1>4, <1>5 DEF IInv

LEMMA StutterKeeps ==
    ASSUME IInv, UNCHANGED vars
    PROVE  IInv'
PROOF
<1> USE DEF IInv, vars
<1>1. Common(selected)' = Common(selected) /\ Anchors' = Anchors /\ Span' = Span
  BY DEF Common, Coverage, Anchors, Span
<1>2. IndexRows' = IndexRows /\ Picked' = Picked
  BY <1>1 DEF IndexRows, Inside, Picked
<1>3. TypeOK' /\ BlankInv' /\ SoundInv'
  BY DEF TypeOK, BlankInv, SoundInv, Values
<1>4. OrderInv'
  <2>1. \A i \in 1..Len(order) : Common(First(i))' = Common(First(i))
    BY DEF Common, Coverage, First
  <2>2. Common(Picked)' = Common(Picked)
    BY <1>2 DEF Common, Coverage
  <2> QED BY <2>1, <2>2 DEF OrderInv
<1>5. SelectedInv' /\ JointInv'
  BY <1>1 DEF SelectedInv, JointInv
<1>6. IndexInv'
  BY <1>1, <1>2 DEF IndexInv
<1>7. DataInv' /\ FullInv'
  BY <1>1 DEF DataInv, FullInv
<1> QED BY <1>3, <1>4, <1>5, <1>6, <1>7

LEMMA NextKeeps == IInv /\ [PreprocessingNext]_<<vars, rawVars>> => IInv'
PROOF
<1> SUFFICES ASSUME IInv, [PreprocessingNext]_<<vars, rawVars>> PROVE IInv'
  OBVIOUS
<1>1. CASE /\ PrepareRaw \/ CoalesceKpiVersion \/ PopConstantKpis \/ PivotReports \/ JoinConfigs
           /\ UNCHANGED choiceVars /\ UNCHANGED outputVars
  BY <1>1, RawKeeps
<1>2. CASE WindowNext /\ UNCHANGED choiceVars /\ UNCHANGED outputVars
  BY <1>2, FillingKeeps, WindowsKeep DEF WindowNext
<1>3. CASE PrefilterKpis
  BY <1>3, PrefilterKeeps
<1>4. CASE SeedOrder
  BY <1>4, SeedKeeps
<1>5. CASE Pick
  BY <1>5, PickKeeps
<1>6. CASE SetFloor
  BY <1>6, FloorKeeps
<1>7. CASE Select
  BY <1>7, SelectKeeps
<1>8. CASE FilterJointCompleteWindows
  BY <1>8, JoinKeeps
<1>9. CASE EmitWindowIndex
  BY <1>9, IndexKeeps
<1>10. CASE MaterializeWindows
  BY <1>10, MaterializeKeeps
<1>11. CASE DumpMetadata
  BY <1>11, DumpKeeps
<1>12. CASE UNCHANGED <<vars, rawVars>>
  BY <1>12, StutterKeeps
<1> QED
  BY <1>1, <1>2, <1>3, <1>4, <1>5, <1>6, <1>7, <1>8, <1>9, <1>10, <1>11, <1>12
  DEF PreprocessingNext, Next

-----------------------------------------------------------------------------
(* The theorems.                                                           *)

\* The invariant holds in every state of the job: each stage leaves to the next what that one
\* takes for granted (run_preprocessing).
THEOREM Inductive == PreprocessingSpec => []IInv
PROOF BY InitIInv, NextKeeps, PTL DEF PreprocessingSpec

\* The tables, the order of the KPIs, what is selected of them and what is written for it
\* have their types in every stage of the job (run_preprocessing).
THEOREM TypeCorrect == PreprocessingSpec => []TypeOK
PROOF
<1>1. IInv => TypeOK
  BY DEF IInv
<1> QED BY <1>1, Inductive, PTL

\* The cut of the greedy order keeps the floor it was given, for all tables: the windows
\* that the chosen KPIs share are as many as the floor demands, and one KPI more of the
\* order would leave fewer (greedy_joint_kpi_selection).
THEOREM FloorHolds == PreprocessingSpec => []FloorIsMet
PROOF
<1>1. ASSUME IInv, stage \in Joined, selected # {}
      PROVE  /\ Cardinality({<<w[1], w[3]>> : w \in joint}) >= floor
             /\ Cardinality(selected) < Len(order) => counts[Cardinality(selected) + 1] < floor
  <2>1. /\ stage \in Chosen /\ TypeOK /\ selected \subseteq Kpis
        /\ joint = {w \in good : <<w[1], w[3]>> \in Common(selected)}
    BY <1>1 DEF IInv, JointInv, TypeOK, Joined, Chosen
  <2>2. /\ Cardinality(Common(selected)) >= floor
        /\ Cardinality(selected) < Len(order) => counts[Cardinality(selected) + 1] < floor
    BY <1>1, <2>1 DEF IInv, SelectedInv
  <2>3. \A w \in joint : <<w[1], w[3]>> \in Common(selected)
    BY <2>1
  <2>4. ASSUME NEW x \in Common(selected) PROVE \E w \in joint : x = <<w[1], w[3]>>
    <3>1. PICK k \in selected : TRUE
      BY <1>1
    <3>2. PICK c \in Cells, h \in Hours : x = <<c, h>>
      BY DEF Common
    <3>3. <<c, k, h>> \in good
      BY <2>1, <3>1, <3>2, CoverageOf DEF Common
    <3>4. <<c, k, h>> \in joint
      BY <2>1, <3>2, <3>3
    <3> QED BY <3>2, <3>4
  <2>5. {<<w[1], w[3]>> : w \in joint} = Common(selected)
    BY <2>3, <2>4
  <2> QED BY <2>2, <2>5
<1>2. IInv => FloorIsMet
  BY <1>1 DEF FloorIsMet, Joined
<1> QED BY <1>2, Inductive, PTL

\* What is announced to the training is a full tensor whatever the series, the windows and
\* the selection: each joint window once, with all of its hours, and every selected KPI in
\* each of them, and at least one window (materialize_windows, get_metadata).
THEOREM TensorHolds == PreprocessingSpec => []TensorIsFull
PROOF
<1>1. ASSUME IInv, stage = "announced"
      PROVE  selected # {} /\ dataset = {<<w[1], w[3], i, selected>> : w \in joint, i \in Span}
  <2>1. dataset = {<<w[1], w[3], i, selected>> : w \in joint, i \in Span} /\ dataset # {}
    BY <1>1 DEF IInv, DataInv, FullInv
  <2>2. PICK w \in joint : TRUE
    BY <2>1
  <2>3. joint \subseteq good /\ good \subseteq Cells \X selected \X Hours
    BY <1>1 DEF IInv, TypeOK, SelectedInv, Chosen
  <2> QED BY <2>1, <2>2, <2>3
<1>2. IInv => TensorIsFull
  BY <1>1 DEF TensorIsFull
<1> QED BY <1>2, Inductive, PTL

\* A window passes for good exactly if it is whole, for every window and stride that fits;
\* and with one that does not, what passes is whole all the same (drop_windows_with_nulls).
THEOREM GoodWindowsHold == PreprocessingSpec => []GoodIsWhole
PROOF
<1>1. PreprocessingInit => GoodIsWhole
  BY DEF PreprocessingInit, WindowInit, GoodIsWhole
<1>2. ASSUME IInv, DropWindowsWithNulls PROVE GoodIsWhole'
  <2>1. /\ UNCHANGED <<cfg, series>>
        /\ good' = {w \in Cells \X Kpis \X Hours :
                      /\ Present(series[<<w[1], w[2]>>]) # {}
                      /\ \E n \in Hours : w[3] = Anchor(w[1], n) /\ IsGoodWindow(w[1], w[2], n)}
    BY <1>2 DEF DropWindowsWithNulls
  <2>2. SeriesOk
    BY <1>2, KpiWindowsAssumption DEF SeriesOk, IInv, TypeOK
  <2>3. ASSUME NEW w \in good' PROVE w \in WholeWindows
    <3>1. w \in Cells \X Kpis \X Hours /\ Present(series[<<w[1], w[2]>>]) # {}
      BY <2>1
    <3>2. PICK n \in Hours : w[3] = Anchor(w[1], n) /\ IsGoodWindow(w[1], w[2], n)
      BY <2>1
    <3>3. w[3]..(w[3] + cfg.window - 1) \subseteq Values(series[<<w[1], w[2]>>])
      BY <2>2, <3>1, <3>2, WindowIsFull
    <3>4. (w[3] - Origin(w[1])) % cfg.stride = 0
      BY <2>2, <3>1, <3>2, GoodIsAnchored
    <3> QED BY <3>1, <3>3, <3>4 DEF WholeWindows
  <2>4. StrideFits => WholeWindows \subseteq good'
    <3> SUFFICES ASSUME StrideFits, NEW w \in WholeWindows PROVE w \in good'
      OBVIOUS
    <3>1. /\ Present(series[<<w[1], w[2]>>]) # {}
          /\ \E n \in Hours : w[3] = Anchor(w[1], n) /\ IsGoodWindow(w[1], w[2], n)
      BY <2>2, WholeIsGood
    <3>2. w \in Cells \X Kpis \X Hours
      BY DEF WholeWindows
    <3> QED BY <2>1, <3>1, <3>2
  <2>5. WholeWindows' = WholeWindows /\ (StrideFits' <=> StrideFits)
    BY <2>1 DEF WholeWindows, StrideFits, Values, Origin, Present
  <2> QED BY <2>3, <2>4, <2>5 DEF GoodIsWhole
<1>3. ASSUME IInv, GoodIsWhole, [PreprocessingNext]_<<vars, rawVars>> PROVE GoodIsWhole'
  <2>1. CASE DropWindowsWithNulls
    BY <1>2, <1>3, <2>1
  <2>2. CASE UNCHANGED <<vars, rawVars>>
    <3>1. UNCHANGED <<cfg, stage, series, good>>
      BY <2>2 DEF vars
    <3>2. WholeWindows' = WholeWindows /\ (StrideFits' <=> StrideFits)
      BY <3>1 DEF WholeWindows, StrideFits, Values, Origin, Present
    <3> QED BY <1>3, <3>1, <3>2 DEF GoodIsWhole
  <2>3. CASE stage' # "windows"
    BY <2>3 DEF GoodIsWhole
  <2>4. DropWindowsWithNulls \/ UNCHANGED <<vars, rawVars>> \/ stage' # "windows"
    BY <1>3 DEF PreprocessingNext, Next, WindowNext, PrepareRaw, CoalesceKpiVersion, PopConstantKpis,
                PivotReports, JoinConfigs, FillInternalGaps, ImputabilityGate, Impute, PrefilterKpis,
                SeedOrder, Pick, SetFloor, Select, FilterJointCompleteWindows, EmitWindowIndex,
                MaterializeWindows, DumpMetadata
  <2> QED BY <2>1, <2>2, <2>3, <2>4
<1> QED BY <1>1, <1>3, Inductive, PTL DEF PreprocessingSpec

-----------------------------------------------------------------------------
(* The configuration of a cell.                                            *)

\* After the pivot there is one report of a cell and an hour.
ReportsOk ==
    /\ \A e \in reports : e.hour \in Hours /\ e.config \in Configurations
    /\ \A d, e \in reports : d.cell = e.cell /\ d.hour = e.hour => d = e

LEMMA LatestIs ==
    ASSUME ReportsOk, NEW c, NEW S \in SUBSET reports, \A e \in S : e.cell = c, S # {}
    PROVE  \E e \in S : Latest(S) = {e} /\ \A d \in S : d.hour <= e.hour
PROOF
<1> DEFINE H == {e.hour : e \in S}
<1>1. H \in SUBSET (0..LastHour) /\ H # {} /\ LastHour \in Nat
  BY KpiWindowsAssumption DEF ReportsOk, Hours
<1>2. Max(H) \in H /\ \A x \in H : x <= Max(H)
  BY <1>1, GreatestOf
<1>3. PICK e \in S : e.hour = Max(H)
  BY <1>2
<1>4. \A d \in S : d.hour <= e.hour
  BY <1>2, <1>3
<1>5. ASSUME NEW g \in Latest(S) PROVE g = e
  <2>1. g \in S /\ e.hour <= g.hour /\ g.hour <= e.hour
    BY <1>4, <1>5 DEF Latest
  <2>2. g.hour \in Nat /\ e.hour \in Nat
    BY <1>1, <2>1
  <2>3. g.hour = e.hour /\ g.cell = e.cell
    BY <2>1, <2>2
  <2> QED BY <2>1, <2>3 DEF ReportsOk
<1>6. e \in Latest(S)
  BY <1>4 DEF Latest
<1> QED BY <1>4, <1>5, <1>6

LEMMA EarliestIs ==
    ASSUME ReportsOk, NEW c, NEW S \in SUBSET reports, \A e \in S : e.cell = c, S # {}
    PROVE  \E e \in S : Earliest(S) = {e} /\ \A d \in S : e.hour <= d.hour
PROOF
<1> DEFINE H == {e.hour : e \in S}
<1>1. H \in SUBSET Nat /\ H # {}
  BY KpiWindowsAssumption DEF ReportsOk, Hours
<1>2. Min(H) \in H /\ \A x \in H : Min(H) <= x
  BY <1>1, LeastOf
<1>3. PICK e \in S : e.hour = Min(H)
  BY <1>2
<1>4. \A d \in S : e.hour <= d.hour
  BY <1>2, <1>3
<1>5. ASSUME NEW g \in Earliest(S) PROVE g = e
  <2>1. g \in S /\ e.hour <= g.hour /\ g.hour <= e.hour
    BY <1>4, <1>5 DEF Earliest
  <2>2. g.hour \in Nat /\ e.hour \in Nat
    BY <1>1, <2>1
  <2>3. g.hour = e.hour /\ g.cell = e.cell
    BY <2>1, <2>2
  <2> QED BY <2>1, <2>3 DEF ReportsOk
<1>6. e \in Earliest(S)
  BY <1>4 DEF Earliest
<1> QED BY <1>4, <1>5, <1>6

\* The first report of a cell is a change.
LEMMA FirstIsChange ==
    ASSUME ReportsOk, NEW c
    PROVE  Earliest(ChangeEvents(c)) = Earliest({e \in reports : e.cell = c})
PROOF
<1> DEFINE R == {e \in reports : e.cell = c}
           C == ChangeEvents(c)
<1>1. C \subseteq R /\ \A e \in R : e.hour \in Nat
  BY KpiWindowsAssumption DEF ChangeEvents, ReportsOk, Hours
<1>2. CASE R = {}
  BY <1>1, <1>2 DEF Earliest
<1>3. CASE R # {}
  <2>1. PICK m \in R : Earliest(R) = {m} /\ \A d \in R : m.hour <= d.hour
    BY <1>3, EarliestIs
  <2>2. Before(c, m.hour) = {}
    BY <1>1, <2>1 DEF Before
  <2>3. m \in C
    BY <2>2 DEF ChangeEvents, Latest
  <2>4. m \in Earliest(C)
    BY <1>1, <2>1, <2>3 DEF Earliest
  <2>5. Earliest(C) \subseteq Earliest(R)
    <3> SUFFICES ASSUME NEW e \in Earliest(C) PROVE e \in Earliest(R)
      OBVIOUS
    <3>1. e \in R /\ e.hour <= m.hour
      BY <1>1, <2>3 DEF Earliest
    <3>2. \A d \in R : e.hour <= d.hour
      BY <1>1, <2>1, <3>1
    <3> QED BY <3>1, <3>2 DEF Earliest
  <2> QED BY <2>1, <2>4, <2>5
<1> QED BY <1>2, <1>3

\* What a report says, the last change up to it said first.
LEMMA LastChange ==
    ASSUME ReportsOk, NEW e \in reports
    PROVE  \E f \in ChangeEvents(e.cell) :
              /\ f.hour <= e.hour /\ f.config = e.config
              /\ \A g \in ChangeEvents(e.cell) : g.hour <= e.hour => g.hour <= f.hour
PROOF
<1> DEFINE c == e.cell
           R == {d \in reports : d.cell = c}
           C == ChangeEvents(c)
           S == {g \in C : g.hour <= e.hour}
<1>1. C \subseteq R /\ e \in R /\ \A d \in R : d.hour \in Nat
  BY KpiWindowsAssumption DEF ChangeEvents, ReportsOk, Hours
<1>2. S # {}
  <2>1. PICK m \in R : Earliest(R) = {m} /\ \A d \in R : m.hour <= d.hour
    BY <1>1, EarliestIs
  <2>2. m \in C /\ m.hour <= e.hour
    BY <1>1, <2>1, FirstIsChange DEF Earliest
  <2> QED BY <2>2
<1>3. PICK f \in S : \A g \in S : g.hour <= f.hour
  BY <1>1, <1>2, LatestIs
<1>4. f \in R /\ f.hour <= e.hour
  BY <1>1
<1>5. ASSUME f.config # e.config PROVE FALSE
  <2> DEFINE B == {g \in R : f.hour < g.hour /\ g.hour <= e.hour /\ g.config # f.config}
  <2>1. e \in B
    <3>1. f.hour # e.hour
      BY <1>1, <1>4, <1>5 DEF ReportsOk
    <3> QED BY <1>1, <1>4, <1>5, <3>1
  <2>2. PICK g \in B : \A d \in B : g.hour <= d.hour
    BY <2>1, EarliestIs
  <2>3. f \in Before(c, g.hour)
    BY <1>1, <1>4 DEF Before
  <2>4. PICK d \in Before(c, g.hour) : /\ Latest(Before(c, g.hour)) = {d}
                                       /\ \A b \in Before(c, g.hour) : b.hour <= d.hour
    BY <2>3, LatestIs DEF Before
  <2>5. d \in R /\ d.hour < g.hour /\ f.hour <= d.hour
    BY <2>3, <2>4 DEF Before
  <2>6. d.config = f.config
    <3>1. CASE d.hour = f.hour
      BY <1>4, <2>5, <3>1 DEF ReportsOk
    <3>2. CASE d.hour # f.hour
      <4>1. d \notin B
        BY <1>1, <2>2, <2>5
      <4>2. f.hour < d.hour /\ d.hour <= e.hour
        BY <1>1, <1>4, <2>2, <2>5, <3>2
      <4> QED BY <2>5, <4>1, <4>2
    <3> QED BY <3>1, <3>2
  <2>7. g \in C
    BY <2>2, <2>4, <2>6 DEF ChangeEvents
  <2> QED BY <1>1, <1>3, <1>4, <2>2, <2>7
<1> QED BY <1>3, <1>4, <1>5

\* The changes whose interval an hour is in.
Found(c, h) == {e \in ChangeEvents(c) : h > e.hour /\ \E end \in ConfigEnd(e) : h <= end}

\* If a change follows, the interval of an hour begins with the configuration that the last
\* report before it repeats.
LEMMA FoundIs ==
    ASSUME ReportsOk, NEW c, NEW h \in Hours, ChangeFollows(c, h)
    PROVE  {e.config : e \in Found(c, h)} = {e.config : e \in Latest(Before(c, h))}
PROOF
<1> DEFINE C == ChangeEvents(c)
           B == Before(c, h)
<1>1. /\ h \in Nat /\ C \subseteq reports /\ \A e \in C : e.cell = c
      /\ \A e \in reports : e.hour \in Nat
  BY KpiWindowsAssumption DEF ChangeEvents, ReportsOk, Hours
<1>2. CASE B = {}
  <2>1. Found(c, h) = {}
    BY <1>1, <1>2 DEF Found, Before
  <2> QED BY <1>2, <2>1 DEF Latest
<1>3. CASE B # {}
  <2>1. PICK d \in B : Latest(B) = {d} /\ \A b \in B : b.hour <= d.hour
    BY <1>3, LatestIs DEF Before
  <2>2. d \in reports /\ d.cell = c /\ d.hour < h
    BY DEF Before
  <2>3. PICK f \in C : /\ f.hour <= d.hour /\ f.config = d.config
                       /\ \A g \in C : g.hour <= d.hour => g.hour <= f.hour
    BY <2>2, LastChange
  <2>4. \A g \in C : g.hour < h => g.hour <= f.hour
    <3> SUFFICES ASSUME NEW g \in C, g.hour < h PROVE g.hour <= f.hour
      OBVIOUS
    <3>1. g \in B
      BY <1>1 DEF Before
    <3> QED BY <2>1, <2>3, <3>1
  <2>5. f.hour < h /\ f.hour \in Nat
    BY <1>1, <2>2, <2>3
  <2>6. PICK e \in reports : e.cell = c /\ e.hour >= h /\ d.config # e.config
    BY <2>1 DEF ChangeFollows
  <2>7. PICK g \in C : /\ g.hour <= e.hour /\ g.config = e.config
                       /\ \A x \in C : x.hour <= e.hour => x.hour <= g.hour
    BY <2>6, LastChange
  <2>8. h <= g.hour
    <3> SUFFICES ASSUME g.hour < h PROVE FALSE
      BY <1>1
    <3>1. g.hour <= f.hour
      BY <2>4
    <3>2. f.hour <= g.hour
      BY <1>1, <2>5, <2>6, <2>7
    <3>3. g = f
      BY <1>1, <3>1, <3>2 DEF ReportsOk
    <3> QED BY <2>3, <2>6, <2>7, <3>3
  <2>9. ASSUME NEW x \in C, x.hour < h
        PROVE  x \in Found(c, h) <=> x = f
    <3> DEFINE After == {y \in C : y.hour > x.hour}
    <3>1. x.cell = c /\ x.hour \in Nat /\ g \in After
      BY <1>1, <2>8, <2>9
    <3>2. PICK y \in After : Earliest(After) = {y} /\ \A z \in After : y.hour <= z.hour
      BY <1>1, <3>1, EarliestIs
    <3>3. ConfigEnd(x) = {y.hour}
      BY <3>1, <3>2 DEF ConfigEnd
    <3>4. x \in Found(c, h) <=> h <= y.hour
      BY <2>9, <3>1, <3>3 DEF Found
    <3>5. ASSUME x = f PROVE h <= y.hour
      BY <1>1, <2>4, <2>5, <3>2, <3>5
    <3>6. ASSUME x # f PROVE ~(h <= y.hour)
      <4>1. x.hour # f.hour
        BY <1>1, <3>6 DEF ReportsOk
      <4>2. f \in After
        BY <1>1, <2>4, <2>5, <2>9, <4>1
      <4> QED BY <1>1, <2>5, <3>2, <4>2
    <3> QED BY <3>4, <3>5, <3>6
  <2>10. Found(c, h) = {f}
    BY <1>1, <2>5, <2>9 DEF Found
  <2> QED BY <2>1, <2>3, <2>10
<1> QED BY <1>2, <1>3

\* The configuration that a measurement is given is the one in force.
LEMMA ConfigIs ==
    ASSUME ReportsOk, NEW r, r.hour \in Hours, ChangeFollows(r.cell, r.hour)
    PROVE  ConfigOf(r) = InForce(r.cell, r.hour)
PROOF
<1> DEFINE c == r.cell
           h == r.hour
           Said(S, n) == {e.config[n] : e \in S} \ {Null}
           last  == Latest(Before(c, h))
           first == Earliest({e \in reports : e.cell = c})
<1>1. Earliest(ChangeEvents(c)) = first
  BY FirstIsChange
<1>2. \A n : Said(Found(c, h), n) = Said(last, n)
  <2>1. {e.config : e \in Found(c, h)} = {e.config : e \in last}
    BY FoundIs
  <2> HIDE DEF last
  <2> QED BY <2>1
<1> DEFINE One(S) == CHOOSE v \in S : TRUE
           OneOf(A, B) == CASE A # {}           -> One(A)
                            [] A = {} /\ B # {} -> One(B)
                            [] OTHER            -> Null
<1>3. ConfigOf(r) = [n \in ReportNames |-> OneOf(Said(Found(c, h), n), Said(Earliest(ChangeEvents(c)), n))]
  BY DEF ConfigOf, Found
<1>4. InForce(c, h) = [n \in ReportNames |->
                         IF Said(last, n) \cup Said(first, n) = {} THEN Null
                         ELSE One(IF Said(last, n) # {} THEN Said(last, n) ELSE Said(first, n))]
  BY DEF InForce
<1>5. \A A, B : OneOf(A, B) = IF A \cup B = {} THEN Null ELSE One(IF A # {} THEN A ELSE B)
  <2> HIDE DEF One
  <2> QED OBVIOUS
<1> HIDE DEF OneOf, One, Said, last, first, c, h
<1> QED BY <1>1, <1>2, <1>3, <1>4, <1>5 DEF c, h

-----------------------------------------------------------------------------
(* The raw tables.                                                         *)

Raw == {"raw", "prepared", "coalesced", "varying"}

\* Measurements have a cell and an hour once the first stage is over; reports have hours, and
\* after the pivot one configuration each.
RawInv ==
    /\ \A r \in pm : IsMeasurement(r)
    /\ stage \notin {"raw"} => \A r \in pm : r.cell # Null /\ r.hour \in Hours
    /\ stage \in Raw => \A e \in reports : e.hour \in Hours
    /\ stage = "pivoted" => ReportsOk

LEMMA RawStarts == PreprocessingInit => RawInv
PROOF BY RawTablesAssumption DEF PreprocessingInit, WindowInit, RawInv, Raw

\* The newer versions of a KPI take the name of the first.
LEMMA RenamedIs ==
    ASSUME NEW r, IsMeasurement(r), NEW k \in Kpis
    PROVE  /\ IsMeasurement([r EXCEPT !.kpi = k])
           /\ [r EXCEPT !.kpi = k].cell = r.cell /\ [r EXCEPT !.kpi = k].hour = r.hour
PROOF BY DEF IsMeasurement

LEMMA PivotIs ==
    ASSUME RawInv, PivotReports
    PROVE  ReportsOk'
PROOF
<1> DEFINE events == {[cell |-> r.cell, hour |-> r.hour] : r \in reports}
<1>1. PICK p \in [events -> Configurations] :
         reports' = {[cell |-> e.cell, hour |-> e.hour, config |-> p[e]] : e \in events}
  BY DEF PivotReports
<1>2. \A e \in events : e.hour \in Hours
  BY DEF PivotReports, RawInv, Raw
<1>3. \A d, e \in events : d.cell = e.cell /\ d.hour = e.hour => d = e
  OBVIOUS
<1> HIDE DEF events
<1>4. \A x \in reports' : \E e \in events :
         x.cell = e.cell /\ x.hour = e.hour /\ x.config = p[e]
         /\ x = [cell |-> e.cell, hour |-> e.hour, config |-> p[e]]
  BY <1>1
<1> QED BY <1>1, <1>2, <1>3, <1>4 DEF ReportsOk

LEMMA RawInvKeeps ==
    ASSUME RawInv, [PreprocessingNext]_<<vars, rawVars>>
    PROVE  RawInv'
PROOF
<1>1. CASE PrepareRaw
  BY <1>1 DEF PrepareRaw, RawInv, Raw, IsMeasurement
<1>2. CASE CoalesceKpiVersion
  <2>1. /\ stage = "prepared" /\ stage' = "coalesced" /\ UNCHANGED reports
        /\ \A r \in pm' : r \in pm \/ \E q \in pm : r = [q EXCEPT !.kpi = Version[q.kpi].base]
    BY <1>2 DEF CoalesceKpiVersion
  <2>2. ASSUME NEW r \in pm'
        PROVE  IsMeasurement(r) /\ r.cell # Null /\ r.hour \in Hours
    <3>1. CASE r \in pm
      BY <2>1, <3>1 DEF RawInv
    <3>2. CASE \E q \in pm : r = [q EXCEPT !.kpi = Version[q.kpi].base]
      <4>1. PICK q \in pm : r = [q EXCEPT !.kpi = Version[q.kpi].base]
        BY <3>2
      <4>2. IsMeasurement(q) /\ q.kpi \in Kpis /\ q.cell # Null /\ q.hour \in Hours
        BY <2>1 DEF RawInv, IsMeasurement
      <4>3. Version[q.kpi].base \in Kpis
        BY <4>2, RawTablesAssumption
      <4> QED BY <4>1, <4>2, <4>3, RenamedIs
    <3> QED BY <2>1, <3>1, <3>2
  <2> QED BY <2>1, <2>2 DEF RawInv, Raw
<1>3. CASE PopConstantKpis
  <2>1. pm' \subseteq pm /\ stage = "coalesced" /\ stage' = "varying" /\ UNCHANGED reports
    BY <1>3 DEF PopConstantKpis
  <2> QED BY <2>1 DEF RawInv, Raw
<1>4. CASE PivotReports
  <2>1. ReportsOk' /\ stage = "varying" /\ stage' = "pivoted" /\ UNCHANGED pm
    BY <1>4, PivotIs DEF PivotReports
  <2> QED BY <2>1 DEF RawInv, Raw
<1>5. CASE UNCHANGED rawVars /\ stage \notin {"raw"} /\ stage' \notin Raw \cup {"raw", "pivoted"}
  BY <1>5 DEF RawInv, rawVars
<1>6. CASE UNCHANGED <<vars, rawVars>>
  BY <1>6 DEF RawInv, vars, rawVars, ReportsOk
<1>7. CASE JoinConfigs \/ (WindowNext /\ UNCHANGED rawVars) \/ (Next /\ UNCHANGED rawVars)
  <2>1. UNCHANGED rawVars /\ stage \notin {"raw"} /\ stage' \notin Raw \cup {"raw", "pivoted"}
    BY <1>7 DEF JoinConfigs, Next, WindowNext, FillInternalGaps, ImputabilityGate, Impute,
                DropWindowsWithNulls, PrefilterKpis, SeedOrder, Pick, SetFloor, Select,
                FilterJointCompleteWindows, EmitWindowIndex, MaterializeWindows, DumpMetadata, Raw
  <2> QED BY <1>5, <2>1
<1> QED BY <1>1, <1>2, <1>3, <1>4, <1>6, <1>7 DEF PreprocessingNext

\* Every measured hour is in the group of its configuration, and in no other.
LEMMA JoinIs ==
    ASSUME TypeOK, RawInv, JoinConfigs, NEW r \in pm
    PROVE  {g \in Cells : g[1] = r.cell /\ series'[<<g, r.kpi>>][r.hour] # "none"}
              = {<<r.cell, ConfigOf(r)>>}
PROOF
<1> DEFINE G(q) == <<q.cell, ConfigOf(q)>>
           RowsOf(x, h) == {q \in pm : q.kpi = x[2] /\ q.hour = h /\ G(q) = x[1]}
           V(x, h) == CASE RowsOf(x, h) = {}                      -> "none"
                        [] \E q \in RowsOf(x, h) : q.value # Null -> "value"
                        [] OTHER                                 -> "null"
<1>1. stage = "pivoted" /\ ReportsOk
  BY DEF JoinConfigs, RawInv
<1>2. DOMAIN series = Cells \X Kpis
  BY DEF TypeOK
<1>3. series' = [x \in Cells \X Kpis |-> [h \in Hours |-> V(x, h)]]
  <2> DEFINE group == [q \in pm |-> G(q)]
             Same(x, h) == {q \in pm : q.kpi = x[2] /\ q.hour = h /\ group[q] = x[1]}
             W(x, h) == CASE Same(x, h) = {}                      -> "none"
                          [] \E q \in Same(x, h) : q.value # Null -> "value"
                          [] OTHER                                -> "null"
  <2>1. series' = [x \in DOMAIN series |-> [h \in Hours |-> W(x, h)]]
    BY DEF JoinConfigs
  <2>2. \A x, h : Same(x, h) = RowsOf(x, h)
    <3> HIDE DEF G
    <3> QED OBVIOUS
  <2>3. \A x, h : W(x, h) = V(x, h)
    <3> HIDE DEF Same, RowsOf
    <3> QED BY <2>2
  <2> HIDE DEF W, V
  <2> QED BY <1>2, <2>1, <2>3
<1>4. r.kpi \in Kpis /\ r.hour \in Hours /\ r.cell # Null /\ {r.cell} \X Configurations \subseteq Cells
  BY <1>1 DEF RawInv, IsMeasurement
<1>5. ConfigOf(r) \in Configurations
  <2>1. \A n \in ReportNames : ConfigOf(r)[n] \in Results \cup {Null}
    <3> TAKE n \in ReportNames
    <3> DEFINE events  == ChangeEvents(r.cell)
               found   == {e \in events : r.hour > e.hour /\ \E end \in ConfigEnd(e) : r.hour <= end}
               first   == Earliest(events)
               column(S, m) == {e.config[m] : e \in S} \ {Null}
    <3>1. \A S \in SUBSET reports : column(S, n) \subseteq Results \cup {Null}
      BY <1>1 DEF ReportsOk, Configurations
    <3>2. found \subseteq reports /\ first \subseteq reports
      BY DEF ChangeEvents, Earliest
    <3>3. ConfigOf(r)[n] = CASE column(found, n) # {} -> CHOOSE v \in column(found, n) : TRUE
                             [] column(found, n) = {} /\ column(first, n) # {} ->
                                   CHOOSE v \in column(first, n) : TRUE
                             [] OTHER -> Null
      BY DEF ConfigOf
    <3>4. column(found, n) \subseteq Results \cup {Null} /\ column(first, n) \subseteq Results \cup {Null}
      BY <3>1, <3>2
    <3> HIDE DEF column, found, first
    <3> QED BY <3>3, <3>4
  <2> QED BY <2>1 DEF ConfigOf, Configurations
<1>6. G(r) \in Cells
  BY <1>4, <1>5
<1>7. \A q \in pm : q.cell = r.cell /\ q.hour = r.hour => G(q) = G(r)
  BY DEF ConfigOf
<1>8. \A x \in Cells \X Kpis, h \in Hours : series'[x][h] # "none" <=> RowsOf(x, h) # {}
  <2>1. \A x, h : V(x, h) # "none" <=> RowsOf(x, h) # {}
    <3> HIDE DEF RowsOf
    <3> QED OBVIOUS
  <2> HIDE DEF V
  <2> QED BY <1>3, <2>1
<1>9. ASSUME NEW g \in Cells
      PROVE  g[1] = r.cell /\ series'[<<g, r.kpi>>][r.hour] # "none" <=> g = G(r)
  <2> DEFINE x == <<g, r.kpi>>
  <2>1. x \in Cells \X Kpis /\ x[1] = g /\ x[2] = r.kpi
    BY <1>4
  <2>2. series'[x][r.hour] # "none" <=> RowsOf(x, r.hour) # {}
    BY <1>4, <1>8, <2>1
  <2>3. ASSUME g = G(r) PROVE g[1] = r.cell /\ r \in RowsOf(x, r.hour)
    BY <2>1, <2>3
  <2>4. ASSUME g[1] = r.cell, NEW q \in RowsOf(x, r.hour) PROVE g = G(r)
    <3>1. q \in pm /\ q.hour = r.hour /\ g = G(q)
      BY <2>1
    <3>2. q.cell = r.cell
      BY <2>4, <3>1
    <3> QED BY <1>7, <3>1, <3>2
  <2> HIDE DEF G, RowsOf
  <2> QED BY <2>2, <2>3, <2>4
<1> QED BY <1>6, <1>9

\* Every measured hour is in one group, that of the configuration in force, as long as a
\* change follows: for all reports and measurements (pm_and_reports_data_joined).
THEOREM ConfigHolds == PreprocessingSpec => []ConfigInForce
PROOF
<1>1. PreprocessingInit => ConfigInForce
  BY DEF PreprocessingInit, WindowInit, ConfigInForce
<1>2. ASSUME TypeOK, RawInv, JoinConfigs PROVE ConfigInForce'
  <2>1. ReportsOk /\ UNCHANGED rawVars
    BY <1>2 DEF JoinConfigs, RawInv
  <2>2. ASSUME NEW r \in pm
        PROVE  LET groups == {g \in Cells : g[1] = r.cell /\ series'[<<g, r.kpi>>][r.hour] # "none"}
               IN  /\ Cardinality(groups) = 1
                   /\ ChangeFollows(r.cell, r.hour) => groups = {<<r.cell, InForce(r.cell, r.hour)>>}
    <3> DEFINE groups == {g \in Cells : g[1] = r.cell /\ series'[<<g, r.kpi>>][r.hour] # "none"}
    <3>1. groups = {<<r.cell, ConfigOf(r)>>}
      BY <1>2, JoinIs
    <3>2. Cardinality(groups) = 1
      BY <3>1, FS_Singleton
    <3>3. ChangeFollows(r.cell, r.hour) => ConfigOf(r) = InForce(r.cell, r.hour)
      <4>1. r.hour \in Hours
        BY <1>2 DEF RawInv, JoinConfigs
      <4> QED BY <2>1, <4>1, ConfigIs
    <3> QED BY <3>1, <3>2, <3>3
  <2>3. \A c, h : /\ ChangeFollows(c, h)' <=> ChangeFollows(c, h)
                  /\ InForce(c, h)' = InForce(c, h)
    BY <2>1 DEF rawVars, ChangeFollows, InForce, Before, Latest, Earliest
  <2> QED BY <2>1, <2>2, <2>3 DEF ConfigInForce, rawVars
<1>3. ASSUME TypeOK, RawInv, ConfigInForce, [PreprocessingNext]_<<vars, rawVars>>
      PROVE  ConfigInForce'
  <2>1. CASE JoinConfigs
    BY <1>2, <1>3, <2>1
  <2>2. CASE UNCHANGED <<vars, rawVars>>
    <3>1. UNCHANGED <<stage, series, pm, reports>>
      BY <2>2 DEF vars, rawVars
    <3>2. \A c, h : /\ ChangeFollows(c, h)' <=> ChangeFollows(c, h)
                    /\ InForce(c, h)' = InForce(c, h)
      BY <3>1 DEF ChangeFollows, InForce, Before, Latest, Earliest
    <3> QED BY <1>3, <3>1, <3>2 DEF ConfigInForce
  <2>3. CASE stage' # "read"
    BY <2>3 DEF ConfigInForce
  <2>4. JoinConfigs \/ UNCHANGED <<vars, rawVars>> \/ stage' # "read"
    BY <1>3 DEF PreprocessingNext, Next, WindowNext, PrepareRaw, CoalesceKpiVersion, PopConstantKpis,
                PivotReports, FillInternalGaps, ImputabilityGate, Impute, DropWindowsWithNulls,
                PrefilterKpis, SeedOrder, Pick, SetFloor, Select, FilterJointCompleteWindows,
                EmitWindowIndex, MaterializeWindows, DumpMetadata
  <2> QED BY <2>1, <2>2, <2>3, <2>4
<1> QED BY <1>1, <1>3, RawStarts, RawInvKeeps, TypeCorrect, PTL DEF PreprocessingSpec
=============================================================================
