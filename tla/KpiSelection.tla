---------------------------- MODULE KpiSelection ----------------------------
(***************************************************************************)
(* The second half of the preprocessing job: which KPIs to train on, and   *)
(* the data set that is written.  A training sample is a window that every *)
(* selected KPI covers, so each KPI more costs windows; KPIs are ordered   *)
(* greedily by what they leave, and the order is cut where the number of   *)
(* windows falls below a floor.                                            *)
(*                                                                         *)
(* forced_kpis and explicit_kpis, which no argument of the DAG run sets,   *)
(* are left out, and so is scaling, which keeps rows and their number.     *)
(***************************************************************************)
EXTENDS KpiWindows, Sequences

CONSTANTS
    Percentile,    \* breadth_percentile, in percent
    BreadthFloor,  \* min_breadth_floor, in percent
    MaxDrop,       \* max_drop_frac, in percent
    NoFloor        \* min_joint_windows_abs = None

ASSUME KpiSelectionAssumption ==
    /\ Percentile \in 1..100 /\ BreadthFloor \in 0..100 /\ MaxDrop \in 0..100
    /\ NoFloor \in Int \ Nat

VARIABLES
    candidates,    \* the KPIs that are left to choose from
    order, counts, \* the KPIs picked so far; joint windows after each pick
    live,          \* live_cols: <<cell, anchor>> in the running intersection
    floor,         \* min_joint_windows
    selected,      \* selected_kpis
    joint,         \* good windows after filter_joint_complete_windows
    index,         \* pm_df_long_indexed_winds: <<cell, KPI, hour, is it marked?>>
    dataset        \* the materialized windows: <<cell, anchor, hour_idx, KPIs with a value>>

vars == <<cfg, stage, series, good, candidates, order, counts, live, floor,
          selected, joint, index, dataset>>

choiceVars == <<candidates, order, counts, live, floor>>
outputVars == <<selected, joint, index, dataset>>

Coverage(k) == {<<w[1], w[3]>> : w \in {v \in good : v[2] = k}}

Picked == {order[i] : i \in DOMAIN order}

-----------------------------------------------------------------------------
(* prefilter_kpis: a KPI that few cells have goes, unless too many would.  *)

Breadth(k) == Cardinality({w[1] : w \in {v \in good : v[2] = k}})

PrefilterKpis ==
    /\ stage = "windows"
    /\ LET found     == {w[2] : w \in good}
           cells     == Cardinality({w[1] : w \in good})
           rank      == (Percentile * Cardinality(found) + 99) \div 100
           atMost(b) == Cardinality({k \in found : Breadth(k) <= b})
           quantile  == Min({Breadth(k) : k \in {l \in found : atMost(Breadth(l)) >= rank}})
           survivors == {k \in found : \/ Breadth(k) >= quantile
                                       \/ 100 * Breadth(k) >= BreadthFloor * cells}
           dropped   == Cardinality(found \ survivors)
       IN  \/ /\ found = {}                          \* approxQuantile(...)[0] raises
              /\ stage' = "failed"
              /\ UNCHANGED <<candidates, good>>
           \/ /\ found # {}
              /\ candidates' = IF 100 * dropped > MaxDrop * Cardinality(found)
                               THEN found ELSE survivors
              /\ good' = {w \in good : w[2] \in candidates'}
              /\ stage' = "candidates"
    /\ UNCHANGED <<cfg, series, order, counts, live, floor>>
    /\ UNCHANGED outputVars

-----------------------------------------------------------------------------
(* _greedy_order.  Rows with equal counts come in the order of Spark's     *)
(* collect: any of them may be first.                                      *)

Most(k, S, kept) == \A l \in S : Cardinality(kept \cap Coverage(l))
                                    <= Cardinality(kept \cap Coverage(k))

SeedOrder ==
    /\ stage = "candidates"
    /\ \E k \in candidates :
          /\ \A l \in candidates : Cardinality(Coverage(l)) <= Cardinality(Coverage(k))
          /\ order' = <<k>>
          /\ live' = Coverage(k)
          /\ counts' = <<Cardinality(live')>>
    /\ stage' = "ordering"
    /\ UNCHANGED <<cfg, series, good, candidates, floor>>
    /\ UNCHANGED outputVars

\* live_cols[M[row, live_cols]]
Keep(k) == live \cap Coverage(k)

Pick ==
    /\ stage = "ordering"
    /\ \E k \in candidates \ Picked :
          /\ Most(k, candidates \ Picked, live)
          /\ order' = Append(order, k)
          /\ live' = Keep(k)
          /\ counts' = Append(counts, Cardinality(live'))
    /\ UNCHANGED <<cfg, stage, series, good, candidates, floor>>
    /\ UNCHANGED outputVars

\* find_elbow and suggest_threshold: the count at the first place where the second
\* difference of the counts is least.
SecondDifference(i) == counts[i + 2] - 2 * counts[i + 1] + counts[i]

Elbow ==
    LET steps == 1..(Len(counts) - 2)
        least == {i \in steps : \A j \in steps : SecondDifference(i) <= SecondDifference(j)}
    IN  Min(least)

SetFloor ==
    /\ stage = "ordering"
    /\ Picked = candidates
    /\ \/ /\ cfg.floor # NoFloor
          /\ floor' = cfg.floor
          /\ stage' = "ordered"
       \/ /\ cfg.floor = NoFloor /\ Len(counts) >= 3
          /\ floor' = counts[Elbow]
          /\ stage' = "ordered"
       \/ /\ cfg.floor = NoFloor /\ Len(counts) < 3    \* argmin of an empty array raises
          /\ stage' = "failed"
          /\ UNCHANGED floor
    /\ UNCHANGED <<cfg, series, good, candidates, order, counts, live>>
    /\ UNCHANGED outputVars

ReachesMutant(i) == counts[i] > floor

Reaches(i) == counts[i] >= floor

\* greedy_joint_kpi_selection: the picks before the first below the floor.
Select ==
    /\ stage = "ordered"
    /\ selected' = {order[i] : i \in {j \in DOMAIN order : \A l \in 1..j : Reaches(l)}}
    /\ good' = {w \in good : w[2] \in selected'}
    /\ series' = [x \in DOMAIN series |-> IF x[2] \in selected' THEN series[x] ELSE NoSeries]
    /\ stage' = "selected"
    /\ UNCHANGED <<cfg, joint, index, dataset>>
    /\ UNCHANGED choiceVars
-----------------------------------------------------------------------------
(* What is written.                                                        *)

CompleteMutant(c, a) == \E k \in selected : <<c, k, a>> \in good

\* As many distinct KPIs have a good window there as were selected.
Complete(c, a) ==
    Cardinality({k \in selected : <<c, k, a>> \in good}) = Cardinality(selected)

FilterJointCompleteWindows ==
    /\ stage = "selected"
    /\ joint' = {w \in good : Complete(w[1], w[3])}
    /\ stage' = "joint"
    /\ UNCHANGED <<cfg, series, good, selected, index, dataset>>
    /\ UNCHANGED choiceVars

\* emit_window_index: the rows inside a window, the first of each window marked.
EmitWindowIndex ==
    /\ stage = "joint"
    /\ LET anchors == {<<w[1], w[3]>> : w \in joint}
           pairs   == {<<w[1], w[2]>> : w \in joint}
           inside(c, h) == \E a \in anchors :
                              a[1] = c /\ a[2] <= h /\ h < a[2] + cfg.window
           rows    == {r \in Cells \X Kpis \X Hours : /\ <<r[1], r[2]>> \in pairs
                                                       /\ series[<<r[1], r[2]>>][r[3]] # "none"
                                                       /\ inside(r[1], r[3])}
       IN  index' = {<<r[1], r[2], r[3], <<r[1], r[3]>> \in anchors>> : r \in rows}
    /\ stage' = "indexed"
    /\ UNCHANGED <<cfg, series, good, selected, joint, dataset>>
    /\ UNCHANGED choiceVars

Span == 0..(cfg.window - 1)

\* The pivot to one row per hour, materialize_windows and the writing of the tables.
MaterializeWindows ==
    /\ stage = "indexed"
    /\ LET hours   == {<<r[1], r[3]>> : r \in index}
           anchors == {<<r[1], r[3]>> : r \in {q \in index : q[4]}}
           with(c, h) == {k \in Kpis : /\ \E r \in index : r[1] = c /\ r[2] = k /\ r[3] = h
                                       /\ series[<<c, k>>][h] = "value"}
           inside  == {p \in anchors \X Span : <<p[1][1], p[1][2] + p[2]>> \in hours}
       IN  dataset' = {<<p[1][1], p[1][2], p[2], with(p[1][1], p[1][2] + p[2])>> : p \in inside}
    /\ stage' = "written"
    /\ UNCHANGED <<cfg, series, good, selected, joint, index>>
    /\ UNCHANGED choiceVars

\* dump_metadata_json: without a row there is no least hour_idx, and int(None) raises.
DumpMetadata ==
    /\ stage = "written"
    /\ stage' = IF dataset = {} THEN "failed" ELSE "announced"
    /\ UNCHANGED <<cfg, series, good>>
    /\ UNCHANGED choiceVars
    /\ UNCHANGED outputVars

-----------------------------------------------------------------------------
NothingChosen ==
    /\ candidates = {} /\ order = <<>> /\ counts = <<>> /\ live = {} /\ floor = 0
    /\ selected = {} /\ joint = {} /\ index = {} /\ dataset = {}

Init == WindowInit /\ NothingChosen

Next ==
    \/ /\ WindowNext
       /\ UNCHANGED choiceVars
       /\ UNCHANGED outputVars
    \/ PrefilterKpis
    \/ SeedOrder \/ Pick \/ SetFloor \/ Select
    \/ FilterJointCompleteWindows \/ EmitWindowIndex \/ MaterializeWindows \/ DumpMetadata

Spec == Init /\ [][Next]_vars

Stages == {"raw", "prepared", "coalesced", "varying", "pivoted", "read", "filled", "gated", "imputed", "windows", "candidates", "ordering",
           "ordered", "selected", "joint", "indexed", "written", "announced", "failed"}

\* Type invariant of the job.
TypeOK ==
    /\ cfg \in Configs /\ stage \in Stages
    /\ series \in [Cells \X Kpis -> [Hours -> Rows]]
    /\ good \subseteq Cells \X Kpis \X Hours /\ joint \subseteq good
    /\ candidates \subseteq Kpis /\ selected \subseteq candidates
    /\ order \in Seq(candidates) /\ Len(counts) = Len(order)
    /\ live \subseteq Cells \X Hours
    /\ floor \in Int
    /\ index \subseteq Cells \X Kpis \X Hours \X BOOLEAN
    /\ dataset \subseteq Cells \X Hours \X (0..(cfg.window - 1)) \X SUBSET Kpis

\* The windows that a set of KPIs has in common, from their good windows alone.
Common(S) == {x \in Cells \X Hours : \A k \in S : x \in Coverage(k)}

\* The samples that are kept for the selected KPIs are as many as the floor demands, and
\* the next KPI of the order would have brought them below it.
FloorIsMet ==
    stage \in {"joint", "indexed", "written", "announced"} /\ selected # {} =>
       LET n == Cardinality(selected) IN
       /\ Cardinality({<<w[1], w[3]>> : w \in joint}) >= floor
       /\ n < Len(order) => counts[n + 1] < floor

\* What is announced to the training is a full tensor: every window of it has each of its
\* hours once, and in each hour a value of every selected KPI (the training skips a window
\* that is not, modelling/core/data.py:265); there is at least one window.
TensorIsFull ==
    stage = "announced" =>
       /\ selected # {}
       /\ dataset = {<<w[1], w[3], i, selected>> : w \in joint, i \in Span}

\* "Use the step before the elbow as the threshold - that's where coverage is still healthy
\* before the cliff" (kpi_coverage.py:709): the KPIs chosen by the elbow have training
\* samples, since each candidate alone has some.
ElbowIsHealthy ==
    stage = "joint" /\ cfg.floor = NoFloor => joint # {}
=============================================================================
