----------------------------- MODULE RawTables ------------------------------
(***************************************************************************)
(* What the preprocessing job does before KpiWindows: the raw tables are   *)
(* cleaned, the versions of a KPI are merged, constant KPIs go, and every  *)
(* measurement is given the configuration of its cell.  A group of         *)
(* _GROUPING_COLS is a cell with one configuration: <<cell, config>>.      *)
(* A table is a set of rows, as the first step drops duplicates.           *)
(***************************************************************************)
EXTENDS KpiSelection

CONSTANTS
    Version,       \* of each kpi_id: [base: base_kpi, rank: its place in the order of ids]
    ReportNames,   \* the columns of the pivot
    Results,       \* what a report may say
    RawInputs,     \* sets of [pm, reports, definitions]
    Null

Configurations == [ReportNames -> Results \cup {Null}]

\* A measurement, perhaps of a null cell or hour; Cells has each measured cell with every
\* configuration.
IsMeasurement(r) ==
    /\ r \in [cell : {r.cell}, kpi : Kpis, hour : Hours \cup {Null}, value : {r.value}]
    /\ r.cell = Null \/ {r.cell} \X Configurations \subseteq Cells

ASSUME RawTablesAssumption ==
    /\ \A k, l \in DOMAIN Version : Version[k].rank = Version[l].rank => k = l
    /\ \A k \in Kpis : Version[k].base \in Kpis
    /\ Null \notin Results
    /\ \A in \in RawInputs : /\ \A r \in in.pm : IsMeasurement(r)
                             /\ \A e \in in.reports : e.hour \in Hours

VARIABLES
    pm,            \* measurements: [cell, kpi, hour, value]
    reports,       \* [cell, hour, name, result]; after the pivot [cell, hour, config]
    definitions    \* of some kpi_ids

rawVars == <<pm, reports, definitions>>

-----------------------------------------------------------------------------
\* raw_pm_preperation: what is measured nowhere or never goes.
PrepareRaw ==
    /\ stage = "raw"
    /\ pm' = {r \in pm : r.cell # Null /\ r.hour # Null}
    /\ stage' = "prepared"
    /\ UNCHANGED <<cfg, series, good, reports, definitions>>

\* Versions that were measured and are defined; the one before k among them.
Defined == DOMAIN definitions \cap {r.kpi : r \in pm}
Versions(b) == {k \in Defined : Version[k].base = b}
IsNewest(k, S) == k \in S /\ \A l \in S : Version[l].rank <= Version[k].rank
Predecessor(k) ==
    {l \in Defined : IsNewest(l, {m \in Versions(Version[k].base) : Version[m].rank < Version[k].rank})}

\* A version is compared with the one before it, nulls being equal to everything.
Changed(k) ==
    \E l \in Predecessor(k) : Null \notin {definitions[k], definitions[l]}
                              /\ definitions[k] # definitions[l]

Mergeable == {k \in Defined : ~Changed(k)}

\* Of what the versions of a KPI say of an hour, the newest counts, and the greatest value.
Supersedes(q, r) ==
    /\ q.cell = r.cell /\ q.hour = r.hour /\ Version[q.kpi].base = Version[r.kpi].base
    /\ \/ Version[q.kpi].rank > Version[r.kpi].rank
       \/ q.kpi = r.kpi /\ q.value # Null /\ (r.value = Null \/ q.value > r.value)

CoalesceKpiVersion ==
    /\ stage = "prepared"
    /\ LET merging == {r \in pm : r.kpi \in Mergeable}
           best    == {r \in merging : ~\E q \in merging : Supersedes(q, r)}
           changed == Defined \ Mergeable
           bases   == {Version[k].base : k \in Mergeable}
           newest(b) == CHOOSE k \in Mergeable : IsNewest(k, Versions(b) \cap Mergeable)
       IN  /\ pm' = {[r EXCEPT !.kpi = Version[@].base] : r \in best} \cup (pm \ merging)
           /\ definitions' = [k \in bases \cup changed |->
                                IF k \in changed THEN definitions[k] ELSE definitions[newest(k)]]
    /\ stage' = "coalesced"
    /\ UNCHANGED <<cfg, series, good, reports>>

\* pop_constant_kpis; a KPI without any value is not constant.
PopConstantKpis ==
    /\ stage = "coalesced"
    /\ LET values(k) == {r.value : r \in {q \in pm : q.kpi = k}} \ {Null}
       IN  pm' = {r \in pm : Cardinality(values(r.kpi)) # 1}
    /\ stage' = "varying"
    /\ UNCHANGED <<cfg, series, good, reports, definitions>>

\* simple_reports_pivot: the first of several results, in no particular order.
PivotReports ==
    /\ stage = "varying"
    /\ LET events == {[cell |-> r.cell, hour |-> r.hour] : r \in reports}
           told(e, n) == {r.result : r \in {q \in reports :
                             q.cell = e.cell /\ q.hour = e.hour /\ q.name = n}}
       IN  \E p \in [events -> Configurations] :
              /\ \A e \in events, n \in ReportNames :
                    IF told(e, n) = {} THEN p[e][n] = Null ELSE p[e][n] \in told(e, n)
              /\ reports' = {[cell |-> e.cell, hour |-> e.hour, config |-> p[e]] : e \in events}
    /\ stage' = "pivoted"
    /\ UNCHANGED <<cfg, series, good, pm, definitions>>

-----------------------------------------------------------------------------
(* pm_and_reports_data_joined.                                             *)

Before(c, h) == {e \in reports : e.cell = c /\ e.hour < h}
Latest(S)    == {e \in S : \A d \in S : d.hour <= e.hour}
Earliest(S)  == {e \in S : \A d \in S : e.hour <= d.hour}

\* _prepare_simple_reports: rows that repeat the configuration before them go.
ChangeEvents(c) ==
    {e \in reports : e.cell = c /\ \A d \in Latest(Before(c, e.hour)) : d.config # e.config}

\* Mutant: the end of an interval is the next report, whatever it says.
ConfigEndMutant(e) ==
    {d.hour : d \in Earliest({g \in reports : g.cell = e.cell /\ g.hour > e.hour})}

\* lead over the rows that are left: nothing after the last of them.
ConfigEnd(e) ==
    {d.hour : d \in Earliest({g \in ChangeEvents(e.cell) : g.hour > e.hour})}

\* An hour that no interval has, also one after the last change, is given the first
\* configuration, and so is each column that is null.
ConfigOf(r) ==
    LET events  == ChangeEvents(r.cell)
        found   == {e \in events : r.hour > e.hour /\ \E end \in ConfigEnd(e) : r.hour <= end}
        first   == Earliest(events)
        column(S, n) == {e.config[n] : e \in S} \ {Null}
    IN  [n \in ReportNames |->
            CASE column(found, n) # {} -> CHOOSE v \in column(found, n) : TRUE
              [] column(found, n) = {} /\ column(first, n) # {} ->
                    CHOOSE v \in column(first, n) : TRUE
              [] OTHER -> Null]

JoinConfigs ==
    /\ stage = "pivoted"
    /\ LET group == [r \in pm |-> <<r.cell, ConfigOf(r)>>]
           rows(x, h) == {r \in pm : r.kpi = x[2] /\ r.hour = h /\ group[r] = x[1]}
       IN  series' = [x \in DOMAIN series |-> [h \in Hours |->
                        CASE rows(x, h) = {}                        -> "none"
                          [] \E r \in rows(x, h) : r.value # Null   -> "value"
                          [] OTHER                                  -> "null"]]
    /\ stage' = "read"
    /\ UNCHANGED <<cfg, good>>
    /\ UNCHANGED rawVars

-----------------------------------------------------------------------------
\* The job begins with the raw tables.  The rest of it is also begun with every table
\* that is given, as if the join had left it: more than RawInputs lead to.
PreprocessingInit ==
    /\ NothingChosen
    /\ \/ WindowInit /\ pm = {} /\ reports = {} /\ definitions = <<>>
       \/ /\ cfg \in Configs /\ stage = "raw" /\ good = {}
          /\ series = [x \in Cells \X Kpis |-> NoSeries]
          /\ \E in \in RawInputs :
                pm = in.pm /\ reports = in.reports /\ definitions = in.definitions

PreprocessingNext ==
    \/ /\ \/ PrepareRaw \/ CoalesceKpiVersion \/ PopConstantKpis \/ PivotReports \/ JoinConfigs
       /\ UNCHANGED choiceVars
       /\ UNCHANGED outputVars
    \/ Next /\ UNCHANGED rawVars

PreprocessingSpec == PreprocessingInit /\ [][PreprocessingNext]_<<vars, rawVars>>

-----------------------------------------------------------------------------
\* What was in force at an hour: what the last report before it said, in each column that
\* it said something of, else what the first report of the cell did.
InForce(c, h) ==
    LET last  == Latest(Before(c, h))
        first == Earliest({e \in reports : e.cell = c})
        said(S, n) == {e.config[n] : e \in S} \ {Null}
    IN  [n \in ReportNames |->
            IF said(last, n) \cup said(first, n) = {} THEN Null
            ELSE CHOOSE v \in IF said(last, n) # {} THEN said(last, n) ELSE said(first, n) : TRUE]

\* Another configuration of the cell is reported at or after the hour.
ChangeFollows(c, h) ==
    \E e \in reports : e.cell = c /\ e.hour >= h /\ \A d \in Latest(Before(c, h)) : d.config # e.config

\* Every measured hour is in one group, that of the configuration then in force, whatever is
\* repeated, missing or reported at that very hour; as long as a change follows, for the
\* last interval has no end (pm_and_reports_data_joined).
ConfigInForce ==
    stage = "read" => \A r \in pm :
        LET groups == {g \in Cells : g[1] = r.cell /\ series[<<g, r.kpi>>][r.hour] # "none"}
        IN  /\ Cardinality(groups) = 1
            /\ ChangeFollows(r.cell, r.hour) => groups = {<<r.cell, InForce(r.cell, r.hour)>>}
=============================================================================
