----------------------------- MODULE RunLedger -----------------------------
(***************************************************************************)
(* What the tracking of modeling runs promises, without the poller, its    *)
(* two commits, the cache or Airflow's API: a ledger of runs, each closed  *)
(* at most once and only on a verdict Airflow gave, next to a catalogue in *)
(* which every output stands at most once.                                 *)
(***************************************************************************)
CONSTANTS
    Runs,      \* the runs that may be tracked
    Outputs,   \* what the catalogue may list
    OutputOf   \* OutputOf[r]: the output of run r

VARIABLES
    phase,     \* phase[r]: untracked, RUNNING, COMPLETED or FAILED
    verdicts,  \* verdicts[r]: the ways r has ended in Airflow so far
    catalog,   \* the outputs listed now
    withdrawn  \* the outputs that were ever taken off the list

vars == <<phase, verdicts, catalog, withdrawn>>

Init ==
    /\ phase = [r \in Runs |-> "untracked"]
    /\ verdicts = [r \in Runs |-> {}]
    /\ catalog \in SUBSET Outputs
    /\ withdrawn = {}

Track(r) ==
    /\ phase[r] = "untracked"
    /\ phase' = [phase EXCEPT ![r] = "RUNNING"]
    /\ UNCHANGED <<verdicts, catalog, withdrawn>>

Observe(r, v) ==
    /\ verdicts' = [verdicts EXCEPT ![r] = @ \cup {v}]
    /\ UNCHANGED <<phase, catalog, withdrawn>>

Publish(o) ==
    /\ o \notin catalog
    /\ catalog' = catalog \cup {o}
    /\ UNCHANGED <<phase, verdicts, withdrawn>>

Withdraw(o) ==
    /\ o \in catalog
    /\ catalog' = catalog \ {o}
    /\ withdrawn' = withdrawn \cup {o}
    /\ UNCHANGED <<phase, verdicts>>

\* A run is completed on a success, and not before its output was listed.
Complete(r) ==
    /\ phase[r] = "RUNNING"
    /\ "success" \in verdicts[r]
    /\ OutputOf[r] \in catalog \cup withdrawn
    /\ phase' = [phase EXCEPT ![r] = "COMPLETED"]
    /\ UNCHANGED <<verdicts, catalog, withdrawn>>

\* A run is failed if it failed in Airflow, or Airflow lost it.
Fail(r) ==
    /\ phase[r] = "RUNNING"
    /\ verdicts[r] \cap {"failed", "absent"} # {}
    /\ phase' = [phase EXCEPT ![r] = "FAILED"]
    /\ UNCHANGED <<verdicts, catalog, withdrawn>>

Next ==
    \/ \E r \in Runs : Track(r) \/ Complete(r) \/ Fail(r)
    \/ \E r \in Runs, v \in {"success", "failed", "absent"} : Observe(r, v)
    \/ \E o \in Outputs : Publish(o) \/ Withdraw(o)

Spec == Init /\ [][Next]_vars
=============================================================================
