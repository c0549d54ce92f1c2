--------------------------- MODULE Visualization ---------------------------
(***************************************************************************)
(* The dashboard of one raw dataset, on the server's side.  A Spark job in *)
(* an Airflow run writes summary.json (or summary_error.json) beside the   *)
(* dataset; a status request puts its answer together from the list of     *)
(* runs and from those two files, which it reads one after the other       *)
(* while the job goes on; a trigger removes summary_error.json and then    *)
(* posts a run.                                                            *)
(*                                                                         *)
(* What the files say is left out, and so is kpi_analysis.json, which the  *)
(* job writes between its summary and its end and which no answer's status *)
(* depends on; queued and running are one status, because the page treats  *)
(* them alike.  The branch on the Spark task's own state is left out too:  *)
(* it asks for the task run_pm_visualization, which the DAG does not have  *)
(* (its task is run_dataset_visualization_spark), so it is never taken.    *)
(***************************************************************************)
EXTENDS Naturals, Sequences, FiniteSetsExt

CONSTANTS
    Requests,    \* bound: the status requests under way at a time
    MaxRuns      \* bound: runs of the DAG for this dataset

ASSUME VisualizationAssumption == MaxRuns \in Nat

VARIABLES
    fits,       \* does the job accept the schema, which the backend has accepted?
    runs,       \* the DAG runs of the dataset in Airflow, oldest first
    summary,    \* summary.json exists
    errorFile,  \* summary_error.json exists
    launch,     \* a call of trigger_dataset_visualization, by who makes it
    req         \* the status requests

vizVars == <<fits, runs, summary, errorFile, launch, req>>

\* A run is queued or running until its job has written its artifact ("reading"), then
\* running until the job ends ("written"), then over, with success or failure: without
\* an artifact both make the answer "failed", in other words.
ActiveStates == {"reading", "written"}
RunStates    == ActiveStates \cup {"over"}

Launchers == {"upload", "page"}

Answers == {"not_found", "unavailable", "running", "failed", "success", "error"}

\* seen: was the run that was picked active or over?  The rest is history: whether any
\* run was active and a summary stood when the runs were listed, and whether a file
\* that was there could not be read.
NoRequest == [pc |-> "none", seen |-> "none", answer |-> "none",
              active |-> FALSE, stood |-> FALSE, blind |-> FALSE]

\* The confirmation of the upload is about to trigger the first run.
VizInit ==
    /\ fits \in BOOLEAN
    /\ runs = <<>>
    /\ summary = FALSE /\ errorFile = FALSE
    /\ launch = [upload |-> "start", page |-> "idle"]
    /\ req = [q \in Requests |-> NoRequest]

-----------------------------------------------------------------------------
(* Airflow and the job.                                                    *)

\* run_dataset_visualization writes what make_summary returned.
WriteSummary(r) ==
    /\ runs[r] = "reading"
    /\ runs' = [runs EXCEPT ![r] = "written"]
    /\ summary' = (summary \/ fits)
    /\ errorFile' = (errorFile \/ ~fits)
    /\ UNCHANGED <<fits, launch, req>>

\* A task raises, before or after the summary (the analysis of the KPIs may): Airflow
\* tries it once more, or the run is over.
TaskFails(r) ==
    /\ runs[r] \in ActiveStates
    /\ \E s \in {"reading", "over"} : runs' = [runs EXCEPT ![r] = s]
    /\ UNCHANGED <<fits, summary, errorFile, launch, req>>

RunSucceeds(r) ==
    /\ runs[r] = "written"
    /\ runs' = [runs EXCEPT ![r] = "over"]
    /\ UNCHANGED <<fits, summary, errorFile, launch, req>>

\* A run that is over is cleared, on the DAG's page or in Airflow.
ClearRun(r) ==
    /\ runs[r] = "over"
    /\ runs' = [runs EXCEPT ![r] = "reading"]
    /\ UNCHANGED <<fits, summary, errorFile, launch, req>>

Airflow == \E r \in DOMAIN runs :
    \/ WriteSummary(r)
    \/ TaskFails(r)
    \/ RunSucceeds(r)
    \/ ClearRun(r)

-----------------------------------------------------------------------------
(* trigger_dataset_visualization.                                          *)

\* delete_visualization_error_artifact; a ClientError is only logged.
DropError(l) ==
    /\ launch[l] = "start"
    /\ errorFile' \in {errorFile, FALSE}
    /\ launch' = [launch EXCEPT ![l] = "post"]
    /\ UNCHANGED <<fits, runs, summary, req>>

\* Nobody waits for the outcome of the trigger that follows an upload.
Outcome(l, how) == launch' = [launch EXCEPT ![l] = IF l = "page" THEN how ELSE "idle"]

\* Airflow makes the run, and the call may fail all the same.
Posted(l) ==
    /\ launch[l] = "post" /\ Len(runs) < MaxRuns
    /\ runs' = Append(runs, "reading")
    /\ \E how \in {"ok", "error"} : Outcome(l, how)
    /\ UNCHANGED <<fits, summary, errorFile, req>>

NotPosted(l) ==
    /\ launch[l] = "post"
    /\ Outcome(l, "error")
    /\ UNCHANGED <<fits, runs, summary, errorFile, req>>

Trigger == \E l \in Launchers : DropError(l) \/ Posted(l) \/ NotPosted(l)

-----------------------------------------------------------------------------
(* get_dataset_visualization_status, for a raw dataset whose columns match *)
(* the PM schema by the backend's rules.                                   *)

ActiveRuns == {r \in DOMAIN runs : runs[r] \in ActiveStates}

\* Mutant of LatestRun: the newest run, whether or not an older one is active.
LatestRunMutant == Len(runs)

\* _find_latest_run_for_dataset: the newest active run, or else the newest.
LatestRun == IF ActiveRuns # {} THEN Max(ActiveRuns) ELSE Len(runs)

\* What the request knew is forgotten, but for the history of a verdict.
Answer(q, a) ==
    req' = [req EXCEPT ![q] = [IF a = "failed" THEN req[q] ELSE NoRequest EXCEPT
                                  !.pc = "answered", !.seen = "none", !.answer = a]]

ListRuns(q) ==
    /\ req[q].pc = "list"
    /\ IF runs = <<>>
       THEN Answer(q, "not_found")
       ELSE req' = [req EXCEPT ![q].pc = "summary",
                               ![q].seen = IF runs[LatestRun] \in ActiveStates
                                           THEN "active" ELSE "over",
                               ![q].active = ActiveRuns # {}, ![q].stood = summary]
    /\ UNCHANGED <<fits, runs, summary, errorFile, launch>>

ListFails(q) ==
    /\ req[q].pc = "list"
    /\ Answer(q, "unavailable")
    /\ UNCHANGED <<fits, runs, summary, errorFile, launch>>

\* A summary that stands is the answer, whatever the state of the run.
ReadSummary(q) ==
    /\ req[q].pc = "summary" /\ summary
    /\ Answer(q, "success")
    /\ UNCHANGED <<fits, runs, summary, errorFile, launch>>

\* read_s3_json_artifact takes an error for the absence of the file.
NoSummary(q) ==
    /\ req[q].pc = "summary"
    /\ req' = [req EXCEPT ![q].pc = "error", ![q].blind = summary]
    /\ UNCHANGED <<fits, runs, summary, errorFile, launch>>

\* Without a summary the run's state decides: a run that is over has failed.
Verdict(q) == Answer(q, IF req[q].seen = "active" THEN "running" ELSE "failed")

\* summary_error.json is taken for stale and removed, if it can be read and removed.
ReadError(q) ==
    /\ req[q].pc = "error"
    /\ errorFile' \in {errorFile, FALSE}
    /\ Verdict(q)
    /\ UNCHANGED <<fits, runs, summary, launch>>

\* The request ends in an HTTP error, or is not answered at all.
RequestFails(q) ==
    /\ req[q].pc \in {"list", "summary", "error"}
    /\ Answer(q, "error")
    /\ UNCHANGED <<fits, runs, summary, errorFile, launch>>

StatusStep(q) ==
    \/ ListRuns(q)
    \/ ListFails(q)
    \/ ReadSummary(q)
    \/ NoSummary(q)
    \/ ReadError(q)
    \/ RequestFails(q)

-----------------------------------------------------------------------------
VizTypeOK ==
    /\ fits \in BOOLEAN
    /\ runs \in Seq(RunStates) /\ Len(runs) <= MaxRuns
    /\ summary \in BOOLEAN /\ errorFile \in BOOLEAN
    /\ launch \in [Launchers -> {"idle", "start", "post", "ok", "error"}]
    /\ req \in [Requests -> [pc : {"none", "list", "summary", "error", "answered"},
                             seen : {"none", "active", "over"}, answer : Answers \cup {"none"},
                             active : BOOLEAN, stood : BOOLEAN, blind : BOOLEAN]]

\* "Failed" is said only when no run of the dataset was active and no summary stood as
\* the runs were listed, unless the summary could not be read: an answer put together
\* from a list and two files that change meanwhile is not a false alarm ("Nothing is
\* running now - use Retry", visualization.py:318).
HonestVerdict ==
    \A q \in Requests : req[q].answer = "failed" =>
        ~req[q].active /\ (req[q].stood => req[q].blind)
=============================================================================
