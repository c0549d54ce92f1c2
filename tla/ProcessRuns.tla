---------------------------- MODULE ProcessRuns ----------------------------
(***************************************************************************)
(* The life of a modeling run in the GenPM backend: the trigger endpoints  *)
(* start an Airflow DAG run and record it in the process_runs table; the   *)
(* ProcessRunPoller asks Airflow about every RUNNING row, and turns a      *)
(* successful run into a row of the datasets table, in two commits.        *)
(*                                                                         *)
(* Three kinds of process interleave here.                                 *)
(*   - The backend's event loop runs the poller and the async endpoints;   *)
(*     it changes hands only where the poller is suspended (LoopFree).     *)
(*   - DELETE /datasets/{id} is a sync endpoint, run in a worker thread:   *)
(*     it falls between any two commits of the poller.                     *)
(*   - Airflow and its Spark jobs (external) run on their own.             *)
(*                                                                         *)
(* A crash or restart of the backend loses what is in memory (the poller's *)
(* locals, the pending triggers, the cache of DAG runs) and keeps the      *)
(* tables.                                                                 *)
(***************************************************************************)
EXTENDS Naturals, FiniteSets

CONSTANTS
    Runs,        \* run ids: one per accepted trigger request (a fresh uuid)
    Prefixes,    \* S3 key prefixes
    Kind,        \* Kind[r]: the process type of r
    Prefix,      \* Prefix[r]: its output_s3_key
    Input,       \* Input[r]: the dataset id its request names, or NoId
    Manual,      \* bound: the outputs an admin may register by hand
    Watched,     \* bound: the runs whose status browsers ask for
    Uploads,     \* how many RAW datasets are there at the start, 0 or 1,
    RawKey,      \*   and the S3 key of the one
    NoRow,       \* "there is no row with this id"
    NoId,        \* SQL NULL in a column of dataset ids
    NoRun,       \* the poller is handling no run
    MaxIds,      \* bound: dataset ids the sequence may hand out
    MaxDeletes,  \* bound: how many of their rows are deleted
    MaxClears,   \* bound: how often each DAG run may be cleared
    MaxCrashes   \* bound: how often the backend may restart

Kinds == {"preprocessing", "generate"}
Types == {"RAW", "PREPROCESSED", "GENERATED"}
Ids   == 1..MaxIds

ASSUME BoundsAssumption ==
    /\ MaxIds \in Nat \ {0} /\ Uploads \in {0, 1} /\ MaxDeletes \in Nat
    /\ MaxClears \in Nat /\ MaxCrashes \in Nat

ASSUME RequestAssumption ==
    /\ Kind \in [Runs -> Kinds]
    /\ Prefix \in [Runs -> Prefixes]
    /\ Input \in [Runs -> Ids \cup {NoId}]
    /\ RawKey \in Prefixes
    /\ Watched \subseteq Runs
    /\ Manual \subseteq Prefixes \X Types

ASSUME NullAssumption ==
    /\ NoId \notin Ids
    /\ NoRun \notin Runs
    /\ NoRow \notin Prefixes \X Types

\* trigger_generate_run writes under generated/{run_id}: its prefix is its own.
ASSUME PrefixAssumption ==
    \A r, s \in Runs :
        Kind[r] = "generate" /\ Prefix[s] = Prefix[r] => s = r

VARIABLES
    trig,     \* trig[r]: how far the endpoint that triggers r has come
    airflow,  \* airflow[r]: state of the DAG run in Airflow, "absent" if none
    wrote,    \* wrote[r]: what the current attempt of r's Spark job has written
    store,    \* store[p]: what object storage holds under p
    files,    \* files[p]: what a listing of p shows
    cache,    \* cache[r]: AirflowService._run_cache, "none" if no fresh entry
    status,   \* process_runs.status, "untracked" if there is no row
    link,     \* process_runs.registered_dataset_id
    output,   \* datasets: output[i] is <<s3_key, type>> of row i, or NoRow
    nextId,   \* the next value of the dataset id sequence
    pc,       \* where the poller is
    todo,     \* the rows of this tick it has not come to
    cur,      \* the run it is handling
    reply,    \* what AirflowService.get_dag_run told it about cur
    ds,       \* the dataset id it is about to link
    clears,   \* clears[r]: how often r's DAG run was cleared
    crashes,  \* how often the backend has restarted
    seen,     \* history: the ways r's DAG run has ended so far
    gone      \* history: every <<s3_key, type>> whose row was ever deleted

airflowVars == <<airflow, wrote, store, files, clears, seen>>
tableVars   == <<status, link, output, nextId, gone>>
pollerVars  == <<pc, todo, cur, reply, ds>>
vars == <<trig, airflowVars, cache, tableVars, pollerVars, crashes>>

-----------------------------------------------------------------------------
(* Helpers.                                                                *)

\* _resolve_dataset_type.
TypeOf(k) == IF k = "generate" THEN "GENERATED" ELSE "PREPROCESSED"

\* The unique key (s3_key, type) of the dataset row that stands for r's output.
Out(r) == <<Prefix[r], TypeOf(Kind[r])>>

\* What the job of r writes, in this order: pm_metadata.json comes last.
Needed(r) == IF Kind[r] = "preprocessing" THEN {"data", "meta"} ELSE {"data"}

\* Mutant of Visible: pm_metadata.json is not asked for.
VisibleMutant(r) == files[Prefix[r]] # {}

\* The two probes of register_existing_dataset: any object under the prefix
\* will do, and pm_metadata.json is asked for when the run is preprocessing
\* (_derive_pm_metadata_s3_key).
Visible(r) ==
    /\ files[Prefix[r]] # {}
    /\ Kind[r] = "preprocessing" => "meta" \in files[Prefix[r]]

\* The dataset the request names, if it names one, is there.
InputPresent(r) == Input[r] # NoId => output[Input[r]] # NoRow

Registered(o) == \E i \in Ids : output[i] = o

\* The foreign key accepts ds: it is NULL or names a row.
DsPresent == ds # NoId => output[ds] # NoRow

\* The event loop is free for another coroutine: the poller sleeps or awaits.
LoopFree == pc \in {"sleep", "waiting", "answered"}

Terminal == {"success", "failed"}
Ended    == Terminal \cup {"absent"}

\* datasets.insert + commit, and the id the sequence gave it.
InsertRow(o) ==
    /\ nextId <= MaxIds
    /\ output' = [output EXCEPT ![nextId] = o]
    /\ nextId' = nextId + 1

\* Airflow moves r's DAG run to state s.
SetAirflow(r, s) ==
    /\ airflow' = [airflow EXCEPT ![r] = s]
    /\ seen' = IF s \in Ended THEN [seen EXCEPT ![r] = @ \cup {s}] ELSE seen

-----------------------------------------------------------------------------
Init ==
    /\ trig = [r \in Runs |-> "idle"]
    /\ airflow = [r \in Runs |-> "absent"]
    /\ wrote = [r \in Runs |-> {}]
    /\ store = [p \in Prefixes |-> IF Uploads = 1 /\ p = RawKey THEN {"data"} ELSE {}]
    /\ files = store
    /\ cache = [r \in Runs |-> "none"]
    /\ status = [r \in Runs |-> "untracked"]
    /\ link = [r \in Runs |-> NoId]
    /\ output = [i \in Ids |-> IF i <= Uploads THEN <<RawKey, "RAW">> ELSE NoRow]
    /\ nextId = Uploads + 1
    /\ pc = "sleep" /\ todo = {} /\ cur = NoRun /\ reply = "none" /\ ds = NoId
    /\ clears = [r \in Runs |-> 0]
    /\ crashes = 0
    /\ seen = [r \in Runs |-> {}]
    /\ gone = {}

-----------------------------------------------------------------------------
(* The trigger endpoints.  The request is checked, then the coroutine      *)
(* awaits Airflow twice (POST, then the lookup of the run it started)      *)
(* before it records the run.                                              *)

\* trigger_modeling_run / trigger_generate_run up to the await: the input
\* dataset must exist (every dataset here is COMPLETED), and preprocessing takes
\* a RAW one.
Trigger(r) ==
    /\ LoopFree
    /\ trig[r] = "idle"
    /\ InputPresent(r)
    /\ Kind[r] = "preprocessing" => Input[r] # NoId /\ output[Input[r]][2] = "RAW"
    /\ trig' = [trig EXCEPT ![r] = "posting"]
    /\ UNCHANGED <<airflowVars, cache, tableVars, pollerVars, crashes>>

\* Airflow accepts the POST of AirflowService.trigger_dag.
Accept(r) ==
    /\ trig[r] = "posting"
    /\ trig' = [trig EXCEPT ![r] = "posted"]
    /\ SetAirflow(r, "queued")
    /\ UNCHANGED <<wrote, store, files, clears, cache, tableVars, pollerVars, crashes>>

\* Either await raises AirflowIntegrationError: the caller gets an error.  In
\* "posted" the DAG run exists already (the lookup failed, or the answer to
\* the POST was lost and its retry met a conflict) and is never recorded.
TriggerError(r) ==
    /\ LoopFree
    /\ trig[r] \in {"posting", "posted"}
    /\ trig' = [trig EXCEPT ![r] = "done"]
    /\ UNCHANGED <<airflowVars, cache, tableVars, pollerVars, crashes>>

\* _record_process_run: the insert fails on the foreign key if the input
\* dataset was deleted during the awaits, and the failure is swallowed.
Record(r) ==
    /\ LoopFree
    /\ trig[r] = "posted"
    /\ trig' = [trig EXCEPT ![r] = "done"]
    /\ IF InputPresent(r)
         THEN status' = [status EXCEPT ![r] = "RUNNING"]
         ELSE UNCHANGED status
    /\ UNCHANGED <<airflowVars, cache, link, output, nextId, gone, pollerVars, crashes>>

-----------------------------------------------------------------------------
(* Airflow and the Spark jobs (external).                                  *)

\* The job starts: overwriting deletes the old parquet under its prefix, and
\* leaves an older pm_metadata.json where it is.
Start(r) ==
    /\ airflow[r] = "queued"
    /\ SetAirflow(r, "running")
    /\ wrote' = [wrote EXCEPT ![r] = {}]
    /\ store' = [store EXCEPT ![Prefix[r]] = @ \ {"data"}]
    /\ files' = [files EXCEPT ![Prefix[r]] = @ \ {"data"}]
    /\ UNCHANGED <<trig, clears, cache, tableVars, pollerVars, crashes>>

\* The job writes its parquet, then pm_metadata.json.
Write(r, o) ==
    /\ airflow[r] = "running"
    /\ o \in Needed(r) \ wrote[r]
    /\ o = "meta" => "data" \in wrote[r]
    /\ wrote' = [wrote EXCEPT ![r] = @ \cup {o}]
    /\ store' = [store EXCEPT ![Prefix[r]] = @ \cup {o}]
    /\ UNCHANGED <<trig, airflow, files, clears, seen, cache, tableVars, pollerVars, crashes>>

\* What was written becomes visible, in the order it was written.
Surface(p) ==
    /\ \E o \in store[p] \ files[p] :
         /\ o = "meta" => "data" \in files[p]
         /\ files' = [files EXCEPT ![p] = @ \cup {o}]
    /\ UNCHANGED <<trig, airflow, wrote, store, clears, seen, cache, tableVars, pollerVars, crashes>>

Succeed(r) ==
    /\ airflow[r] = "running" /\ wrote[r] = Needed(r)
    /\ SetAirflow(r, "success")
    /\ UNCHANGED <<trig, wrote, store, files, clears, cache, tableVars, pollerVars, crashes>>

\* The run fails, or somebody stops it (PATCH state=failed).
Fail(r) ==
    /\ airflow[r] \in {"queued", "running"}
    /\ SetAirflow(r, "failed")
    /\ UNCHANGED <<trig, wrote, store, files, clears, cache, tableVars, pollerVars, crashes>>

\* Somebody clears the run: its tasks start over.
Clear(r) ==
    /\ airflow[r] \in Terminal \cup {"running"}
    /\ clears[r] < MaxClears
    /\ clears' = [clears EXCEPT ![r] = @ + 1]
    /\ SetAirflow(r, "queued")
    /\ UNCHANGED <<trig, wrote, store, files, cache, tableVars, pollerVars, crashes>>

\* Airflow loses the run (its database is reset, the DAG run is deleted).
Forget(r) ==
    /\ airflow[r] # "absent"
    /\ SetAirflow(r, "absent")
    /\ UNCHANGED <<trig, wrote, store, files, clears, cache, tableVars, pollerVars, crashes>>

-----------------------------------------------------------------------------
(* AirflowService's cache of DAG runs.                                     *)

\* GET .../runs/{run_id} by a browser refills the cache.
StatusRequest(r) ==
    /\ LoopFree
    /\ r \in Watched
    /\ cache[r] = "none" /\ airflow[r] # "absent"
    /\ cache' = [cache EXCEPT ![r] = airflow[r]]
    /\ UNCHANGED <<trig, airflowVars, tableVars, pollerVars, crashes>>

\* The entry outlives its TTL (a matter of time, whatever the event loop does),
\* or the backend's stop and clear drop it.
Expire(r) ==
    /\ cache[r] # "none"
    /\ cache' = [cache EXCEPT ![r] = "none"]
    /\ UNCHANGED <<trig, airflowVars, tableVars, pollerVars, crashes>>

-----------------------------------------------------------------------------
(* ProcessRunPoller.                                                       *)

\* The poller is done with a run and goes back to the loop of _poll_once.
NextRun ==
    pc' = "scan" /\ cur' = NoRun /\ reply' = "none" /\ ds' = NoId /\ UNCHANGED todo

\* Mutant of AbortTick: _loop lets the exception end the poller's task.
AbortTickMutant ==
    pc' = "dead" /\ cur' = NoRun /\ reply' = "none" /\ ds' = NoId /\ todo' = {}

\* An exception that _finalize does not catch ends the tick, and leaves the
\* rest of todo for a later one; _loop catches it.
AbortTick ==
    pc' = "sleep" /\ cur' = NoRun /\ reply' = "none" /\ ds' = NoId /\ todo' = {}

\* Mutant of Tick: the query does not filter on the status.
TickMutant ==
    /\ pc = "sleep"
    /\ todo' = {r \in Runs : status[r] # "untracked"}
    /\ pc' = "scan"
    /\ UNCHANGED <<trig, airflowVars, cache, tableVars, cur, reply, ds, crashes>>

\* _poll_once: the query for RUNNING rows.
Tick ==
    /\ pc = "sleep"
    /\ todo' = {r \in Runs : status[r] = "RUNNING"}
    /\ pc' = "scan"
    /\ UNCHANGED <<trig, airflowVars, cache, tableVars, cur, reply, ds, crashes>>

EndTick ==
    /\ pc = "scan" /\ todo = {}
    /\ pc' = "sleep"
    /\ UNCHANGED <<trig, airflowVars, cache, tableVars, todo, cur, reply, ds, crashes>>

\* _finalize calls get_dag_run: a fresh cache entry is the answer, else it
\* awaits Airflow.
Ask(r) ==
    /\ pc = "scan" /\ r \in todo
    /\ cur' = r
    /\ todo' = todo \ {r}
    /\ reply' = cache[r]
    /\ pc' = IF cache[r] = "none" THEN "waiting" ELSE "decide"
    /\ UNCHANGED <<trig, airflowVars, cache, tableVars, ds, crashes>>

\* Airflow reads the state of the run and sends it.
Answer ==
    /\ pc = "waiting"
    /\ reply' = airflow[cur]
    /\ pc' = "answered"
    /\ UNCHANGED <<trig, airflowVars, cache, tableVars, todo, cur, ds, crashes>>

\* AirflowIntegrationError: leave the run for a later tick.
NoAnswer ==
    /\ pc = "waiting"
    /\ NextRun
    /\ UNCHANGED <<trig, airflowVars, cache, tableVars, crashes>>

\* The coroutine resumes: get_dag_run stores what it got (not a 404).
Deliver ==
    /\ pc = "answered"
    /\ pc' = "decide"
    /\ cache' = IF reply = "absent" THEN cache ELSE [cache EXCEPT ![cur] = reply]
    /\ UNCHANGED <<trig, airflowVars, tableVars, todo, cur, reply, ds, crashes>>

\* Mutant of MarkFailed: whatever is not a success is a failure.
MarkFailedMutant ==
    /\ pc = "decide" /\ reply # "success"
    /\ status' = [status EXCEPT ![cur] = "FAILED"]
    /\ NextRun
    /\ UNCHANGED <<trig, airflowVars, cache, link, output, nextId, gone, crashes>>

\* AirflowNotFound, or the run failed.
MarkFailed ==
    /\ pc = "decide" /\ reply \in {"failed", "absent"}
    /\ status' = [status EXCEPT ![cur] = "FAILED"]
    /\ NextRun
    /\ UNCHANGED <<trig, airflowVars, cache, link, output, nextId, gone, crashes>>

LeaveRunning ==
    /\ pc = "decide" /\ reply \in {"queued", "running"}
    /\ NextRun
    /\ UNCHANGED <<trig, airflowVars, cache, tableVars, crashes>>

\* Mutant of NotVisible: the 404 is handled like the IntegrityError.
NotVisibleMutant ==
    /\ pc = "decide" /\ reply = "success"
    /\ pc' = "relink"
    /\ UNCHANGED <<trig, airflowVars, cache, tableVars, todo, cur, reply, ds, crashes>>

\* register_existing_dataset raises 404: the output is not visible, or
\* storage gave an error, which its probes take for "not there".
NotVisible ==
    /\ pc = "decide" /\ reply = "success"
    /\ NextRun
    /\ UNCHANGED <<trig, airflowVars, cache, tableVars, crashes>>

\* register_existing_dataset up to its commit, the first of the two.
Register ==
    /\ pc = "decide" /\ reply = "success"
    /\ Visible(cur)
    /\ ~Registered(Out(cur))
    /\ InsertRow(Out(cur))
    /\ ds' = nextId
    /\ pc' = "refresh"
    /\ UNCHANGED <<trig, airflowVars, cache, status, link, gone, todo, cur, reply, crashes>>

\* The same insert, refused by the unique key: IntegrityError, rollback.
AlreadyRegistered ==
    /\ pc = "decide" /\ reply = "success"
    /\ Visible(cur)
    /\ Registered(Out(cur))
    /\ pc' = "relink"
    /\ UNCHANGED <<trig, airflowVars, cache, tableVars, todo, cur, reply, ds, crashes>>

\* refresh() of the row just committed; it raises if the row is gone.
Refresh ==
    /\ pc = "refresh" /\ output[ds] # NoRow
    /\ pc' = "link"
    /\ UNCHANGED <<trig, airflowVars, cache, tableVars, todo, cur, reply, ds, crashes>>

RefreshFails ==
    /\ pc = "refresh" /\ output[ds] = NoRow
    /\ AbortTick
    /\ UNCHANGED <<trig, airflowVars, cache, tableVars, crashes>>

\* The commit that links ds (or NULL) and completes the run.
CompleteRun ==
    /\ status' = [status EXCEPT ![cur] = "COMPLETED"]
    /\ link' = [link EXCEPT ![cur] = ds]
    /\ NextRun
    /\ UNCHANGED <<trig, airflowVars, cache, output, nextId, gone, crashes>>

\* The second commit.  The foreign key refuses it if the row was deleted
\* since: IntegrityError again, handled like the first.
Link ==
    /\ pc = "link" /\ output[ds] # NoRow
    /\ CompleteRun

LinkRefused ==
    /\ pc = "link" /\ output[ds] = NoRow
    /\ pc' = "relink" /\ ds' = NoId
    /\ UNCHANGED <<trig, airflowVars, cache, tableVars, todo, cur, reply, crashes>>

\* The handler of IntegrityError looks for the row that stands for the output.
FindExisting ==
    /\ pc = "relink"
    /\ ds' \in IF Registered(Out(cur)) THEN {i \in Ids : output[i] = Out(cur)} ELSE {NoId}
    /\ pc' = "finish"
    /\ UNCHANGED <<trig, airflowVars, cache, tableVars, todo, cur, reply, crashes>>

Relink ==
    /\ pc = "finish"
    /\ DsPresent
    /\ CompleteRun

\* The row it found was deleted in between: nothing catches this one.
RelinkRefused ==
    /\ pc = "finish"
    /\ ~DsPresent
    /\ AbortTick
    /\ UNCHANGED <<trig, airflowVars, cache, tableVars, crashes>>

-----------------------------------------------------------------------------
(* The admin's endpoints, and the backend itself.                          *)

\* POST /datasets/register; a second row for the same key is refused.
RegisterManually(p, t) ==
    /\ LoopFree
    /\ <<p, t>> \in Manual
    /\ files[p] # {}
    /\ ~Registered(<<p, t>>)
    /\ InsertRow(<<p, t>>)
    /\ UNCHANGED <<trig, airflowVars, cache, status, link, gone, pollerVars, crashes>>

Deleted == {i \in Ids : i < nextId /\ output[i] = NoRow}

\* Mutant of Delete: the foreign key does not set the column to NULL.
DeleteMutant(i) ==
    /\ output[i] # NoRow /\ Cardinality(Deleted) < MaxDeletes
    /\ output' = [output EXCEPT ![i] = NoRow]
    /\ gone' = gone \cup {output[i]}
    /\ UNCHANGED <<trig, airflowVars, cache, status, link, nextId, pollerVars, crashes>>

\* DELETE /datasets/{i}, in a worker thread: the foreign keys of process_runs
\* are ON DELETE SET NULL.  delete_from_s3 removes the object whose key is the
\* row's s3_key, and nothing that is stored under it as a prefix.
Delete(i) ==
    /\ output[i] # NoRow /\ Cardinality(Deleted) < MaxDeletes
    /\ output' = [output EXCEPT ![i] = NoRow]
    /\ link' = [r \in Runs |-> IF link[r] = i THEN NoId ELSE link[r]]
    /\ gone' = gone \cup {output[i]}
    /\ UNCHANGED <<trig, airflowVars, cache, status, nextId, pollerVars, crashes>>

\* The backend stops, at any point, and starts again.
Restart ==
    /\ crashes < MaxCrashes
    /\ crashes' = crashes + 1
    /\ AbortTick
    /\ cache' = [r \in Runs |-> "none"]
    /\ trig' = [r \in Runs |-> IF trig[r] = "idle" THEN "idle" ELSE "done"]
    /\ UNCHANGED <<airflowVars, tableVars>>

-----------------------------------------------------------------------------
Endpoint(r) == Trigger(r) \/ TriggerError(r) \/ Record(r) \/ StatusRequest(r) \/ Expire(r)

Job(r) ==
    \/ Accept(r) \/ Start(r) \/ Succeed(r) \/ Fail(r) \/ Clear(r) \/ Forget(r)
    \/ \E o \in {"data", "meta"} : Write(r, o)

Finalize ==
    \/ Answer \/ NoAnswer \/ Deliver
    \/ MarkFailed \/ LeaveRunning \/ NotVisible \/ Register \/ AlreadyRegistered
    \/ Refresh \/ RefreshFails \/ Link \/ LinkRefused
    \/ FindExisting \/ Relink \/ RelinkRefused

Poll == Tick \/ EndTick \/ (\E r \in Runs : Ask(r)) \/ Finalize

Admin ==
    \/ \E p \in Prefixes, t \in Types : RegisterManually(p, t)
    \/ \E i \in Ids : Delete(i)

Next ==
    \/ \E r \in Runs : Endpoint(r) \/ Job(r)
    \/ \E p \in Prefixes : Surface(p)
    \/ Poll
    \/ Admin
    \/ Restart

Spec == Init /\ [][Next]_vars

\* The poller's loop keeps running; storage shows what it holds; cache entries
\* expire.  Airflow does not refuse to answer about a run for ever, and object
\* storage does not hide a visible output from it for ever; the jobs and the
\* admins owe nothing.
Fairness ==
    /\ WF_vars(Poll)
    /\ \A p \in Prefixes : WF_vars(Surface(p))
    /\ \A r \in Runs : WF_vars(Expire(r))
    /\ \A r \in Runs : SF_vars(cur = r /\ Answer)
    /\ \A r \in Runs : SF_vars(cur = r /\ (Register \/ AlreadyRegistered))

FairSpec == Spec /\ Fairness

-----------------------------------------------------------------------------
(* Properties.                                                             *)

States == {"absent", "queued", "running", "success", "failed"}

\* The values the variables take.
TypeOK ==
    /\ trig \in [Runs -> {"idle", "posting", "posted", "done"}]
    /\ airflow \in [Runs -> States]
    /\ wrote \in [Runs -> SUBSET {"data", "meta"}]
    /\ store \in [Prefixes -> SUBSET {"data", "meta"}]
    /\ files \in [Prefixes -> SUBSET {"data", "meta"}]
    /\ cache \in [Runs -> (States \ {"absent"}) \cup {"none"}]
    /\ status \in [Runs -> {"untracked", "RUNNING", "COMPLETED", "FAILED"}]
    /\ link \in [Runs -> Ids \cup {NoId}]
    /\ output \in [Ids -> (Prefixes \X Types) \cup {NoRow}]
    /\ nextId \in 1..(MaxIds + 1)
    /\ pc \in {"sleep", "scan", "waiting", "answered", "decide",
               "refresh", "link", "relink", "finish"}
    /\ todo \in SUBSET Runs
    /\ cur \in Runs \cup {NoRun}
    /\ reply \in States \cup {"none"}
    /\ ds \in Ids \cup {NoId}
    /\ clears \in [Runs -> 0..MaxClears]
    /\ crashes \in 0..MaxCrashes
    /\ seen \in [Runs -> SUBSET Ended]
    /\ gone \in SUBSET (Prefixes \X Types)

\* A run's registered_dataset_id never dangles, and never names a dataset that
\* is not this run's output: whatever is deleted or re-registered between the
\* poller's reads, its two commits and its IntegrityError path.
LinkSound ==
    \A r \in Runs :
        link[r] # NoId => status[r] = "COMPLETED" /\ output[link[r]] = Out(r)

\* A final status was earned: COMPLETED only if Airflow did report success for
\* the run, FAILED only if the run failed, was stopped or was lost, whatever
\* the cache and the answers in flight held when the poller decided.
VerdictEarned ==
    \A r \in Runs :
        /\ status[r] = "COMPLETED" => "success" \in seen[r]
        /\ status[r] = "FAILED" => seen[r] \cap {"failed", "absent"} # {}

\* A completed run without a dataset is one whose dataset somebody deleted: no
\* crash between the two commits, and no race, loses the link of a dataset
\* that was there all along.
CompletedHasOutput ==
    \A r \in Runs :
        status[r] = "COMPLETED" /\ link[r] = NoId => Out(r) \in gone

\* No other run writes under the prefix of r.
Exclusive(r) == \A s \in Runs : Prefix[s] = Prefix[r] => s = r

\* When the poller has just inserted the dataset of a run that succeeded at its
\* first attempt and has its prefix to itself, a listing shows all of its
\* output: pm_metadata.json, written last, stands for the rest.
WholeWhenRegistered ==
    (pc = "refresh" /\ airflow[cur] = "success" /\ clears[cur] = 0 /\ Exclusive(cur))
        => Needed(cur) \subseteq files[Prefix[cur]]

\* The outputs listed in the datasets table.
Catalog == {output[i] : i \in Ids} \ {NoRow}

\* COMPLETED and FAILED are final: no later tick, stale answer or restart moves
\* a run that the poller has finished.
FinalStatus ==
    [][\A r \in Runs : status[r] \in {"COMPLETED", "FAILED"} => status'[r] = status[r]]_status

\* Deleting the dataset of a finished run sticks: what the poller adds to the
\* catalogue is the output of a run that it has not finished.
DeletionSticks ==
    [][pc' # pc =>
        \A o \in Catalog' \ Catalog :
            \E r \in Runs : Out(r) = o /\ status[r] = "RUNNING"]_vars

\* Under Fairness no row stays RUNNING for ever while its DAG run has ended:
\* aborted ticks, deletions followed by another insert, restarts between the two
\* commits and stale cache entries only delay it.  A row is inserted again only after
\* a deletion, so that a MaxIds of all rows and MaxDeletes never holds an insert up.
NoRunStuck ==
    \A r \in Runs :
        <>[](status[r] = "RUNNING") => []<>(airflow[r] \in {"queued", "running"})

-----------------------------------------------------------------------------
(* The ledger this implements: the catalogue is the datasets table.        *)

Ledger == INSTANCE RunLedger WITH
    Outputs   <- Prefixes \X Types,
    OutputOf  <- [r \in Runs |-> Out(r)],
    phase     <- status,
    verdicts  <- seen,
    catalog   <- Catalog,
    withdrawn <- gone

\* Every step of the endpoints, the poller, the jobs and the admins, restarts
\* included, is a step of the ledger or leaves it alone.
LedgerSpec == Ledger!Spec
=============================================================================
