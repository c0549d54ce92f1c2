----------------------------- MODULE Catalogue ------------------------------
(***************************************************************************)
(* The tables that users edit: trained models, whose rows name three       *)
(* objects in storage and a data set, and the runs that are started from   *)
(* them, of pipelines (pipeline_runs) and of generation (process_runs).    *)
(*                                                                         *)
(* A request is the list of what its handler has still to do, one call to  *)
(* the database, to storage or to Airflow at a time: synchronous handlers  *)
(* run in worker threads and interleave there.  The two that start a run   *)
(* are coroutines and give the event loop away only at the await.          *)
(***************************************************************************)
EXTENDS Naturals, Sequences

CONSTANTS
    Requests,   \* requests under way
    Datasets,   \* rows of the table of data sets
    Weights,    \* keys that end in .weights.h5
    Files,      \* other keys
    Bodies,     \* what users ask for
    Buckets,    \* what may be in storage at first
    Null,
    MaxModels,  \* bound: models that may be inserted
    MaxRuns     \* bound: pipeline runs that may be inserted, DAG runs that may be started

Keys == Weights \cup Files
Ids == 1..MaxModels
RunIds == 1..MaxRuns
Columns == {"key", "enc", "cfg", "ds"}
OrNull(S) == S \cup {Null}

\* What a request may bring, a row of trained_models, and one of pipeline_runs.
Patches  == [key : OrNull(Keys), enc : OrNull(Keys), cfg : OrNull(Keys), ds : OrNull(Datasets)]
Rows     == [key : Keys, enc : Keys, cfg : Keys, ds : OrNull(Datasets)]
PipeRows == [ds : Datasets, status : {"PENDING", "RUNNING"}, run : OrNull(RunIds)]

ASSUME CatalogueAssumption ==
    /\ MaxModels \in Nat /\ MaxRuns \in Nat
    /\ Bodies \subseteq Patches
    /\ Buckets \subseteq SUBSET Keys
    /\ Null \notin Keys \cup Datasets \cup Nat \cup Rows \cup PipeRows
    /\ Weights \cap Files = {}

VARIABLES
    type,      \* type[d]: column type of data set d, "gone" once it is deleted
    bucket,    \* the objects in storage
    models,    \* models[i]: row i of trained_models, or Null
    pipes,     \* pipes[i]: row i of pipeline_runs, or Null
    procs,     \* the rows of process_runs that generation has recorded
    next,      \* ids of models and pipeline runs, ids of DAG runs
    accepted,  \* the DAG runs Airflow has created
    req,       \* req[r]: a request under way
    excused    \* history: DAG runs of which a failure or a user lost track

tables == <<type, models, pipes, procs>>
vars == <<tables, bucket, next, accepted, req, excused>>

Nowhere == [key |-> Null, enc |-> Null, cfg |-> Null, ds |-> Null]
Idle == [op |-> "none", todo |-> <<>>, id |-> Null, run |-> Null, body |-> Nowhere,
         loaded |-> Null, dirty |-> {}]

Init ==
    /\ type \in [Datasets -> {"RAW", "PREPROCESSED"}]
    /\ bucket \in Buckets
    /\ models = [i \in Ids |-> Null] /\ pipes = [i \in RunIds |-> Null] /\ procs = {}
    /\ next = [model |-> 1, pipe |-> 1, run |-> 1]
    /\ accepted = {} /\ excused = {}
    /\ req = [r \in Requests |-> Idle]

-----------------------------------------------------------------------------
(* The handlers as lists of steps.                                         *)

CreateModel == <<"ds", "key", "enc", "cfg", "existing", "insert">>
UpdateModel == <<"model", "key", "enc", "cfg", "ds", "update">>
DeleteModel == <<"model", "delete">>
PurgeModel == <<"model", "remove", "delete">>
InitiateModelUpload == <<"ds", "insert">>
CreateRun   == <<"input", "pending", "conf", "trigger", "mark">>
DeleteRun   == <<"run", "drop">>
Generate    == <<"model", "comparison", "enc", "cfg", "trigger", "record">>

Begin(r, op, todo, b, i) ==
    /\ req[r].op = "none"
    /\ req' = [req EXCEPT ![r] = [Idle EXCEPT !.op = op, !.todo = todo, !.body = b, !.id = i]]
    /\ UNCHANGED <<tables, bucket, next, accepted, excused>>

Whole(b) == Null \notin {b.key, b.enc, b.cfg, b.ds}

Arrive(r) ==
    \E b \in Bodies :
        \/ Whole(b) /\ Begin(r, "create", CreateModel, b, Null)
        \/ \E i \in Ids : Begin(r, "update", UpdateModel, b, i)
        \/ Whole(b) /\ Begin(r, "initiate", InitiateModelUpload,
                             [Nowhere EXCEPT !.key = b.key, !.ds = b.ds], Null)
        \/ b.ds # Null /\ Begin(r, "run", CreateRun, [Nowhere EXCEPT !.ds = b.ds], Null)
        \/ b.enc # Null /\ b.cfg # Null /\
              \E i \in Ids : Begin(r, "generate", Generate, [b EXCEPT !.key = Null], i)

ArriveToDelete(r) ==
    \/ \E i \in Ids, steps \in {DeleteModel, PurgeModel} : Begin(r, "delete", steps, Nowhere, i)
    \/ \E i \in RunIds : Begin(r, "unrun", DeleteRun, Nowhere, i)

\* A coroutine that has begun holds the event loop until it awaits Airflow.
Holds(r) == /\ req[r].op \in {"run", "generate"}
            /\ req[r].todo # <<>> /\ Head(req[r].todo) \notin {"input", "model", "trigger"}

At(r, steps) ==
    /\ req[r].todo # <<>> /\ Head(req[r].todo) \in steps
    /\ req[r].op \in {"run", "generate"} => \A q \in Requests \ {r} : ~Holds(q)

Proceed(r, c) == req' = [req EXCEPT ![r] = [c EXCEPT !.todo = Tail(@)]]

(* One step of a request.                                                  *)

\* Mutant of Ends: the session is committed when it is closed, whatever happened.
EndsMutant(r) ==
    /\ req' = [req EXCEPT ![r] = Idle]
    /\ models' = IF req[r].op # "update" \/ req[r].dirty = {} \/ models[req[r].id] = Null
                 THEN models
                 ELSE [models EXCEPT ![req[r].id] =
                         [c \in Columns |-> IF c \in req[r].dirty THEN req[r].body[c] ELSE @[c]]]

\* The session is closed: what was not committed is gone.
Ends(r) == req' = [req EXCEPT ![r] = Idle] /\ UNCHANGED models

-----------------------------------------------------------------------------
(* The questions a handler asks before it changes anything.                *)

Free(k) == \A i \in Ids : models[i] # Null => models[i].key # k
Present(d) == d # Null => type[d] # "gone"

\* _validate_s3_key, _validate_weights_key: the object is there, weights by their name.
Found(k, s) == k \in bucket /\ (s = "key" => k \in Weights)

\* A PATCH that does not bring a field does not look at it.
Skips(c, s) == c.op = "update" /\ s \in Columns /\ c.body[s] = Null

Suitable(d) == type[d] = "PREPROCESSED"

Passes(r, s) ==
    LET c == req[r]
    IN  CASE s = "model" -> models[c.id] # Null
          [] s = "run" -> pipes[c.id] # Null
          [] s = "ds" -> Suitable(c.body.ds)
          [] s = "input" -> type[c.body.ds] # "gone"
          [] s = "comparison" -> Present(c.body.ds)
          [] s = "existing" -> Free(c.body.key)
          [] s = "conf" -> pipes[c.id] # Null /\ type[c.body.ds] # "gone"
          [] s \in {"key", "enc", "cfg"} -> Found(c.body[s], s)

Questions == {"model", "run", "ds", "input", "comparison", "existing", "conf", "key", "enc", "cfg"}

\* Preprocessing wants a RAW data set, and arguments of which some are required;
\* storage may refuse to say whether an object is there.
MayRefuse(r, s) ==
    \/ s \in {"conf", "key", "enc", "cfg"}
    \/ s = "input" /\ type[req[r].body.ds] # "RAW"

Check(r) ==
    /\ At(r, Questions)
    /\ LET s == Head(req[r].todo)
           c == req[r]
       IN  /\ Skips(c, s) \/ Passes(r, s)
           /\ Proceed(r, [c EXCEPT
                 !.loaded = IF s = "model" /\ c.op # "generate" THEN models[c.id] ELSE @,
                 !.dirty = IF c.op = "update" /\ ~Skips(c, s) THEN @ \cup ({s} \cap Columns) ELSE @])
    /\ UNCHANGED <<tables, bucket, next, accepted, excused>>

Refuse(r) ==
    /\ \/ At(r, {"remove"})
       \/ /\ At(r, Questions) /\ ~Skips(req[r], Head(req[r].todo))
          /\ MayRefuse(r, Head(req[r].todo)) \/ ~Passes(r, Head(req[r].todo))
    /\ Ends(r)
    /\ UNCHANGED <<type, pipes, procs, bucket, next, accepted, excused>>

-----------------------------------------------------------------------------
(* trained_models.                                                         *)

\* What the table admits as row i: columns that are not NULL, a key of its own, a
\* data set that is there.
Admits(row, i) ==
    /\ Null \notin {row.key, row.enc, row.cfg}
    /\ \A j \in Ids \ {i} : models[j] # Null => models[j].key # row.key
    /\ Present(row.ds)

Insert(r) ==
    /\ At(r, {"insert"}) /\ next.model \in Ids
    /\ Admits(req[r].body, next.model)
    /\ models' = [models EXCEPT ![next.model] = req[r].body]
    /\ next' = [next EXCEPT !.model = @ + 1]
    /\ req' = [req EXCEPT ![r] = Idle]
    /\ UNCHANGED <<type, pipes, procs, bucket, accepted, excused>>

\* The columns in the UPDATE: those that differ from what the session had read.
Changed(r) == {c \in req[r].dirty : req[r].body[c] # req[r].loaded[c]}

Written(r) == [c \in Columns |-> IF c \in Changed(r) THEN req[r].body[c]
                                 ELSE models[req[r].id][c]]

Update(r) ==
    /\ At(r, {"update"})
    /\ models[req[r].id] # Null /\ Admits(Written(r), req[r].id)
    /\ models' = [models EXCEPT ![req[r].id] = Written(r)]
    /\ req' = [req EXCEPT ![r] = Idle]
    /\ UNCHANGED <<type, pipes, procs, bucket, next, accepted, excused>>

\* delete_from_s3: the object goes before the row does.
Remove(r) ==
    /\ At(r, {"remove"})
    /\ bucket' = bucket \ {req[r].loaded.key}
    /\ Proceed(r, req[r])
    /\ UNCHANGED <<tables, next, accepted, excused>>

Delete(r) ==
    /\ At(r, {"delete"})
    /\ models' = [models EXCEPT ![req[r].id] = Null]
    /\ req' = [req EXCEPT ![r] = Idle]
    /\ UNCHANGED <<type, pipes, procs, bucket, next, accepted, excused>>

-----------------------------------------------------------------------------
(* pipeline_runs, and the launch of a generation.                          *)

RunOf(i) == IF pipes[i] = Null THEN {} ELSE {pipes[i].run} \ {Null}

\* The row is committed before Airflow is asked.
Pend(r) ==
    /\ At(r, {"pending"}) /\ next.pipe \in RunIds
    /\ Present(req[r].body.ds)
    /\ pipes' = [pipes EXCEPT ![next.pipe] =
                   [ds |-> req[r].body.ds, status |-> "PENDING", run |-> Null]]
    /\ next' = [next EXCEPT !.pipe = @ + 1]
    /\ Proceed(r, [req[r] EXCEPT !.id = next.pipe])
    /\ UNCHANGED <<type, models, procs, bucket, accepted, excused>>

\* Airflow creates the DAG run, and its answer arrives.
Trigger(r) ==
    /\ At(r, {"trigger"}) /\ next.run \in RunIds
    /\ accepted' = accepted \cup {next.run}
    /\ next' = [next EXCEPT !.run = @ + 1]
    /\ Proceed(r, [req[r] EXCEPT !.run = next.run])
    /\ UNCHANGED <<tables, bucket, excused>>

\* Airflow refuses, or creates the DAG run and the answer is an error.
TriggerFails(r) ==
    /\ At(r, {"trigger"}) /\ next.run \in RunIds
    /\ \E created \in {{}, {next.run}} :
          /\ accepted' = accepted \cup created
          /\ excused' = excused \cup created
    /\ next' = [next EXCEPT !.run = @ + 1]
    /\ Ends(r)
    /\ UNCHANGED <<type, pipes, procs, bucket>>

\* Mutant of Mark: only the status is written.
MarkMutant(r) ==
    /\ At(r, {"mark"}) /\ pipes[req[r].id] # Null
    /\ pipes' = [pipes EXCEPT ![req[r].id].status = "RUNNING"]
    /\ Ends(r)
    /\ UNCHANGED <<type, procs, bucket, next, accepted, excused>>

Mark(r) ==
    /\ At(r, {"mark"}) /\ pipes[req[r].id] # Null
    /\ pipes' = [pipes EXCEPT ![req[r].id].status = "RUNNING", ![req[r].id].run = req[r].run]
    /\ Ends(r)
    /\ UNCHANGED <<type, procs, bucket, next, accepted, excused>>

Record(r) ==
    /\ At(r, {"record"}) /\ Present(req[r].body.ds)
    /\ procs' = procs \cup {[run |-> req[r].run, ds |-> req[r].body.ds]}
    /\ Ends(r)
    /\ UNCHANGED <<type, pipes, bucket, next, accepted, excused>>

Drop(r) ==
    /\ At(r, {"drop"})
    /\ pipes' = [pipes EXCEPT ![req[r].id] = Null]
    /\ excused' = excused \cup RunOf(req[r].id)
    /\ Ends(r)
    /\ UNCHANGED <<type, procs, bucket, next, accepted>>

-----------------------------------------------------------------------------
(* What may go wrong, and what others do.                                  *)

Commits == {"insert", "update", "delete", "pending", "mark", "record", "drop"}
InFlight(r) == {req[r].run} \ {Null}

\* The row a commit is about is gone, a constraint is violated, or the database is away.
CommitFails(r) ==
    /\ At(r, Commits)
    /\ excused' = excused \cup InFlight(r)
    /\ Ends(r)
    /\ UNCHANGED <<type, pipes, procs, bucket, next, accepted>>

\* Mutant of DeleteDataset: the foreign keys have no ON DELETE.
DeleteDatasetMutant(d) ==
    /\ type[d] # "gone"
    /\ type' = [type EXCEPT ![d] = "gone"]
    /\ UNCHANGED <<models, pipes, procs, bucket, next, accepted, req, excused>>

\* S3Service.delete_dataset: the database sets references to NULL or deletes the row
\* that holds them.
DeleteDataset(d) ==
    LET orphans == {i \in RunIds : pipes[i] # Null /\ pipes[i].ds = d}
    IN  /\ type[d] # "gone"
        /\ type' = [type EXCEPT ![d] = "gone"]
        /\ models' = [i \in Ids |-> IF models[i] # Null /\ models[i].ds = d
                                    THEN [models[i] EXCEPT !.ds = Null] ELSE models[i]]
        /\ pipes' = [i \in RunIds |-> IF i \in orphans THEN Null ELSE pipes[i]]
        /\ procs' = {[p EXCEPT !.ds = IF @ = d THEN Null ELSE @] : p \in procs}
        /\ excused' = excused \cup UNION {RunOf(i) : i \in orphans}
        /\ UNCHANGED <<bucket, next, accepted, req>>

\* The backend dies with the requests it has under way.
Restart ==
    /\ \E r \in Requests : req[r].op # "none"
    /\ req' = [r \in Requests |-> Idle]
    /\ excused' = excused \cup UNION {InFlight(r) : r \in Requests}
    /\ UNCHANGED <<tables, bucket, next, accepted>>

Step(r) ==
    \/ Arrive(r) \/ ArriveToDelete(r) \/ Check(r) \/ Refuse(r)
    \/ Insert(r) \/ Update(r) \/ Remove(r) \/ Delete(r)
    \/ Pend(r) \/ Trigger(r) \/ TriggerFails(r) \/ Mark(r) \/ Record(r) \/ Drop(r)
    \/ CommitFails(r)

Next ==
    \/ \E r \in Requests : Step(r)
    \/ \E d \in Datasets : DeleteDataset(d)
    \/ Restart

Spec == Init /\ [][Next]_vars

-----------------------------------------------------------------------------
(* Properties.                                                             *)

Ops == {"none", "create", "update", "initiate", "delete", "run", "unrun", "generate"}
Steps == Questions \cup Commits \cup {"remove", "trigger"}

\* The values the variables take.
TypeOK ==
    /\ type \in [Datasets -> {"RAW", "PREPROCESSED", "gone"}]
    /\ bucket \subseteq Keys
    /\ models \in [Ids -> OrNull(Rows)] /\ pipes \in [RunIds -> OrNull(PipeRows)]
    /\ procs \subseteq [run : RunIds, ds : OrNull(Datasets)]
    /\ next \in [model : 1..(MaxModels + 1), pipe : 1..(MaxRuns + 1), run : 1..(MaxRuns + 1)]
    /\ accepted \subseteq RunIds /\ excused \subseteq RunIds
    /\ req \in [Requests -> [op : Ops, todo : Seq(Steps), id : OrNull(Ids \cup RunIds),
                             run : OrNull(RunIds), body : Patches, loaded : OrNull(Rows),
                             dirty : SUBSET Columns]]

\* What a row refers to is there, and a model stands on a PREPROCESSED data set,
\* although data sets are deleted between the look at them and the commit.
ReferencesHold ==
    /\ \A i \in Ids :
          models[i] # Null => models[i].ds = Null \/ type[models[i].ds] = "PREPROCESSED"
    /\ \A i \in RunIds : pipes[i] # Null => type[pipes[i].ds] # "gone"
    /\ \A p \in procs : Present(p.ds)

\* A PATCH is applied whole or not at all: a field that was set before a later
\* field was refused does not reach the table.
NoHalfPatch ==
    [][ \A i \in Ids : models[i] # Null /\ models'[i] \notin {Null, models[i]} =>
          \/ \E d \in Datasets : type'[d] = "gone" /\ models'[i] = [models[i] EXCEPT !.ds = Null]
          \/ \E r \in Requests :
                /\ req[r].todo = <<"update">> /\ req[r].id = i
                /\ \A c \in Columns : req[r].body[c] \notin {Null, req[r].loaded[c]} =>
                      models'[i][c] = req[r].body[c]
      ]_vars

\* A DAG run that Airflow has created stands in a row, or is about to, or was lost
\* to a failure or deleted by a user; and a row that says RUNNING names a run.
AcceptedIsKnown ==
    /\ \A n \in accepted :
          \/ n \in excused
          \/ \E r \in Requests : req[r].run = n
          \/ \E i \in RunIds : n \in RunOf(i)
          \/ \E p \in procs : p.run = n
    /\ \A i \in RunIds : pipes[i] # Null /\ pipes[i].status = "RUNNING" => pipes[i].run \in accepted
=============================================================================
