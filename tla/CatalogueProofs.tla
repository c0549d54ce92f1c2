-------------------------- MODULE CatalogueProofs ---------------------------
(***************************************************************************)
(* Theorems about Catalogue, for any number of requests, data sets,        *)
(* objects, models and runs.                                               *)
(***************************************************************************)
EXTENDS Catalogue, SequenceTheorems, TLAPS

\* What handlers may still have to do.
CreateRest == {CreateModel, <<"key", "enc", "cfg", "existing", "insert">>,
    <<"enc", "cfg", "existing", "insert">>, <<"cfg", "existing", "insert">>,
    <<"existing", "insert">>, <<"insert">>}
UpdateRest == {UpdateModel, <<"key", "enc", "cfg", "ds", "update">>,
    <<"enc", "cfg", "ds", "update">>, <<"cfg", "ds", "update">>, <<"ds", "update">>, <<"update">>}
InitiateRest == {InitiateModelUpload, <<"insert">>}
DeleteRest == {DeleteModel, PurgeModel, <<"remove", "delete">>, <<"delete">>}
RunRest == {CreateRun, <<"pending", "conf", "trigger", "mark">>, <<"conf", "trigger", "mark">>,
    <<"trigger", "mark">>, <<"mark">>}
UnrunRest == {DeleteRun, <<"drop">>}
GenerateRest == {Generate, <<"comparison", "enc", "cfg", "trigger", "record">>,
    <<"enc", "cfg", "trigger", "record">>, <<"cfg", "trigger", "record">>,
    <<"trigger", "record">>, <<"record">>}

Course(c) ==
    /\ c.op = "none" => c.todo = <<>>
    /\ c.op = "create" => c.todo \in CreateRest
    /\ c.op = "update" => c.todo \in UpdateRest
    /\ c.op = "initiate" => c.todo \in InitiateRest
    /\ c.op = "delete" => c.todo \in DeleteRest
    /\ c.op = "run" => c.todo \in RunRest
    /\ c.op = "unrun" => c.todo \in UnrunRest
    /\ c.op = "generate" => c.todo \in GenerateRest

\* The data set was PREPROCESSED when a handler looked at it; it may be gone by now.
Stood(d) == d \in Datasets /\ type[d] \in {"PREPROCESSED", "gone"}

\* A handler that may write a model has looked at the data set that it will write, and a
\* PATCH has looked, or will look, at every field it brings.
ModelInv(c) ==
    /\ c.op \in {"create", "initiate"} =>
          c.body.ds # Null /\ (Head(c.todo) = "ds" \/ Stood(c.body.ds))
    /\ c.op = "update" => \A f \in Columns :
          c.body[f] # Null => f \in c.dirty \/ \E k \in 1..Len(c.todo) : c.todo[k] = f
    /\ \A f \in c.dirty : c.body[f] # Null
    /\ "ds" \in c.dirty => Stood(c.body.ds)
    /\ c.op \in {"update", "delete", "generate"} => c.id \in Ids
    /\ c.op = "unrun" => c.id \in RunIds

Pending(c) == c.op = "run" /\ Head(c.todo) \in {"conf", "trigger", "mark"}

\* A handler holds a DAG run from Airflow's answer to the last commit; until then the row
\* of a pipeline run names none.
RunInv(c) ==
    /\ c.op = "run" => c.body.ds # Null
    /\ c.run # Null <=> c.op # "none" /\ Head(c.todo) \in {"mark", "record"}
    /\ c.run # Null => c.run \in accepted
    /\ Pending(c) => /\ c.id \in RunIds /\ c.id < next.pipe
                     /\ pipes[c.id] # Null => pipes[c.id].run = Null

\* Ids that were not given out have no row, and no two requests complete one row.
FreshInv ==
    /\ \A i \in Ids : models[i] # Null => i < next.model
    /\ \A i \in RunIds : pipes[i] # Null => i < next.pipe
    /\ \A q, r \in Requests : q # r /\ Pending(req[q]) /\ Pending(req[r]) => req[q].id # req[r].id

RequestsInv == \A r \in Requests : Course(req[r]) /\ ModelInv(req[r]) /\ RunInv(req[r])

IInv == TypeOK /\ RequestsInv /\ FreshInv /\ ReferencesHold /\ AcceptedIsKnown

ReqType == [op : Ops, todo : Seq(Steps), id : OrNull(Ids \cup RunIds), run : OrNull(RunIds),
            body : Patches, loaded : OrNull(Rows), dirty : SUBSET Columns]

-----------------------------------------------------------------------------
(* The course of a handler.                                                *)

\* What comes after a step of a handler.
LEMMA NextStep ==
    ASSUME NEW c \in ReqType, Course(c), c.op # "none",
           NEW d \in ReqType, d.op = c.op, d.todo = Tail(c.todo),
           Head(c.todo) \notin {"insert", "update", "delete", "mark", "drop", "record"}
    PROVE  /\ Course(d)
           /\ c.op \in {"create", "initiate"} => Head(Tail(c.todo)) # "ds"
           /\ Head(c.todo) = "trigger" <=> Head(Tail(c.todo)) \in {"mark", "record"}
           /\ c.op = "run" => /\ Head(c.todo) = "pending" => Head(Tail(c.todo)) = "conf"
                              /\ Head(c.todo) = "input" => Head(Tail(c.todo)) = "pending"
PROOF
<1> DEFINE t == c.todo
<1>0. d.op = c.op /\ d.todo = Tail(t) /\ c.op \in Ops
  BY DEF ReqType
<1>1. CASE c.op = "create"
  <2>1. t \in CreateRest /\ t # <<"insert">>
    BY <1>1 DEF Course
  <2>2. CASE t = CreateModel
    BY <1>0, <1>1, <2>2 DEF Course, CreateModel, CreateRest
  <2>3. CASE t = <<"key", "enc", "cfg", "existing", "insert">>
    BY <1>0, <1>1, <2>3 DEF Course, CreateRest
  <2>4. CASE t = <<"enc", "cfg", "existing", "insert">>
    BY <1>0, <1>1, <2>4 DEF Course, CreateRest
  <2>5. CASE t = <<"cfg", "existing", "insert">>
    BY <1>0, <1>1, <2>5 DEF Course, CreateRest
  <2>6. CASE t = <<"existing", "insert">>
    BY <1>0, <1>1, <2>6 DEF Course, CreateRest
  <2> QED BY <2>1, <2>2, <2>3, <2>4, <2>5, <2>6 DEF CreateRest
<1>2. CASE c.op = "update"
  <2>1. t \in UpdateRest /\ t # <<"update">>
    BY <1>2 DEF Course
  <2>2. CASE t = UpdateModel
    BY <1>0, <1>2, <2>2 DEF Course, UpdateModel, UpdateRest
  <2>3. CASE t = <<"key", "enc", "cfg", "ds", "update">>
    BY <1>0, <1>2, <2>3 DEF Course, UpdateRest
  <2>4. CASE t = <<"enc", "cfg", "ds", "update">>
    BY <1>0, <1>2, <2>4 DEF Course, UpdateRest
  <2>5. CASE t = <<"cfg", "ds", "update">>
    BY <1>0, <1>2, <2>5 DEF Course, UpdateRest
  <2>6. CASE t = <<"ds", "update">>
    BY <1>0, <1>2, <2>6 DEF Course, UpdateRest
  <2> QED BY <2>1, <2>2, <2>3, <2>4, <2>5, <2>6 DEF UpdateRest
<1>3. CASE c.op = "initiate"
  <2>1. t \in InitiateRest /\ t # <<"insert">>
    BY <1>3 DEF Course
  <2>2. CASE t = InitiateModelUpload
    BY <1>0, <1>3, <2>2 DEF Course, InitiateModelUpload, InitiateRest
  <2> QED BY <2>1, <2>2 DEF InitiateRest
<1>4. CASE c.op = "delete"
  <2>1. t \in DeleteRest /\ t # <<"delete">>
    BY <1>4 DEF Course
  <2>2. CASE t = DeleteModel
    BY <1>0, <1>4, <2>2 DEF Course, DeleteModel, DeleteRest
  <2>3. CASE t = PurgeModel
    BY <1>0, <1>4, <2>3 DEF Course, PurgeModel, DeleteRest
  <2>4. CASE t = <<"remove", "delete">>
    BY <1>0, <1>4, <2>4 DEF Course, DeleteRest
  <2> QED BY <2>1, <2>2, <2>3, <2>4 DEF DeleteRest
<1>5. CASE c.op = "run"
  <2>1. t \in RunRest /\ t # <<"mark">>
    BY <1>5 DEF Course
  <2>2. CASE t = CreateRun
    BY <1>0, <1>5, <2>2 DEF Course, CreateRun, RunRest
  <2>3. CASE t = <<"pending", "conf", "trigger", "mark">>
    BY <1>0, <1>5, <2>3 DEF Course, RunRest
  <2>4. CASE t = <<"conf", "trigger", "mark">>
    BY <1>0, <1>5, <2>4 DEF Course, RunRest
  <2>5. CASE t = <<"trigger", "mark">>
    BY <1>0, <1>5, <2>5 DEF Course, RunRest
  <2> QED BY <2>1, <2>2, <2>3, <2>4, <2>5 DEF RunRest
<1>6. CASE c.op = "unrun"
  <2>1. t \in UnrunRest /\ t # <<"drop">>
    BY <1>6 DEF Course
  <2>2. CASE t = DeleteRun
    BY <1>0, <1>6, <2>2 DEF Course, DeleteRun, UnrunRest
  <2> QED BY <2>1, <2>2 DEF UnrunRest
<1>7. CASE c.op = "generate"
  <2>1. t \in GenerateRest /\ t # <<"record">>
    BY <1>7 DEF Course
  <2>2. CASE t = Generate
    BY <1>0, <1>7, <2>2 DEF Course, Generate, GenerateRest
  <2>3. CASE t = <<"comparison", "enc", "cfg", "trigger", "record">>
    BY <1>0, <1>7, <2>3 DEF Course, GenerateRest
  <2>4. CASE t = <<"enc", "cfg", "trigger", "record">>
    BY <1>0, <1>7, <2>4 DEF Course, GenerateRest
  <2>5. CASE t = <<"cfg", "trigger", "record">>
    BY <1>0, <1>7, <2>5 DEF Course, GenerateRest
  <2>6. CASE t = <<"trigger", "record">>
    BY <1>0, <1>7, <2>6 DEF Course, GenerateRest
  <2> QED BY <2>1, <2>2, <2>3, <2>4, <2>5, <2>6 DEF GenerateRest
<1> QED BY <1>0, <1>1, <1>2, <1>3, <1>4, <1>5, <1>6, <1>7 DEF Ops

\* Which handler is at which step.
LEMMA Places ==
    ASSUME NEW c \in ReqType, Course(c), c.todo # <<>>
    PROVE  LET s == Head(c.todo)
           IN  /\ c.op # "none" /\ s \in Steps
               /\ s = "insert" => c.op \in {"create", "initiate"}
               /\ s = "update" => c.op = "update" /\ c.todo = <<"update">>
               /\ s \in {"pending", "conf", "mark", "input"} => c.op = "run"
               /\ s = "record" => c.op = "generate"
               /\ s = "trigger" => c.op \in {"run", "generate"}
               /\ s \in {"remove", "delete"} => c.op = "delete"
               /\ s = "drop" => c.op = "unrun"
PROOF
<1>1. Head(c.todo) \in Steps
  BY HeadTailProperties DEF ReqType
<1>2. c.op # "none"
  BY DEF Course
<1>3. c.op = "create" => Head(c.todo) \in {"ds", "key", "enc", "cfg", "existing", "insert"}
  BY DEF Course, CreateRest, CreateModel
<1>4. c.op = "update" => Head(c.todo) \in {"model", "key", "enc", "cfg", "ds", "update"} /\ (Head(c.todo) = "update" => c.todo = <<"update">>)
  BY DEF Course, UpdateRest, UpdateModel
<1>5. c.op = "initiate" => Head(c.todo) \in {"ds", "insert"}
  BY DEF Course, InitiateRest, InitiateModelUpload
<1>6. c.op = "delete" => Head(c.todo) \in {"model", "delete", "remove"}
  BY DEF Course, DeleteRest, DeleteModel, PurgeModel
<1>7. c.op = "run" => Head(c.todo) \in {"input", "pending", "conf", "trigger", "mark"}
  BY DEF Course, RunRest, CreateRun
<1>8. c.op = "unrun" => Head(c.todo) \in {"run", "drop"}
  BY DEF Course, UnrunRest, DeleteRun
<1>9. c.op = "generate" => Head(c.todo) \in {"model", "comparison", "enc", "cfg", "trigger", "record"}
  BY DEF Course, GenerateRest, Generate
<1> QED BY <1>1, <1>2, <1>3, <1>4, <1>5, <1>6, <1>7, <1>8, <1>9 DEF ReqType, Ops

-----------------------------------------------------------------------------
(* What every step has in common.                                          *)

\* What other steps do does not disturb a handler: a data set it has looked at is
\* PREPROCESSED or gone, and nobody else completes its row.
LEMMA OthersKeep ==
    ASSUME IInv, NEW q \in Requests, req'[q] = req[q],
           type' = type \/ \E d \in Datasets : type' = [type EXCEPT ![d] = "gone"],
           accepted \subseteq accepted', next.pipe <= next'.pipe, next'.pipe \in Nat,
           Pending(req[q]) => pipes'[req[q].id] \in {pipes[req[q].id], Null}
    PROVE  (Course(req[q]) /\ ModelInv(req[q]) /\ RunInv(req[q]))'
PROOF
<1>1. Course(req[q]) /\ ModelInv(req[q]) /\ RunInv(req[q])
  BY DEF IInv, RequestsInv
<1>2. \A d : Stood(d) => Stood(d)'
  BY DEF Stood, IInv, TypeOK
<1>3. Course(req[q])'
  BY <1>1 DEF Course
<1>4. ModelInv(req[q])'
  BY <1>1, <1>2 DEF ModelInv
<1>5. RunInv(req[q])'
  <2>1. Pending(req[q]) => req[q].id \in RunIds /\ req[q].id < next'.pipe
    BY <1>1 DEF RunInv, RunIds, IInv, TypeOK, CatalogueAssumption
  <2> QED BY <1>1, <2>1 DEF RunInv, Pending
<1> QED BY <1>3, <1>4, <1>5

LEMMA TailType ==
    ASSUME NEW t \in Seq(Steps), t # <<>>
    PROVE  Tail(t) \in Seq(Steps)
PROOF OBVIOUS

\* Null is no id, no key and no row.
LEMMA NullApart ==
    /\ Null \notin Ids /\ Null \notin RunIds /\ Null \notin Keys /\ Null \notin Datasets
    /\ Null \notin Rows /\ Null \notin PipeRows
PROOF
<1>1. /\ Null \notin Nat /\ Null \notin Keys /\ Null \notin Datasets /\ Null \notin Rows
      /\ Null \notin PipeRows
  BY CatalogueAssumption
<1> QED BY <1>1, CatalogueAssumption DEF Ids, RunIds

\* A request that is over asks nothing more.
LEMMA IdleHolds ==
    ASSUME NEW r \in Requests, req'[r] = Idle
    PROVE  (Course(req[r]) /\ ModelInv(req[r]) /\ RunInv(req[r]))' /\ ~Pending(req[r])'
PROOF
<1>1. Idle.op = "none" /\ Idle.todo = <<>> /\ Idle.run = Null /\ Idle.dirty = {}
  BY DEF Idle
<1>2. Course(req[r])'
  BY <1>1 DEF Course
<1>3. ModelInv(req[r])'
  BY <1>1 DEF ModelInv
<1>4. RunInv(req[r])' /\ ~Pending(req[r])'
  BY <1>1 DEF RunInv, Pending
<1> QED BY <1>2, <1>3, <1>4

LEMMA IdleType == Idle \in ReqType /\ Nowhere \in Patches
PROOF BY CatalogueAssumption DEF Idle, Nowhere, ReqType, Patches, OrNull, Ops, Steps, Questions, Commits

\* What a step of r needs to know of its request.
LEMMA Asked ==
    ASSUME IInv, NEW r \in Requests
    PROVE  /\ req[r] \in ReqType /\ Course(req[r]) /\ ModelInv(req[r]) /\ RunInv(req[r])
           /\ req[r].body \in Patches /\ req[r].todo \in Seq(Steps)
PROOF BY DEF IInv, RequestsInv, TypeOK, ReqType

\* The DAG runs that stand in a row, or are excused, stay so; a request that ends holds
\* none that is not.
LEMMA KnownKeeps ==
    ASSUME IInv, pipes' = pipes, procs \subseteq procs', accepted' = accepted,
           excused \subseteq excused',
           \A q \in Requests : \/ req'[q].run = req[q].run
                               \/ req[q].run \in excused' \cup {Null}
                               \/ \E p \in procs' : p.run = req[q].run
    PROVE  AcceptedIsKnown'
PROOF
<1>1. Null \notin accepted
  BY NullApart DEF IInv, TypeOK
<1>2. \A n \in accepted :
          \/ n \in excused
          \/ \E r \in Requests : req[r].run = n
          \/ \E i \in RunIds : n \in RunOf(i)
          \/ \E p \in procs : p.run = n
  BY DEF IInv, AcceptedIsKnown
<1>3. \A i \in RunIds : RunOf(i)' = RunOf(i)
  BY DEF RunOf
<1>4. \A n \in accepted' :
          \/ n \in excused'
          \/ \E r \in Requests : req'[r].run = n
          \/ \E i \in RunIds : n \in RunOf(i)'
          \/ \E p \in procs' : p.run = n
  BY <1>1, <1>2, <1>3
<1>5. \A i \in RunIds : pipes'[i] # Null /\ pipes'[i].status = "RUNNING" => pipes'[i].run \in accepted'
  BY DEF IInv, AcceptedIsKnown
<1> QED BY <1>4, <1>5 DEF AcceptedIsKnown

-----------------------------------------------------------------------------
(* The steps.                                                              *)

LEMMA InitIInv == Init => IInv
PROOF
<1> SUFFICES ASSUME Init PROVE IInv
  OBVIOUS
<1>1. TypeOK
  <2>1. next \in [model : 1..(MaxModels + 1), pipe : 1..(MaxRuns + 1), run : 1..(MaxRuns + 1)]
    BY CatalogueAssumption DEF Init
  <2>2. req \in [Requests -> ReqType]
    BY IdleType DEF Init
  <2> QED BY <2>1, <2>2, CatalogueAssumption DEF Init, TypeOK, ReqType, OrNull
<1>2. RequestsInv
  <2> SUFFICES ASSUME NEW r \in Requests PROVE Course(req[r]) /\ ModelInv(req[r]) /\ RunInv(req[r])
    BY DEF RequestsInv
  <2>1. req[r].op = "none" /\ req[r].todo = <<>> /\ req[r].run = Null /\ req[r].dirty = {}
    BY DEF Init, Idle
  <2> QED BY <2>1 DEF Course, ModelInv, RunInv, Pending
<1>3. FreshInv
  BY DEF Init, FreshInv, Pending, Idle
<1>4. ReferencesHold /\ AcceptedIsKnown
  BY DEF Init, ReferencesHold, AcceptedIsKnown
<1> QED BY <1>1, <1>2, <1>3, <1>4 DEF IInv

\* A request arrives.
LEMMA BeginKeeps ==
    ASSUME IInv, NEW r \in Requests, Arrive(r) \/ ArriveToDelete(r)
    PROVE  IInv'
PROOF
<1>1. PICK op \in Ops, todo \in Seq(Steps), b \in Patches, i \in OrNull(Ids \cup RunIds) :
         /\ Begin(r, op, todo, b, i)
         /\ \/ op = "create" /\ todo = CreateModel /\ b.ds # Null
            \/ op = "update" /\ todo = UpdateModel /\ i \in Ids
            \/ op = "initiate" /\ todo = InitiateModelUpload /\ b.ds # Null
            \/ op = "run" /\ todo = CreateRun /\ b.ds # Null
            \/ op = "generate" /\ todo = Generate /\ i \in Ids
            \/ op = "delete" /\ todo \in {DeleteModel, PurgeModel} /\ i \in Ids
            \/ op = "unrun" /\ todo = DeleteRun /\ i \in RunIds
  <2>1. /\ CreateModel \in Seq(Steps) /\ UpdateModel \in Seq(Steps) /\ DeleteModel \in Seq(Steps)
        /\ PurgeModel \in Seq(Steps) /\ InitiateModelUpload \in Seq(Steps)
        /\ CreateRun \in Seq(Steps) /\ DeleteRun \in Seq(Steps) /\ Generate \in Seq(Steps)
    BY DEF CreateModel, UpdateModel, DeleteModel, PurgeModel, InitiateModelUpload, CreateRun,
       DeleteRun, Generate, Steps, Questions, Commits
  <2>2. CASE Arrive(r)
    <3>1. PICK b \in Bodies :
            \/ Whole(b) /\ Begin(r, "create", CreateModel, b, Null)
            \/ \E i \in Ids : Begin(r, "update", UpdateModel, b, i)
            \/ Whole(b) /\ Begin(r, "initiate", InitiateModelUpload,
                                 [Nowhere EXCEPT !.key = b.key, !.ds = b.ds], Null)
            \/ b.ds # Null /\ Begin(r, "run", CreateRun, [Nowhere EXCEPT !.ds = b.ds], Null)
            \/ b.enc # Null /\ b.cfg # Null /\
                  \E i \in Ids : Begin(r, "generate", Generate, [b EXCEPT !.key = Null], i)
      BY <2>2 DEF Arrive
    <3>2. b \in Patches
      BY CatalogueAssumption
    <3>3. /\ [Nowhere EXCEPT !.key = b.key, !.ds = b.ds] \in Patches
          /\ [Nowhere EXCEPT !.key = b.key, !.ds = b.ds].ds = b.ds
          /\ [Nowhere EXCEPT !.ds = b.ds] \in Patches /\ [Nowhere EXCEPT !.ds = b.ds].ds = b.ds
          /\ [b EXCEPT !.key = Null] \in Patches
      BY <3>2 DEF Patches, Nowhere, OrNull
    <3>4. Whole(b) => b.ds # Null
      BY DEF Whole
    <3>5. CASE Whole(b) /\ Begin(r, "create", CreateModel, b, Null)
      BY <2>1, <3>2, <3>4, <3>5 DEF Ops, OrNull
    <3>6. CASE \E i \in Ids : Begin(r, "update", UpdateModel, b, i)
      BY <2>1, <3>2, <3>6 DEF Ops, OrNull
    <3>7. CASE Whole(b) /\ Begin(r, "initiate", InitiateModelUpload,
                                 [Nowhere EXCEPT !.key = b.key, !.ds = b.ds], Null)
      BY <2>1, <3>3, <3>4, <3>7 DEF Ops, OrNull
    <3>8. CASE b.ds # Null /\ Begin(r, "run", CreateRun, [Nowhere EXCEPT !.ds = b.ds], Null)
      BY <2>1, <3>3, <3>8 DEF Ops, OrNull
    <3>9. CASE \E i \in Ids : Begin(r, "generate", Generate, [b EXCEPT !.key = Null], i)
      BY <2>1, <3>3, <3>9 DEF Ops, OrNull
    <3> QED BY <3>1, <3>5, <3>6, <3>7, <3>8, <3>9
  <2>3. CASE ArriveToDelete(r)
    BY <2>1, <2>3, IdleType DEF ArriveToDelete, Ops, OrNull
  <2> QED BY <2>2, <2>3
<1> DEFINE c == [Idle EXCEPT !.op = op, !.todo = todo, !.body = b, !.id = i]
<1>2. /\ c.op = op /\ c.todo = todo /\ c.body = b /\ c.id = i /\ c.run = Null /\ c.dirty = {}
      /\ c \in ReqType
  BY IdleType DEF Idle, ReqType
<1>3. /\ req[r].op = "none" /\ req' = [req EXCEPT ![r] = c]
      /\ UNCHANGED <<tables, bucket, next, accepted, excused>>
  BY <1>1 DEF Begin
<1> HIDE DEF c
<1>4. req'[r] = c /\ \A q \in Requests \ {r} : req'[q] = req[q]
  BY <1>3 DEF IInv, TypeOK
<1>5. TypeOK'
  BY <1>2, <1>3 DEF IInv, TypeOK, tables, ReqType
<1>6. (Course(req[r]) /\ ModelInv(req[r]) /\ RunInv(req[r]))' /\ ~Pending(req[r])'
  <2>1. Course(req[r])'
    BY <1>1, <1>2, <1>4 DEF Course, CreateRest, UpdateRest, InitiateRest, DeleteRest, RunRest,
       UnrunRest, GenerateRest
  <2>2. ModelInv(req[r])'
    <3>1. op \in {"create", "initiate"} => Head(todo) = "ds"
      BY <1>1 DEF CreateModel, InitiateModelUpload
    <3>2. op = "update" => \A f \in Columns : \E k \in 1..Len(todo) : todo[k] = f
      <4> SUFFICES ASSUME op = "update", NEW f \in Columns
                   PROVE  \E k \in 1..Len(todo) : todo[k] = f
        OBVIOUS
      <4>1. /\ Len(todo) = 6 /\ todo[2] = "key" /\ todo[3] = "enc" /\ todo[4] = "cfg"
            /\ todo[5] = "ds"
        BY <1>1 DEF UpdateModel
      <4> QED BY <4>1 DEF Columns
    <3> QED BY <1>1, <1>2, <1>4, <3>1, <3>2 DEF ModelInv
  <2>3. Head(todo) \notin {"mark", "record", "conf", "trigger"}
    BY <1>1 DEF CreateModel, UpdateModel, InitiateModelUpload, CreateRun, Generate, DeleteModel,
       PurgeModel, DeleteRun
  <2>4. RunInv(req[r])' /\ ~Pending(req[r])'
    BY <1>1, <1>2, <1>4, <2>3 DEF RunInv, Pending
  <2> QED BY <2>1, <2>2, <2>4
<1>7. RequestsInv'
  <2>1. next.pipe \in Nat
    BY CatalogueAssumption DEF IInv, TypeOK
  <2> QED BY <1>3, <1>4, <1>6, <2>1, OthersKeep DEF RequestsInv, tables
<1>8. FreshInv'
  BY <1>3, <1>4, <1>6 DEF IInv, FreshInv, tables, Pending
<1>9. ReferencesHold'
  BY <1>3 DEF IInv, ReferencesHold, tables, Present
<1>10. AcceptedIsKnown'
  <2>1. req[r].run = Null
    BY <1>3, Asked DEF RunInv
  <2> QED BY <1>3, <1>4, <2>1, KnownKeeps DEF tables
<1> QED BY <1>5, <1>7, <1>8, <1>9, <1>10 DEF IInv

\* A question that is answered as the handler wants brings it to its next step.
LEMMA CheckKeeps ==
    ASSUME IInv, NEW r \in Requests, Check(r)
    PROVE  IInv'
PROOF
<1> DEFINE c == req[r]
           s == Head(c.todo)
           d == req'[r]
<1>1. /\ c.todo # <<>> /\ s \in Questions /\ (Skips(c, s) \/ Passes(r, s))
      /\ req' = [req EXCEPT ![r] = [c EXCEPT
           !.loaded = IF s = "model" /\ c.op # "generate" THEN models[c.id] ELSE @,
           !.dirty = IF c.op = "update" /\ ~Skips(c, s) THEN @ \cup ({s} \cap Columns) ELSE @,
           !.todo = Tail(@)]]
      /\ UNCHANGED <<tables, bucket, next, accepted, excused>>
  <2>1. UNCHANGED <<tables, bucket, next, accepted, excused>> /\ At(r, Questions)
    BY DEF Check
  <2> QED BY <2>1 DEF Check, At, Proceed
<1>2. /\ c \in ReqType /\ Course(c) /\ ModelInv(c) /\ RunInv(c) /\ c.op # "none"
      /\ c.todo \in Seq(Steps)
  BY <1>1, Asked, Places
<1>3. c.op \in {"update", "delete", "create", "initiate", "run", "unrun"} /\ s = "model" => c.id \in Ids
  <2>1. s = "model" => c.op \in {"update", "delete", "generate"}
    BY <1>2 DEF Course, CreateRest, CreateModel, InitiateRest, InitiateModelUpload, RunRest,
       CreateRun, UnrunRest, DeleteRun, ReqType, Ops
  <2> QED BY <1>2, <2>1 DEF ModelInv
<1>4. /\ d = [c EXCEPT
           !.loaded = IF s = "model" /\ c.op # "generate" THEN models[c.id] ELSE @,
           !.dirty = IF c.op = "update" /\ ~Skips(c, s) THEN @ \cup ({s} \cap Columns) ELSE @,
           !.todo = Tail(@)]
      /\ \A q \in Requests \ {r} : req'[q] = req[q]
  BY <1>1 DEF IInv, TypeOK
<1>5. /\ d.op = c.op /\ d.todo = Tail(c.todo) /\ d.body = c.body /\ d.id = c.id /\ d.run = c.run
      /\ d.dirty = IF c.op = "update" /\ ~Skips(c, s) THEN c.dirty \cup ({s} \cap Columns) ELSE c.dirty
      /\ d.loaded \in OrNull(Rows) /\ d \in ReqType
  <2>1. s = "model" /\ c.op # "generate" => models[c.id] \in OrNull(Rows)
    BY <1>2, <1>3 DEF IInv, TypeOK, ReqType, Ops
  <2>2. Tail(c.todo) \in Seq(Steps)
    BY <1>1, <1>2, TailType
  <2> DEFINE L == IF s = "model" /\ c.op # "generate" THEN models[c.id] ELSE c.loaded
             X == IF c.op = "update" /\ ~Skips(c, s) THEN c.dirty \cup ({s} \cap Columns) ELSE c.dirty
  <2>3. L \in OrNull(Rows) /\ X \in SUBSET Columns
    BY <1>2, <2>1 DEF ReqType
  <2>4. d = [c EXCEPT !.loaded = L, !.dirty = X, !.todo = Tail(c.todo)]
    BY <1>4
  <2> HIDE DEF L, X
  <2>5. /\ d.op = c.op /\ d.todo = Tail(c.todo) /\ d.body = c.body /\ d.id = c.id /\ d.run = c.run
        /\ d.dirty = X /\ d.loaded = L /\ d \in ReqType
    BY <1>2, <2>2, <2>3, <2>4 DEF ReqType
  <2> QED BY <2>3, <2>5 DEF L, X
<1>6. TypeOK'
  BY <1>1, <1>4, <1>5 DEF IInv, TypeOK, tables, ReqType
<1>7. s \notin {"insert", "update", "delete", "mark", "drop", "record", "trigger", "pending"}
  BY <1>1 DEF Questions
<1>8. Course(req[r])'
  <2>1. Course(d)
    BY <1>2, <1>5, <1>7, NextStep
  <2> QED BY <2>1 DEF Course
<1>9. ModelInv(req[r])'
  <2>0. type' = type /\ \A x : Stood(x)' <=> Stood(x)
    BY <1>1 DEF tables, Stood
  <2>1. c.op \in {"create", "initiate"} =>
          c.body.ds # Null /\ (Head(d.todo) = "ds" \/ Stood(c.body.ds))
    <3>1. CASE s = "ds" /\ c.op \in {"create", "initiate"}
      <4>1. Suitable(c.body.ds)
        BY <1>1, <3>1 DEF Skips, Passes
      <4>2. c.body.ds # Null /\ c.body.ds \in Datasets
        BY <1>2, <3>1 DEF ModelInv, ReqType, Patches, OrNull
      <4> QED BY <4>1, <4>2 DEF Suitable, Stood
    <3>2. CASE s # "ds"
      BY <1>2, <3>2 DEF ModelInv
    <3> QED BY <3>1, <3>2
  <2>2. ASSUME c.op = "update", NEW f \in Columns, c.body[f] # Null
        PROVE  f \in d.dirty \/ \E k \in 1..Len(d.todo) : d.todo[k] = f
    <3>1. f \in c.dirty \/ \E k \in 1..Len(c.todo) : c.todo[k] = f
      BY <1>2, <2>2 DEF ModelInv
    <3>2. CASE f \in c.dirty
      BY <1>5, <3>2
    <3>3. CASE \E k \in 1..Len(c.todo) : c.todo[k] = f
      <4>1. PICK k \in 1..Len(c.todo) : c.todo[k] = f
        BY <3>3
      <4>2. CASE k = 1
        <5>1. s = f
          BY <1>1, <1>2, <4>1, <4>2
        <5> QED BY <1>5, <2>2, <5>1 DEF Skips
      <4>3. CASE k # 1
        <5>1. /\ Len(Tail(c.todo)) = Len(c.todo) - 1
              /\ \A j \in 1..Len(Tail(c.todo)) : Tail(c.todo)[j] = c.todo[j + 1]
              /\ Len(c.todo) \in Nat
          BY <1>1, <1>2, HeadTailProperties, LenProperties
        <5>2. k - 1 \in 1..Len(d.todo) /\ d.todo[k - 1] = f
          BY <1>5, <4>1, <4>3, <5>1
        <5> QED BY <5>2
      <4> QED BY <4>2, <4>3
    <3> QED BY <3>1, <3>2, <3>3
  <2>3. \A f \in d.dirty : d.body[f] # Null
    BY <1>2, <1>5 DEF ModelInv, Skips
  <2>4. "ds" \in d.dirty => Stood(d.body.ds)
    <3>1. CASE "ds" \in c.dirty
      BY <1>2, <1>5, <3>1 DEF ModelInv
    <3>2. CASE "ds" \in d.dirty /\ "ds" \notin c.dirty
      <4>1. s = "ds" /\ c.op = "update" /\ ~Skips(c, s)
        BY <1>5, <3>2
      <4>2. Suitable(c.body.ds) /\ c.body.ds # Null
        BY <1>1, <4>1 DEF Skips, Passes, Columns
      <4>3. c.body.ds \in Datasets
        BY <1>2, <4>2 DEF ReqType, Patches, OrNull
      <4> QED BY <1>5, <4>2, <4>3 DEF Suitable, Stood
    <3> QED BY <3>1, <3>2
  <2>5. /\ c.op \in {"update", "delete", "generate"} => c.id \in Ids
        /\ c.op = "unrun" => c.id \in RunIds
    BY <1>2 DEF ModelInv
  <2> QED BY <1>5, <2>0, <2>1, <2>2, <2>3, <2>4, <2>5 DEF ModelInv
<1>10. Pending(d) => Pending(c)
  <2>1. c.op = "run" => s \in {"input", "conf"}
    BY <1>2, <1>7 DEF Course, RunRest, CreateRun
  <2>2. c.op = "run" /\ s = "input" => Head(Tail(c.todo)) = "pending"
    BY <1>2, <1>5, <1>7, NextStep
  <2> QED BY <1>5, <2>1, <2>2 DEF Pending
<1>11. RunInv(req[r])'
  <2>1. Head(d.todo) \notin {"mark", "record"} /\ c.run = Null
    BY <1>2, <1>5, <1>7, NextStep DEF RunInv
  <2>2. c.op = "run" => c.body.ds # Null
    BY <1>2 DEF RunInv
  <2>3. Pending(d) => d.id \in RunIds /\ d.id < next.pipe /\ (pipes[d.id] # Null => pipes[d.id].run = Null)
    BY <1>2, <1>5, <1>10 DEF RunInv
  <2>4. UNCHANGED <<pipes, next>>
    BY <1>1 DEF tables
  <2> QED BY <1>5, <2>1, <2>2, <2>3, <2>4 DEF RunInv, Pending
<1>12. RequestsInv'
  <2>1. next.pipe \in Nat
    BY CatalogueAssumption DEF IInv, TypeOK
  <2>2. next' = next
    BY <1>1
  <2>3. UNCHANGED <<type, pipes, accepted>> /\ next.pipe <= next'.pipe /\ next'.pipe \in Nat
    BY <1>1, <2>1, <2>2 DEF tables
  <2>4. ASSUME NEW q \in Requests, q # r PROVE (Course(req[q]) /\ ModelInv(req[q]) /\ RunInv(req[q]))'
    <3>1. req'[q] = req[q]
      BY <1>4, <2>4
    <3> QED BY <2>3, <3>1, OthersKeep
  <2> QED BY <1>8, <1>9, <1>11, <2>4 DEF RequestsInv
<1>13. FreshInv'
  <2>1. UNCHANGED <<models, pipes, next>>
    BY <1>1 DEF tables
  <2>2. \A q \in Requests : Pending(req[q])' => Pending(req[q]) /\ req'[q].id = req[q].id
    BY <1>4, <1>5, <1>10 DEF Pending
  <2> QED BY <2>1, <2>2 DEF IInv, FreshInv
<1>14. ReferencesHold' /\ AcceptedIsKnown'
  <2>1. ReferencesHold'
    BY <1>1 DEF IInv, ReferencesHold, tables, Present
  <2>2. \A q \in Requests : req'[q].run = req[q].run
    BY <1>4, <1>5
  <2>3. AcceptedIsKnown'
    BY <1>1, <2>2, KnownKeeps DEF tables
  <2> QED BY <2>1, <2>3
<1> QED BY <1>6, <1>12, <1>13, <1>14 DEF IInv

NextIds == [model : 1..(MaxModels + 1), pipe : 1..(MaxRuns + 1), run : 1..(MaxRuns + 1)]

\* An id that is given out is within its bound, and is not given out again.
LEMMA NextGrows ==
    ASSUME NEW n \in NextIds
    PROVE  /\ n.model \in 1..MaxModels =>
                /\ [n EXCEPT !.model = @ + 1] \in NextIds
                /\ [n EXCEPT !.model = @ + 1].pipe = n.pipe
                /\ [n EXCEPT !.model = @ + 1].model > n.model
                /\ [n EXCEPT !.model = @ + 1].model >= n.model
           /\ n.pipe \in 1..MaxRuns =>
                /\ [n EXCEPT !.pipe = @ + 1] \in NextIds
                /\ [n EXCEPT !.pipe = @ + 1].model = n.model
                /\ [n EXCEPT !.pipe = @ + 1].pipe > n.pipe
           /\ n.run \in 1..MaxRuns =>
                /\ [n EXCEPT !.run = @ + 1] \in NextIds
                /\ [n EXCEPT !.run = @ + 1].pipe = n.pipe
                /\ [n EXCEPT !.run = @ + 1].model = n.model
PROOF
<1>1. MaxModels \in Nat /\ MaxRuns \in Nat
  BY CatalogueAssumption
<1>2. /\ n.model \in 1..MaxModels => n.model + 1 \in 1..(MaxModels + 1)
      /\ n.pipe \in 1..MaxRuns => n.pipe + 1 \in 1..(MaxRuns + 1)
      /\ n.run \in 1..MaxRuns => n.run + 1 \in 1..(MaxRuns + 1)
  BY <1>1 DEF NextIds
<1> QED BY <1>1, <1>2 DEF NextIds

\* A request that ends leaves the others as they are.
LEMMA EndsRequests ==
    ASSUME IInv, NEW r \in Requests, req' = [req EXCEPT ![r] = Idle],
           type' = type, accepted \subseteq accepted', next'.pipe = next.pipe,
           \A q \in Requests \ {r} :
              Pending(req[q]) => pipes'[req[q].id] \in {pipes[req[q].id], Null}
    PROVE  /\ RequestsInv' /\ req' \in [Requests -> ReqType]
           /\ req'[r] = Idle /\ \A q \in Requests \ {r} : req'[q] = req[q]
           /\ \A p, q \in Requests :
                 p # q /\ Pending(req[p])' /\ Pending(req[q])' => req'[p].id # req'[q].id
PROOF
<1>1. req'[r] = Idle /\ \A q \in Requests \ {r} : req'[q] = req[q]
  BY DEF IInv, TypeOK
<1>2. req' \in [Requests -> ReqType]
  BY IdleType DEF IInv, TypeOK, ReqType
<1>3. next.pipe \in Nat
  BY CatalogueAssumption DEF IInv, TypeOK
<1>4. RequestsInv'
  BY <1>1, <1>3, OthersKeep, IdleHolds DEF RequestsInv
<1>5. \A q \in Requests : Pending(req[q])' => q # r /\ Pending(req[q]) /\ req'[q].id = req[q].id
  BY <1>1, IdleHolds DEF Pending
<1> QED BY <1>1, <1>2, <1>4, <1>5 DEF IInv, FreshInv

\* Before Airflow's answer a request holds no DAG run.
LEMMA NoRunYet ==
    ASSUME IInv, NEW r \in Requests, NEW S, At(r, S), "mark" \notin S, "record" \notin S
    PROVE  req[r].run = Null
PROOF
<1>1. req[r].todo # <<>> /\ Head(req[r].todo) \in S
  BY DEF At
<1> QED BY <1>1, Asked DEF RunInv

\* A refusal, and a commit that fails, change no table.
LEMMA RefuseKeeps ==
    ASSUME IInv, NEW r \in Requests, Refuse(r) \/ CommitFails(r)
    PROVE  IInv'
PROOF
<1>1. /\ req' = [req EXCEPT ![r] = Idle]
      /\ UNCHANGED <<type, models, pipes, procs, bucket, next, accepted>>
      /\ excused' \in {excused, excused \cup InFlight(r)}
      /\ req[r].run \in excused' \cup {Null}
  <2>1. CASE Refuse(r)
    <3>1. At(r, Questions) \/ At(r, {"remove"})
      BY <2>1 DEF Refuse
    <3>2. req[r].run = Null
      BY <3>1, NoRunYet DEF Questions
    <3> QED BY <2>1, <3>2 DEF Refuse, Ends
  <2>2. CASE CommitFails(r)
    BY <2>2 DEF CommitFails, Ends, InFlight
  <2> QED BY <2>1, <2>2
<1>2. /\ RequestsInv' /\ req' \in [Requests -> ReqType]
      /\ req'[r] = Idle /\ \A q \in Requests \ {r} : req'[q] = req[q]
      /\ \A p, q \in Requests :
            p # q /\ Pending(req[p])' /\ Pending(req[q])' => req'[p].id # req'[q].id
  BY <1>1, EndsRequests
<1>3. TypeOK'
  <2>1. excused' \subseteq RunIds
    BY <1>1, Asked DEF InFlight, IInv, TypeOK, ReqType, OrNull
  <2> QED BY <1>1, <1>2, <2>1 DEF IInv, TypeOK, ReqType
<1>4. FreshInv' /\ ReferencesHold'
  BY <1>1, <1>2 DEF IInv, FreshInv, ReferencesHold, Present
<1>5. AcceptedIsKnown'
  BY <1>1, <1>2, KnownKeeps
<1> QED BY <1>2, <1>3, <1>4, <1>5 DEF IInv

\* Airflow refuses, or its answer is an error.
LEMMA TriggerFailsKeeps ==
    ASSUME IInv, NEW r \in Requests, TriggerFails(r)
    PROVE  IInv'
PROOF
<1>1. /\ req' = [req EXCEPT ![r] = Idle] /\ next.run \in RunIds
      /\ UNCHANGED <<type, models, pipes, procs, bucket>>
      /\ next' = [next EXCEPT !.run = @ + 1]
      /\ \E created \in {{}, {next.run}} :
            accepted' = accepted \cup created /\ excused' = excused \cup created
  BY DEF TriggerFails, Ends
<1>2. next' \in [model : 1..(MaxModels + 1), pipe : 1..(MaxRuns + 1), run : 1..(MaxRuns + 1)]
      /\ next'.pipe = next.pipe /\ next'.model = next.model
  <2>1. next \in NextIds /\ next.run \in 1..MaxRuns
    BY <1>1 DEF IInv, TypeOK, RunIds, NextIds
  <2> QED BY <1>1, <2>1, NextGrows DEF NextIds
<1>3. /\ RequestsInv' /\ req' \in [Requests -> ReqType]
      /\ req'[r] = Idle /\ \A q \in Requests \ {r} : req'[q] = req[q]
      /\ \A p, q \in Requests :
            p # q /\ Pending(req[p])' /\ Pending(req[q])' => req'[p].id # req'[q].id
  BY <1>1, <1>2, EndsRequests
<1>4. TypeOK'
  BY <1>1, <1>2, <1>3 DEF IInv, TypeOK, ReqType
<1>5. FreshInv' /\ ReferencesHold'
  BY <1>1, <1>2, <1>3 DEF IInv, FreshInv, ReferencesHold, Present
<1>6. AcceptedIsKnown'
  <2>1. req[r].run = Null
    BY NoRunYet DEF TriggerFails
  <2>2. Null \notin accepted
    BY NullApart DEF IInv, TypeOK
  <2>3. \A n \in accepted' :
          \/ n \in excused'
          \/ \E q \in Requests : req'[q].run = n
          \/ \E i \in RunIds : n \in RunOf(i)
          \/ \E p \in procs : p.run = n
    BY <1>1, <1>3, <2>1, <2>2 DEF IInv, AcceptedIsKnown
  <2>4. \A i \in RunIds : RunOf(i)' = RunOf(i)
    BY <1>1 DEF RunOf
  <2> QED BY <1>1, <2>3, <2>4 DEF IInv, AcceptedIsKnown
<1> QED BY <1>3, <1>4, <1>5, <1>6 DEF IInv

\* What is written as a model is a row, on a data set that a handler has looked at.
LEMMA WritesRows ==
    ASSUME IInv, NEW r \in Requests, Insert(r) \/ Update(r) \/ Delete(r)
    PROVE  /\ models' \in [Ids -> OrNull(Rows)]
           /\ \A i \in Ids : models'[i] # models[i] /\ models'[i] # Null =>
                 /\ models'[i].ds = Null \/ type[models'[i].ds] = "PREPROCESSED"
                 /\ i <= next.model /\ (Update(r) \/ Delete(r) => models[i] # Null)
PROOF
<1> DEFINE c == req[r]
<1>0. c \in ReqType /\ Course(c) /\ ModelInv(c) /\ c.body \in Patches
  BY Asked
<1>1. CASE Insert(r)
  <2>1. /\ next.model \in Ids /\ Admits(c.body, next.model) /\ c.todo # <<>> /\ Head(c.todo) = "insert"
        /\ models' = [models EXCEPT ![next.model] = c.body]
    BY <1>1 DEF Insert, At
  <2>2. c.op \in {"create", "initiate"}
    BY <1>0, <2>1, Places
  <2>3. Stood(c.body.ds)
    BY <1>0, <2>1, <2>2 DEF ModelInv
  <2>4. c.body \in Rows /\ type[c.body.ds] = "PREPROCESSED"
    BY <1>0, <2>1, <2>3, NullApart DEF Admits, Present, Patches, Rows, OrNull, Stood
  <2>5. next.model <= next.model
    BY <2>1, CatalogueAssumption DEF Ids
  <2>6. ~(Update(r) \/ Delete(r))
    BY <2>1 DEF Update, Delete, At
  <2> QED BY <2>1, <2>4, <2>5, <2>6 DEF IInv, TypeOK, OrNull
<1>2. CASE Update(r)
  <2>1. /\ models[c.id] # Null /\ Admits(Written(r), c.id) /\ c.todo # <<>> /\ Head(c.todo) = "update"
        /\ models' = [models EXCEPT ![c.id] = Written(r)]
    BY <1>2 DEF Update, At
  <2>2. c.op = "update" /\ c.id \in Ids
    BY <1>0, <2>1, Places DEF ModelInv
  <2>3. models[c.id] \in Rows
    BY <2>1, <2>2 DEF IInv, TypeOK, OrNull
  <2>4. Changed(r) \subseteq c.dirty
    BY DEF Changed
  <2>5. /\ Written(r).key = IF "key" \in Changed(r) THEN c.body.key ELSE models[c.id].key
        /\ Written(r).enc = IF "enc" \in Changed(r) THEN c.body.enc ELSE models[c.id].enc
        /\ Written(r).cfg = IF "cfg" \in Changed(r) THEN c.body.cfg ELSE models[c.id].cfg
        /\ Written(r).ds = IF "ds" \in Changed(r) THEN c.body.ds ELSE models[c.id].ds
    BY DEF Written, Columns
  <2>6. Written(r) \in Rows
    <3>1. /\ Written(r).key \in Keys /\ Written(r).enc \in Keys /\ Written(r).cfg \in Keys
          /\ Written(r).ds \in OrNull(Datasets)
      BY <1>0, <2>1, <2>3, <2>5 DEF Admits, Patches, Rows, OrNull
    <3>2. Written(r) = [key |-> Written(r).key, enc |-> Written(r).enc, cfg |-> Written(r).cfg,
                        ds |-> Written(r).ds]
      BY DEF Written, Columns
    <3> QED BY <3>1, <3>2 DEF Rows
  <2>7. Written(r).ds = Null \/ type[Written(r).ds] = "PREPROCESSED"
    <3>1. CASE "ds" \in Changed(r)
      BY <1>0, <2>1, <2>4, <2>5, <3>1, NullApart DEF ModelInv, Stood, Admits, Present
    <3>2. CASE "ds" \notin Changed(r)
      BY <2>1, <2>2, <2>5, <3>2 DEF IInv, ReferencesHold
    <3> QED BY <3>1, <3>2
  <2>8. c.id <= next.model
    BY <2>1, <2>2, CatalogueAssumption DEF IInv, FreshInv, Ids, TypeOK
  <2> QED BY <2>1, <2>2, <2>6, <2>7, <2>8 DEF IInv, TypeOK, OrNull
<1>3. CASE Delete(r)
  BY <1>3 DEF Delete, IInv, TypeOK, OrNull
<1> QED BY <1>1, <1>2, <1>3

LEMMA ModelsKeep ==
    ASSUME IInv, NEW r \in Requests, Insert(r) \/ Update(r) \/ Delete(r)
    PROVE  IInv'
PROOF
<1>1. /\ req' = [req EXCEPT ![r] = Idle]
      /\ UNCHANGED <<type, pipes, procs, bucket, accepted, excused>>
      /\ At(r, {"insert", "update", "delete"})
  BY DEF Insert, Update, Delete, At
<1>2. /\ next' \in [model : 1..(MaxModels + 1), pipe : 1..(MaxRuns + 1), run : 1..(MaxRuns + 1)]
      /\ next'.pipe = next.pipe /\ next'.model >= next.model
      /\ Insert(r) => next'.model > next.model
  <2>1. CASE Insert(r)
    <3>1. next.model \in 1..MaxModels /\ next' = [next EXCEPT !.model = @ + 1]
      BY <2>1 DEF Insert, Ids
    <3>2. next \in NextIds
      BY DEF IInv, TypeOK, NextIds
    <3> QED BY <3>1, <3>2, NextGrows DEF NextIds
  <2>2. CASE Update(r) \/ Delete(r)
    <3>1. next' = next
      BY <2>2 DEF Update, Delete
    <3>2. ~Insert(r)
      BY <2>2 DEF Insert, Update, Delete, At
    <3> QED BY <3>1, <3>2, CatalogueAssumption DEF IInv, TypeOK
  <2> QED BY <2>1, <2>2
<1>3. /\ RequestsInv' /\ req' \in [Requests -> ReqType]
      /\ req'[r] = Idle /\ \A q \in Requests \ {r} : req'[q] = req[q]
      /\ \A p, q \in Requests :
            p # q /\ Pending(req[p])' /\ Pending(req[q])' => req'[p].id # req'[q].id
  BY <1>1, <1>2, EndsRequests
<1>4. TypeOK'
  BY <1>1, <1>2, <1>3, WritesRows DEF IInv, TypeOK, ReqType
<1>5. FreshInv'
  <2>1. \A i \in Ids : models'[i] # Null => i < next'.model
    <3> SUFFICES ASSUME NEW i \in Ids, models'[i] # Null PROVE i < next'.model
      OBVIOUS
    <3>1. i \in Nat /\ next.model \in Nat /\ next'.model \in Nat
      BY <1>2, CatalogueAssumption DEF Ids, IInv, TypeOK
    <3>2. CASE models[i] # Null
      BY <1>2, <3>1, <3>2 DEF IInv, FreshInv
    <3>3. CASE models[i] = Null
      <4>1. i <= next.model /\ Insert(r)
        BY <3>3, WritesRows
      <4> QED BY <1>2, <3>1, <4>1
    <3> QED BY <3>2, <3>3
  <2> QED BY <1>1, <1>2, <1>3, <2>1 DEF IInv, FreshInv
<1>6. ReferencesHold'
  BY <1>1, WritesRows DEF IInv, ReferencesHold, Present
<1>7. AcceptedIsKnown'
  <2>1. req[r].run = Null
    BY <1>1, NoRunYet
  <2> QED BY <1>1, <1>3, <2>1, KnownKeeps
<1> QED BY <1>3, <1>4, <1>5, <1>6, <1>7 DEF IInv

\* Mark, Record and Drop end a request of a run.
LEMMA LastKeeps ==
    ASSUME IInv, NEW r \in Requests, Mark(r) \/ Record(r) \/ Drop(r)
    PROVE  IInv'
PROOF
<1> DEFINE c == req[r]
<1>1. /\ req' = [req EXCEPT ![r] = Idle] /\ c.todo # <<>>
      /\ UNCHANGED <<type, models, bucket, next, accepted>>
  BY DEF Mark, Record, Drop, Ends, At
<1>2. c \in ReqType /\ Course(c) /\ ModelInv(c) /\ RunInv(c) /\ Null \notin accepted
  BY Asked, NullApart DEF IInv, TypeOK
<1>3. CASE Mark(r)
  <2> DEFINE row == [pipes[c.id] EXCEPT !.status = "RUNNING", !.run = c.run]
  <2>1. /\ Head(c.todo) = "mark" /\ pipes[c.id] # Null /\ UNCHANGED <<procs, excused>>
        /\ pipes' = [pipes EXCEPT ![c.id].status = "RUNNING", ![c.id].run = c.run]
    BY <1>3 DEF Mark, At
  <2>2. c.op = "run" /\ Pending(c) /\ c.run # Null /\ c.run \in accepted
    BY <1>1, <1>2, <2>1, Places DEF Pending, RunInv
  <2>3. c.id \in RunIds /\ c.id < next.pipe /\ pipes[c.id].run = Null /\ pipes[c.id] \in PipeRows
    BY <1>2, <2>1, <2>2 DEF RunInv, IInv, TypeOK, OrNull
  <2>4. /\ row \in PipeRows /\ row.ds = pipes[c.id].ds /\ row.run = c.run
        /\ pipes' = [pipes EXCEPT ![c.id] = row]
    <3>1. pipes' = [pipes EXCEPT ![c.id] = row]
      BY <2>1, <2>3 DEF IInv, TypeOK
    <3>2. c.run \in OrNull(RunIds)
      BY <1>2 DEF ReqType
    <3> QED BY <2>3, <3>1, <3>2 DEF PipeRows
  <2> HIDE DEF row
  <2>5. /\ pipes' \in [RunIds -> OrNull(PipeRows)] /\ pipes'[c.id] = row /\ row # Null
        /\ \A i \in RunIds \ {c.id} : pipes'[i] = pipes[i]
    BY <2>3, <2>4, NullApart DEF IInv, TypeOK, OrNull
  <2>6. \A q \in Requests \ {r} : Pending(req[q]) => pipes'[req[q].id] \in {pipes[req[q].id], Null}
    BY <2>2, <2>5 DEF IInv, FreshInv, RequestsInv, RunInv
  <2>7. /\ RequestsInv' /\ req' \in [Requests -> ReqType]
        /\ req'[r] = Idle /\ \A q \in Requests \ {r} : req'[q] = req[q]
        /\ \A p, q \in Requests :
              p # q /\ Pending(req[p])' /\ Pending(req[q])' => req'[p].id # req'[q].id
    BY <1>1, <2>6, EndsRequests
  <2>8. TypeOK'
    BY <1>1, <2>1, <2>5, <2>7 DEF IInv, TypeOK, ReqType
  <2>9. FreshInv'
    BY <1>1, <2>3, <2>5, <2>7 DEF IInv, FreshInv
  <2>10. ReferencesHold'
    <3>1. \A i \in RunIds : pipes'[i] # Null =>
                                pipes[i] # Null /\ pipes'[i].ds = pipes[i].ds
      BY <2>1, <2>4, <2>5
    <3>2. UNCHANGED <<type, models, procs>>
      BY <1>1, <2>1
    <3> QED BY <3>1, <3>2 DEF IInv, ReferencesHold, Present
  <2>11. AcceptedIsKnown'
    <3>1. \A i \in RunIds : RunOf(i)' = IF i = c.id THEN {c.run} ELSE RunOf(i)
      BY <2>2, <2>4, <2>5 DEF RunOf
    <3>2. RunOf(c.id) = {}
      BY <2>3 DEF RunOf
    <3>3. \A n \in accepted' :
            \/ n \in excused'
            \/ \E q \in Requests : req'[q].run = n
            \/ \E i \in RunIds : n \in RunOf(i)'
            \/ \E p \in procs' : p.run = n
      <4> SUFFICES ASSUME NEW n \in accepted
                   PROVE  \/ n \in excused
                          \/ \E q \in Requests : req'[q].run = n
                          \/ \E i \in RunIds : n \in RunOf(i)'
                          \/ \E p \in procs : p.run = n
        BY <1>1, <2>1
      <4>1. CASE \E i \in RunIds : n \in RunOf(i)
        BY <3>1, <3>2, <4>1
      <4>2. CASE n \in excused \/ \E p \in procs : p.run = n
        BY <4>2
      <4>3. CASE \E q \in Requests : req[q].run = n
        BY <2>3, <2>7, <3>1, <4>3
      <4> QED BY <4>1, <4>2, <4>3 DEF IInv, AcceptedIsKnown
    <3>4. \A i \in RunIds : pipes'[i] # Null /\ pipes'[i].status = "RUNNING" => pipes'[i].run \in accepted'
      BY <1>1, <2>2, <2>4, <2>5 DEF IInv, AcceptedIsKnown
    <3> QED BY <3>3, <3>4 DEF AcceptedIsKnown
  <2> QED BY <2>7, <2>8, <2>9, <2>10, <2>11 DEF IInv
<1>4. CASE Record(r)
  <2>1. /\ Head(c.todo) = "record" /\ Present(c.body.ds) /\ UNCHANGED <<pipes, excused>>
        /\ procs' = procs \cup {[run |-> c.run, ds |-> c.body.ds]}
    BY <1>4 DEF Record, At
  <2>2. c.run # Null /\ c.run \in RunIds /\ c.body.ds \in OrNull(Datasets)
    BY <1>1, <1>2, <2>1, Places DEF RunInv, ReqType, Patches, OrNull
  <2>3. /\ RequestsInv' /\ req' \in [Requests -> ReqType]
        /\ req'[r] = Idle /\ \A q \in Requests \ {r} : req'[q] = req[q]
        /\ \A p, q \in Requests :
              p # q /\ Pending(req[p])' /\ Pending(req[q])' => req'[p].id # req'[q].id
    BY <1>1, <2>1, EndsRequests
  <2>4. TypeOK'
    <3>1. [run |-> c.run, ds |-> c.body.ds] \in [run : RunIds, ds : OrNull(Datasets)]
      BY <2>2
    <3>2. procs' \subseteq [run : RunIds, ds : OrNull(Datasets)]
      BY <2>1, <3>1 DEF IInv, TypeOK
    <3> QED BY <1>1, <2>1, <2>3, <3>2 DEF IInv, TypeOK, ReqType
  <2>5. FreshInv' /\ ReferencesHold'
    BY <1>1, <2>1, <2>3 DEF IInv, FreshInv, ReferencesHold, Present
  <2>6. AcceptedIsKnown'
    <3>1. \E p \in procs' : p.run = c.run
      <4>1. [run |-> c.run, ds |-> c.body.ds] \in procs'
        BY <2>1
      <4> QED BY <4>1
    <3> QED BY <1>1, <2>1, <2>3, <3>1, KnownKeeps
  <2> QED BY <2>3, <2>4, <2>5, <2>6 DEF IInv
<1>5. CASE Drop(r)
  <2>1. /\ Head(c.todo) = "drop" /\ procs' = procs
        /\ pipes' = [pipes EXCEPT ![c.id] = Null] /\ excused' = excused \cup RunOf(c.id)
    BY <1>5 DEF Drop, At
  <2>2. c.id \in RunIds /\ c.run = Null
    BY <1>1, <1>2, <2>1, Places DEF ModelInv, RunInv
  <2>3. /\ pipes' \in [RunIds -> OrNull(PipeRows)] /\ pipes'[c.id] = Null
        /\ \A i \in RunIds \ {c.id} : pipes'[i] = pipes[i]
    BY <2>1, <2>2 DEF IInv, TypeOK, OrNull
  <2>4. \A q \in Requests \ {r} : Pending(req[q]) => pipes'[req[q].id] \in {pipes[req[q].id], Null}
    BY <2>3 DEF IInv, RequestsInv, RunInv
  <2>5. /\ RequestsInv' /\ req' \in [Requests -> ReqType]
        /\ req'[r] = Idle /\ \A q \in Requests \ {r} : req'[q] = req[q]
        /\ \A p, q \in Requests :
              p # q /\ Pending(req[p])' /\ Pending(req[q])' => req'[p].id # req'[q].id
    BY <1>1, <2>4, EndsRequests
  <2>6. TypeOK'
    <3>1. RunOf(c.id) \subseteq RunIds
      BY <2>2 DEF RunOf, IInv, TypeOK, OrNull, PipeRows
    <3> QED BY <1>1, <2>1, <2>3, <2>5, <3>1 DEF IInv, TypeOK, ReqType
  <2>7. FreshInv' /\ ReferencesHold'
    BY <1>1, <2>1, <2>3, <2>5 DEF IInv, FreshInv, ReferencesHold, Present
  <2>8. AcceptedIsKnown'
    <3>1. \A i \in RunIds \ {c.id} : RunOf(i)' = RunOf(i)
      BY <2>3 DEF RunOf
    <3>2. \A n \in accepted' :
            \/ n \in excused'
            \/ \E q \in Requests : req'[q].run = n
            \/ \E i \in RunIds : n \in RunOf(i)'
            \/ \E p \in procs' : p.run = n
      BY <1>1, <1>2, <2>1, <2>2, <2>5, <3>1 DEF IInv, AcceptedIsKnown
    <3>3. \A i \in RunIds : pipes'[i] # Null /\ pipes'[i].status = "RUNNING" => pipes'[i].run \in accepted'
      BY <1>1, <2>3 DEF IInv, AcceptedIsKnown
    <3> QED BY <3>2, <3>3 DEF AcceptedIsKnown
  <2> QED BY <2>5, <2>6, <2>7, <2>8 DEF IInv
<1> QED BY <1>3, <1>4, <1>5

\* The object is deleted, a row is committed before Airflow is asked, Airflow answers:
\* the handler goes on.
LEMMA OnwardKeeps ==
    ASSUME IInv, NEW r \in Requests, Remove(r) \/ Pend(r) \/ Trigger(r)
    PROVE  IInv'
PROOF
<1> DEFINE c == req[r]
           d == req'[r]
           s == Head(c.todo)
<1>1. /\ c \in ReqType /\ Course(c) /\ ModelInv(c) /\ RunInv(c) /\ c.todo # <<>>
      /\ s \in {"remove", "pending", "trigger"} /\ c.todo \in Seq(Steps)
  BY Asked DEF Remove, Pend, Trigger, At
<1>2. /\ Remove(r) <=> s = "remove"
      /\ Pend(r) <=> s = "pending"
      /\ Trigger(r) <=> s = "trigger"
  BY <1>1 DEF Remove, Pend, Trigger, At
<1>3. c.op \in {"delete", "run", "generate"} /\ c.op # "none"
  BY <1>1, Places
<1>4. /\ d.op = c.op /\ d.todo = Tail(c.todo) /\ d.body = c.body /\ d.dirty = c.dirty
      /\ d.id = IF s = "pending" THEN next.pipe ELSE c.id
      /\ d.run = IF s = "trigger" THEN next.run ELSE c.run
      /\ d \in ReqType /\ req' \in [Requests -> ReqType] /\ \A q \in Requests \ {r} : req'[q] = req[q]
  <2>1. Tail(c.todo) \in Seq(Steps)
    BY <1>1, TailType
  <2>2. CASE Remove(r)
    <3>1. req' = [req EXCEPT ![r] = [c EXCEPT !.todo = Tail(@)]] /\ s = "remove"
      BY <1>2, <2>2 DEF Remove, Proceed
    <3> QED BY <1>1, <2>1, <3>1 DEF IInv, TypeOK, ReqType
  <2>3. CASE Pend(r)
    <3>1. /\ req' = [req EXCEPT ![r] = [[c EXCEPT !.id = next.pipe] EXCEPT !.todo = Tail(@)]]
          /\ s = "pending" /\ next.pipe \in RunIds
      BY <1>2, <2>3 DEF Pend, Proceed
    <3> QED BY <1>1, <2>1, <3>1 DEF IInv, TypeOK, ReqType, OrNull
  <2>4. CASE Trigger(r)
    <3>1. /\ req' = [req EXCEPT ![r] = [[c EXCEPT !.run = next.run] EXCEPT !.todo = Tail(@)]]
          /\ s = "trigger" /\ next.run \in RunIds
      BY <1>2, <2>4 DEF Trigger, Proceed
    <3> QED BY <1>1, <2>1, <3>1 DEF IInv, TypeOK, ReqType, OrNull
  <2> QED BY <2>2, <2>3, <2>4
<1>5. /\ Course(req[r])'
      /\ s = "trigger" <=> Head(d.todo) \in {"mark", "record"}
      /\ s = "pending" => Head(d.todo) = "conf"
  <2>1. Course(d)
    BY <1>1, <1>3, <1>4, NextStep
  <2>2. s = "trigger" <=> Head(d.todo) \in {"mark", "record"}
    BY <1>1, <1>3, <1>4, NextStep
  <2>3. s = "pending" => Head(d.todo) = "conf"
    BY <1>1, <1>3, <1>4, NextStep, Places
  <2> QED BY <2>1, <2>2, <2>3 DEF Course
<1>6. UNCHANGED <<type, models, procs, excused>>
  BY DEF Remove, Pend, Trigger, tables
<1>7. ModelInv(req[r])'
  <2>1. s = "pending" => c.op = "run"
    BY <1>1, Places
  <2>2. d.id = c.id \/ c.op = "run"
    BY <1>4, <2>1
  <2>3. \A x : Stood(x)' <=> Stood(x)
    BY <1>6 DEF Stood
  <2> QED BY <1>1, <1>3, <1>4, <2>2, <2>3 DEF ModelInv
<1>8. next \in NextIds /\ MaxRuns \in Nat /\ MaxModels \in Nat
  BY CatalogueAssumption DEF IInv, TypeOK, NextIds
<1>9. CASE Remove(r)
  <2>1. /\ UNCHANGED <<type, models, pipes, procs, next, accepted, excused>>
        /\ bucket' \subseteq bucket /\ s = "remove"
    BY <1>2, <1>9 DEF Remove, tables
  <2>2. c.op = "delete" /\ c.run = Null
    BY <1>1, <2>1, Places DEF RunInv
  <2>3. RunInv(req[r])' /\ ~Pending(req[r])'
    BY <1>4, <1>5, <2>1, <2>2 DEF RunInv, Pending
  <2>4. RequestsInv'
    BY <1>4, <1>5, <1>7, <1>8, <2>1, <2>3, OthersKeep DEF RequestsInv, NextIds
  <2>5. TypeOK'
    BY <1>4, <2>1 DEF IInv, TypeOK, ReqType
  <2>6. FreshInv' /\ ReferencesHold'
    <3>1. \A q \in Requests : Pending(req[q])' => Pending(req[q]) /\ req'[q].id = req[q].id
      BY <1>4, <2>3 DEF Pending
    <3>2. FreshInv'
      BY <2>1, <3>1 DEF IInv, FreshInv
    <3>3. ReferencesHold'
      BY <2>1 DEF IInv, ReferencesHold, Present
    <3> QED BY <3>2, <3>3
  <2>7. AcceptedIsKnown'
    BY <1>4, <2>1, <2>2, KnownKeeps
  <2> QED BY <2>4, <2>5, <2>6, <2>7 DEF IInv
<1>10. CASE Pend(r)
  <2> DEFINE row == [ds |-> c.body.ds, status |-> "PENDING", run |-> Null]
  <2>1. /\ next.pipe \in RunIds /\ Present(c.body.ds) /\ s = "pending"
        /\ pipes' = [pipes EXCEPT ![next.pipe] = row]
        /\ next' = [next EXCEPT !.pipe = @ + 1]
        /\ UNCHANGED <<type, models, procs, bucket, accepted, excused>>
    BY <1>2, <1>10 DEF Pend
  <2>2. c.op = "run" /\ c.run = Null
    BY <1>1, <2>1, Places DEF RunInv
  <2>3. row \in PipeRows /\ row.ds = c.body.ds /\ row.status = "PENDING" /\ row.run = Null
        /\ type[c.body.ds] # "gone"
    BY <1>1, <2>1, <2>2 DEF PipeRows, OrNull, RunInv, ReqType, Patches, Present
  <2> HIDE DEF row
  <2>4. /\ next' \in NextIds /\ next'.model = next.model /\ next'.pipe > next.pipe
        /\ next.pipe \in Nat /\ next'.pipe \in Nat
    BY <1>8, <2>1, NextGrows DEF RunIds, NextIds
  <2>5. /\ pipes' \in [RunIds -> OrNull(PipeRows)] /\ pipes'[next.pipe] = row
        /\ \A i \in RunIds \ {next.pipe} : pipes'[i] = pipes[i]
    BY <2>1, <2>3 DEF IInv, TypeOK, OrNull
  <2>6. \A q \in Requests : Pending(req[q]) => req[q].id # next.pipe /\ req[q].id \in RunIds
    BY <2>4 DEF IInv, RequestsInv, RunInv, RunIds
  <2>7. RunInv(req[r])'
    BY <1>1, <1>4, <1>5, <2>1, <2>2, <2>3, <2>4, <2>5 DEF RunInv, Pending
  <2>8. RequestsInv'
    BY <1>4, <1>5, <1>7, <2>1, <2>4, <2>5, <2>6, <2>7, OthersKeep DEF RequestsInv
  <2>9. TypeOK'
    BY <1>4, <2>1, <2>4, <2>5 DEF IInv, TypeOK, ReqType, NextIds
  <2>10. FreshInv'
    <3>1. \A i \in Ids : models'[i] # Null => i < next'.model
      BY <2>1, <2>4 DEF IInv, FreshInv
    <3>2. \A i \in RunIds : pipes'[i] # Null => i < next'.pipe
      BY <2>4, <2>5, <1>8 DEF IInv, FreshInv, RunIds
    <3>3. \A p, q \in Requests :
             p # q /\ Pending(req[p])' /\ Pending(req[q])' => req'[p].id # req'[q].id
      BY <1>4, <2>1, <2>6 DEF IInv, FreshInv, Pending
    <3> QED BY <3>1, <3>2, <3>3 DEF FreshInv
  <2>11. ReferencesHold'
    BY <2>1, <2>3, <2>5 DEF IInv, ReferencesHold, Present
  <2>12. AcceptedIsKnown'
    <3>1. pipes[next.pipe] = Null
      BY <2>1, <2>4 DEF IInv, FreshInv
    <3>2. \A i \in RunIds : RunOf(i)' = RunOf(i)
      BY <2>1, <2>3, <2>5, <3>1 DEF RunOf
    <3>3. \A q \in Requests : req'[q].run = req[q].run
      BY <1>4, <2>1
    <3>4. \A i \in RunIds : pipes'[i] # Null /\ pipes'[i].status = "RUNNING" => pipes'[i].run \in accepted'
      BY <2>1, <2>3, <2>5 DEF IInv, AcceptedIsKnown
    <3>5. \A n \in accepted' :
            \/ n \in excused'
            \/ \E q \in Requests : req'[q].run = n
            \/ \E i \in RunIds : n \in RunOf(i)'
            \/ \E p \in procs' : p.run = n
      BY <2>1, <3>2, <3>3 DEF IInv, AcceptedIsKnown
    <3> QED BY <3>4, <3>5 DEF AcceptedIsKnown
  <2> QED BY <2>8, <2>9, <2>10, <2>11, <2>12 DEF IInv
<1>11. CASE Trigger(r)
  <2>1. /\ next.run \in RunIds /\ accepted' = accepted \cup {next.run} /\ s = "trigger"
        /\ next' = [next EXCEPT !.run = @ + 1]
        /\ UNCHANGED <<type, models, pipes, procs, bucket, excused>>
    BY <1>2, <1>11 DEF Trigger, tables
  <2>2. /\ next' \in NextIds /\ next'.model = next.model /\ next'.pipe = next.pipe
        /\ next.pipe \in Nat /\ next.run # Null /\ c.run = Null
    <3>1. next' \in NextIds /\ next'.model = next.model /\ next'.pipe = next.pipe
      BY <1>8, <2>1, NextGrows DEF RunIds
    <3>2. next.run # Null
      BY <2>1, NullApart
    <3>3. c.run = Null
      BY <1>1, <2>1 DEF RunInv
    <3> QED BY <1>8, <3>1, <3>2, <3>3 DEF NextIds
  <2>3. RunInv(req[r])'
    <3>1. c.op = "run" => Pending(c)
      BY <2>1 DEF Pending
    <3> QED BY <1>1, <1>3, <1>4, <1>5, <2>1, <2>2, <3>1 DEF RunInv, Pending
  <2>4. RequestsInv'
    BY <1>4, <1>5, <1>7, <2>1, <2>2, <2>3, OthersKeep DEF RequestsInv
  <2>5. TypeOK'
    BY <1>4, <2>1, <2>2 DEF IInv, TypeOK, ReqType, NextIds
  <2>6. FreshInv'
    <3>1. \A q \in Requests : Pending(req[q])' => Pending(req[q]) /\ req'[q].id = req[q].id
      BY <1>4, <2>1 DEF Pending
    <3> QED BY <2>1, <2>2, <3>1 DEF IInv, FreshInv
  <2>7. ReferencesHold'
    BY <2>1 DEF IInv, ReferencesHold, Present
  <2>8. AcceptedIsKnown'
    <3>1. \A i \in RunIds : RunOf(i)' = RunOf(i)
      BY <2>1 DEF RunOf
    <3>2. \A q \in Requests : req'[q].run = IF q = r THEN next.run ELSE req[q].run
      BY <1>4, <2>1
    <3>3. Null \notin accepted
      BY NullApart DEF IInv, TypeOK
    <3>4. \A n \in accepted' :
            \/ n \in excused'
            \/ \E q \in Requests : req'[q].run = n
            \/ \E i \in RunIds : n \in RunOf(i)'
            \/ \E p \in procs' : p.run = n
      BY <2>1, <2>2, <3>1, <3>2, <3>3 DEF IInv, AcceptedIsKnown
    <3>5. \A i \in RunIds : pipes'[i] # Null /\ pipes'[i].status = "RUNNING" => pipes'[i].run \in accepted'
      BY <2>1 DEF IInv, AcceptedIsKnown
    <3> QED BY <3>4, <3>5 DEF AcceptedIsKnown
  <2> QED BY <2>4, <2>5, <2>6, <2>7, <2>8 DEF IInv
<1> QED BY <1>9, <1>10, <1>11

\* A data set is deleted: the database sees to the rows that name it.
LEMMA DeletionKeeps ==
    ASSUME IInv, NEW d \in Datasets, DeleteDataset(d)
    PROVE  IInv'
PROOF
<1> DEFINE orphans == {i \in RunIds : pipes[i] # Null /\ pipes[i].ds = d}
<1>1. /\ type' = [type EXCEPT ![d] = "gone"]
      /\ models' = [i \in Ids |-> IF models[i] # Null /\ models[i].ds = d
                                  THEN [models[i] EXCEPT !.ds = Null] ELSE models[i]]
      /\ pipes' = [i \in RunIds |-> IF i \in orphans THEN Null ELSE pipes[i]]
      /\ procs' = {[p EXCEPT !.ds = IF @ = d THEN Null ELSE @] : p \in procs}
      /\ excused' = excused \cup UNION {RunOf(i) : i \in orphans}
      /\ UNCHANGED <<bucket, next, accepted, req>>
  BY DEF DeleteDataset
<1>2. /\ type' \in [Datasets -> {"RAW", "PREPROCESSED", "gone"}] /\ type'[d] = "gone"
      /\ \A e \in Datasets \ {d} : type'[e] = type[e]
  BY <1>1 DEF IInv, TypeOK
<1>3. \A i \in Ids : /\ models'[i] \in OrNull(Rows)
                     /\ models'[i] # Null => models[i] # Null /\ models'[i].ds # d
                     /\ models'[i] # Null => models'[i].ds \in {Null, models[i].ds}
  <2> TAKE i \in Ids
  <2>1. CASE models[i] # Null /\ models[i].ds = d
    <3>1. models[i] \in Rows /\ models'[i] = [models[i] EXCEPT !.ds = Null]
      BY <1>1, <2>1 DEF IInv, TypeOK, OrNull
    <3> QED BY <2>1, <3>1, NullApart DEF Rows, OrNull
  <2>2. CASE ~(models[i] # Null /\ models[i].ds = d)
    BY <1>1, <2>2 DEF IInv, TypeOK
  <2> QED BY <2>1, <2>2
<1>4. \A i \in RunIds : pipes'[i] = IF i \in orphans THEN Null ELSE pipes[i]
  BY <1>1
<1>5. \A p \in procs : /\ [p EXCEPT !.ds = IF @ = d THEN Null ELSE @] \in [run : RunIds, ds : OrNull(Datasets)]
                       /\ [p EXCEPT !.ds = IF @ = d THEN Null ELSE @].run = p.run
                       /\ [p EXCEPT !.ds = IF @ = d THEN Null ELSE @].ds = IF p.ds = d THEN Null ELSE p.ds
  <2> SUFFICES ASSUME NEW p \in [run : RunIds, ds : OrNull(Datasets)]
               PROVE  /\ [p EXCEPT !.ds = IF @ = d THEN Null ELSE @] \in [run : RunIds, ds : OrNull(Datasets)]
                      /\ [p EXCEPT !.ds = IF @ = d THEN Null ELSE @].run = p.run
                      /\ [p EXCEPT !.ds = IF @ = d THEN Null ELSE @].ds = IF p.ds = d THEN Null ELSE p.ds
    BY DEF IInv, TypeOK
  <2> QED BY DEF OrNull
<1>6. TypeOK'
  <2>1. models' \in [Ids -> OrNull(Rows)]
    BY <1>1, <1>3
  <2>2. pipes' \in [RunIds -> OrNull(PipeRows)]
    BY <1>1 DEF IInv, TypeOK, OrNull
  <2>3. procs' \subseteq [run : RunIds, ds : OrNull(Datasets)]
    BY <1>1, <1>5
  <2>4. excused' \subseteq RunIds
    <3>1. \A i \in orphans : RunOf(i) \subseteq RunIds
      BY DEF RunOf, IInv, TypeOK, OrNull, PipeRows
    <3> QED BY <1>1, <3>1 DEF IInv, TypeOK
  <2> QED BY <1>1, <1>2, <2>1, <2>2, <2>3, <2>4 DEF IInv, TypeOK
<1>7. RequestsInv'
  <2>1. next.pipe \in Nat
    BY CatalogueAssumption DEF IInv, TypeOK
  <2>2. \A q \in Requests : Pending(req[q]) => pipes'[req[q].id] \in {pipes[req[q].id], Null}
    <3> SUFFICES ASSUME NEW q \in Requests, Pending(req[q])
                 PROVE  pipes'[req[q].id] \in {pipes[req[q].id], Null}
      OBVIOUS
    <3>1. req[q].id \in RunIds
      BY Asked DEF RunInv
    <3>2. CASE req[q].id \in orphans
      <4>1. pipes'[req[q].id] = Null
        BY <1>4, <3>1, <3>2
      <4> QED BY <4>1
    <3>3. CASE req[q].id \notin orphans
      <4>1. pipes'[req[q].id] = pipes[req[q].id]
        BY <1>4, <3>1, <3>3
      <4> QED BY <4>1
    <3> QED BY <3>2, <3>3
  <2>3. type' = [type EXCEPT ![d] = "gone"] /\ accepted' = accepted /\ next' = next /\ req' = req
    BY <1>1
  <2> SUFFICES ASSUME NEW q \in Requests
               PROVE  (Course(req[q]) /\ ModelInv(req[q]) /\ RunInv(req[q]))'
    BY DEF RequestsInv
  <2>4. req'[q] = req[q] /\ accepted \subseteq accepted'
    BY <2>3
  <2>5. next'.pipe = next.pipe
    BY <2>3
  <2>6. next.pipe <= next'.pipe /\ next'.pipe \in Nat
    BY <2>1, <2>5
  <2>7. \E e \in Datasets : type' = [type EXCEPT ![e] = "gone"]
    BY <2>3
  <2> QED BY <2>2, <2>4, <2>6, <2>7, OthersKeep
<1>8. FreshInv'
  BY <1>1, <1>3, <1>4 DEF IInv, FreshInv, Pending
<1>9. ReferencesHold'
  <2>1. \A i \in Ids : models'[i] # Null => models'[i].ds = Null \/ type'[models'[i].ds] = "PREPROCESSED"
    <3> SUFFICES ASSUME NEW i \in Ids, models'[i] # Null, models'[i].ds # Null
                 PROVE  type'[models'[i].ds] = "PREPROCESSED"
      OBVIOUS
    <3>1. models'[i].ds = models[i].ds /\ models[i] # Null /\ models[i].ds # d
      BY <1>3
    <3>2. models[i].ds \in Datasets /\ type[models[i].ds] = "PREPROCESSED"
      BY <3>1 DEF IInv, ReferencesHold, TypeOK, OrNull, Rows
    <3> QED BY <1>2, <3>1, <3>2
  <2>2. \A i \in RunIds : pipes'[i] # Null => type'[pipes'[i].ds] # "gone"
    <3> SUFFICES ASSUME NEW i \in RunIds, pipes'[i] # Null PROVE type'[pipes'[i].ds] # "gone"
      OBVIOUS
    <3>1. pipes'[i] = pipes[i] /\ pipes[i] # Null /\ pipes[i].ds # d
      BY <1>4
    <3>2. pipes[i].ds \in Datasets /\ type[pipes[i].ds] # "gone"
      BY <3>1 DEF IInv, ReferencesHold, TypeOK, OrNull, PipeRows
    <3> QED BY <1>2, <3>1, <3>2
  <2>3. \A p \in procs' : Present(p.ds)'
    <3> SUFFICES ASSUME NEW p \in procs, p.ds # d, p.ds # Null PROVE type'[p.ds] # "gone"
      BY <1>1, <1>5 DEF Present
    <3>1. p.ds \in Datasets /\ type[p.ds] # "gone"
      BY DEF IInv, ReferencesHold, Present, TypeOK, OrNull
    <3> QED BY <1>2, <3>1
  <2> QED BY <2>1, <2>2, <2>3 DEF ReferencesHold, Present
<1>10. AcceptedIsKnown'
  <2>1. \A i \in RunIds : RunOf(i)' = IF i \in orphans THEN {} ELSE RunOf(i)
    BY <1>4 DEF RunOf
  <2>2. \A i \in orphans : RunOf(i) \subseteq excused'
    BY <1>1
  <2>3. \A p \in procs : \E q \in procs' : q.run = p.run
    BY <1>1, <1>5
  <2>4. \A n \in accepted' :
          \/ n \in excused'
          \/ \E q \in Requests : req'[q].run = n
          \/ \E i \in RunIds : n \in RunOf(i)'
          \/ \E p \in procs' : p.run = n
    <3> SUFFICES ASSUME NEW n \in accepted
                 PROVE  \/ n \in excused'
                        \/ \E q \in Requests : req'[q].run = n
                        \/ \E i \in RunIds : n \in RunOf(i)'
                        \/ \E p \in procs' : p.run = n
      BY <1>1
    <3>1. CASE \E i \in RunIds : n \in RunOf(i)
      BY <2>1, <2>2, <3>1
    <3>2. CASE n \in excused \/ \E q \in Requests : req[q].run = n
      BY <1>1, <3>2
    <3>3. CASE \E p \in procs : p.run = n
      BY <2>3, <3>3
    <3> QED BY <3>1, <3>2, <3>3 DEF IInv, AcceptedIsKnown
  <2>5. \A i \in RunIds : pipes'[i] # Null /\ pipes'[i].status = "RUNNING" => pipes'[i].run \in accepted'
    BY <1>1, <1>4 DEF IInv, AcceptedIsKnown
  <2> QED BY <2>4, <2>5 DEF AcceptedIsKnown
<1> QED BY <1>6, <1>7, <1>8, <1>9, <1>10 DEF IInv

\* The backend dies: what it held in memory is excused.
LEMMA RestartKeeps ==
    ASSUME IInv, Restart
    PROVE  IInv'
PROOF
<1>1. /\ req' = [r \in Requests |-> Idle]
      /\ excused' = excused \cup UNION {InFlight(r) : r \in Requests}
      /\ UNCHANGED <<type, models, pipes, procs, bucket, next, accepted>>
  BY DEF Restart, tables
<1>2. \A r \in Requests : req'[r] = Idle
  BY <1>1
<1>3. TypeOK'
  <2>1. req' \in [Requests -> ReqType]
    BY <1>1, IdleType
  <2>2. \A r \in Requests : InFlight(r) \subseteq RunIds
    BY Asked DEF InFlight, ReqType, OrNull
  <2>3. excused' \subseteq RunIds
    BY <1>1, <2>2 DEF IInv, TypeOK
  <2> QED BY <1>1, <2>1, <2>3 DEF IInv, TypeOK, ReqType
<1>4. RequestsInv'
  BY <1>2, IdleHolds DEF RequestsInv
<1>5. FreshInv'
  BY <1>1, <1>2, IdleHolds DEF IInv, FreshInv
<1>6. ReferencesHold'
  BY <1>1 DEF IInv, ReferencesHold, Present
<1>7. AcceptedIsKnown'
  <2>1. \A q \in Requests : req[q].run \in excused' \cup {Null}
    BY <1>1 DEF InFlight
  <2> QED BY <1>1, <2>1, KnownKeeps
<1> QED BY <1>3, <1>4, <1>5, <1>6, <1>7 DEF IInv

\* Every step keeps IInv.
LEMMA NextKeeps == IInv /\ [Next]_vars => IInv'
PROOF
<1> SUFFICES ASSUME IInv, [Next]_vars PROVE IInv'
  OBVIOUS
<1>1. ASSUME NEW r \in Requests, Step(r) PROVE IInv'
  BY <1>1, BeginKeeps, CheckKeeps, RefuseKeeps, TriggerFailsKeeps, ModelsKeep, LastKeeps,
     OnwardKeeps DEF Step
<1>2. ASSUME NEW d \in Datasets, DeleteDataset(d) PROVE IInv'
  BY <1>2, DeletionKeeps
<1>3. ASSUME Restart PROVE IInv'
  BY <1>3, RestartKeeps
<1>4. ASSUME UNCHANGED vars PROVE IInv'
  <2>1. UNCHANGED <<type, models, pipes, procs, bucket, next, accepted, req, excused>>
    BY <1>4 DEF vars, tables
  <2>2. TypeOK' /\ FreshInv'
    BY <2>1 DEF IInv, TypeOK, FreshInv, Pending
  <2>3. RequestsInv'
    BY <2>1 DEF IInv, RequestsInv, Course, ModelInv, RunInv, Stood, Pending
  <2>4. ReferencesHold' /\ AcceptedIsKnown'
    BY <2>1 DEF IInv, ReferencesHold, Present, AcceptedIsKnown, RunOf
  <2> QED BY <2>2, <2>3, <2>4 DEF IInv
<1> QED BY <1>1, <1>2, <1>3, <1>4 DEF Next

LEMMA Invariance == Spec => []IInv
PROOF BY InitIInv, NextKeeps, PTL DEF Spec

-----------------------------------------------------------------------------
(* The theorems.                                                           *)

\* The variables keep their types, for any number of requests, data sets and rows.
THEOREM TypeCorrect == Spec => []TypeOK
PROOF
<1>1. IInv => TypeOK
  BY DEF IInv
<1> QED BY <1>1, Invariance, PTL

\* The foreign keys of schemas.py: no row refers to a data set that is gone, and a model
\* stands on a PREPROCESSED one, although handlers look long before they commit.
THEOREM ReferencesAlwaysHold == Spec => []ReferencesHold
PROOF
<1>1. IInv => ReferencesHold
  BY DEF IInv
<1> QED BY <1>1, Invariance, PTL

\* PipelineService.create_run and trigger_generate_run: a DAG run that no row names was
\* lost to a failure, or deleted by a user.
THEOREM AcceptedRunsAreKnown == Spec => []AcceptedIsKnown
PROOF
<1>1. IInv => AcceptedIsKnown
  BY DEF IInv
<1> QED BY <1>1, Invariance, PTL

\* A step that is not a commit of a model, a deletion of one or of a data set leaves the
\* models alone.
LEMMA ModelsAreLeft ==
    ASSUME IInv, [Next]_vars, models' # models
    PROVE  \/ \E r \in Requests : Insert(r) \/ Update(r) \/ Delete(r)
           \/ \E d \in Datasets : DeleteDataset(d)
PROOF
<1>1. ASSUME NEW r \in Requests, Step(r), ~(Insert(r) \/ Update(r) \/ Delete(r)) PROVE models' = models
  BY <1>1 DEF Step, Arrive, ArriveToDelete, Begin, Check, Refuse, Remove, Pend, Trigger, TriggerFails,
     Mark, Record, Drop, CommitFails, Ends, tables
<1>2. ASSUME Restart \/ UNCHANGED vars PROVE models' = models
  BY <1>2 DEF Restart, vars, tables
<1> QED BY <1>1, <1>2 DEF Next

\* update_trained_model: a PATCH reaches the table with all the fields it brings that
\* differ, or not at all.
THEOREM PatchesAreWhole == Spec => NoHalfPatch
PROOF
<1> DEFINE A == \A i \in Ids : models[i] # Null /\ models'[i] \notin {Null, models[i]} =>
          \/ \E d \in Datasets : type'[d] = "gone" /\ models'[i] = [models[i] EXCEPT !.ds = Null]
          \/ \E r \in Requests :
                /\ req[r].todo = <<"update">> /\ req[r].id = i
                /\ \A c \in Columns : req[r].body[c] \notin {Null, req[r].loaded[c]} =>
                      models'[i][c] = req[r].body[c]
<1>1. IInv /\ [Next]_vars => [A]_vars
  <2> SUFFICES ASSUME IInv, [Next]_vars, NEW i \in Ids,
                      models[i] # Null, models'[i] \notin {Null, models[i]}
               PROVE  \/ \E d \in Datasets : type'[d] = "gone" /\ models'[i] = [models[i] EXCEPT !.ds = Null]
                      \/ \E r \in Requests :
                            /\ req[r].todo = <<"update">> /\ req[r].id = i
                            /\ \A c \in Columns : req[r].body[c] \notin {Null, req[r].loaded[c]} =>
                                  models'[i][c] = req[r].body[c]
    OBVIOUS
  <2>1. ASSUME NEW d \in Datasets, DeleteDataset(d)
        PROVE  type'[d] = "gone" /\ models'[i] = [models[i] EXCEPT !.ds = Null]
    BY <2>1 DEF DeleteDataset, IInv, TypeOK
  <2>2. ASSUME NEW r \in Requests, Insert(r) PROVE FALSE
    <3>1. next.model \in Ids /\ models' = [models EXCEPT ![next.model] = req[r].body]
      BY <2>2 DEF Insert
    <3>2. i = next.model
      BY <3>1 DEF IInv, TypeOK
    <3>3. ~(next.model < next.model)
      BY <3>1 DEF Ids
    <3> QED BY <3>2, <3>3 DEF IInv, FreshInv
  <2>3. ASSUME NEW r \in Requests, Delete(r) PROVE FALSE
    BY <2>3 DEF Delete, IInv, TypeOK
  <2>4. ASSUME NEW r \in Requests, Update(r)
        PROVE  /\ req[r].todo = <<"update">> /\ req[r].id = i
               /\ \A c \in Columns : req[r].body[c] \notin {Null, req[r].loaded[c]} =>
                     models'[i][c] = req[r].body[c]
    <3>1. /\ req[r].todo # <<>> /\ Head(req[r].todo) = "update"
          /\ models' = [models EXCEPT ![req[r].id] = Written(r)]
      BY <2>4 DEF Update, At
    <3>2. req[r].op = "update" /\ req[r].todo = <<"update">>
      BY <3>1, Asked, Places
    <3>3. req[r].id = i /\ models'[i] = Written(r)
      BY <3>1 DEF IInv, TypeOK
    <3>4. \A c \in Columns : req[r].body[c] # Null => c \in req[r].dirty
      <4>1. \A k \in 1..Len(req[r].todo) : req[r].todo[k] \notin Columns
        BY <3>2 DEF Columns
      <4> QED BY <3>2, <4>1, Asked DEF ModelInv
    <3>5. \A c \in Columns : req[r].body[c] \notin {Null, req[r].loaded[c]} =>
             Written(r)[c] = req[r].body[c]
      BY <3>4 DEF Written, Changed
    <3> QED BY <3>2, <3>3, <3>5
  <2>5. models' # models
    OBVIOUS
  <2> QED BY <2>1, <2>2, <2>3, <2>4, <2>5, ModelsAreLeft
<1> QED BY <1>1, Invariance, PTL DEF Spec, NoHalfPatch
=============================================================================
