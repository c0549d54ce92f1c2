------------------------- MODULE ProcessRunsProofs -------------------------
(***************************************************************************)
(* Theorems about ProcessRuns, for every set of runs, prefixes and bounds. *)
(*                                                                         *)
(* The properties are not inductive by themselves: they also rest on what  *)
(* the poller holds in its locals between two commits.  IInv adds that, in *)
(* four parts; each part is proved to be kept by each kind of step.        *)
(***************************************************************************)
EXTENDS ProcessRuns, TLAPS

\* The poller is between picking a run and being done with it.
Handling == pc \notin {"sleep", "scan"}

\* The row i holds the output of cur, or did so until it was deleted.
Holds(i) ==
    /\ i \in Ids
    /\ i < nextId
    /\ output[i] = Out(cur) \/ (output[i] = NoRow /\ Out(cur) \in gone)

\* Who may write process_runs.status: the trigger before the row exists, the
\* poller for the RUNNING run it handles.
StatusInv ==
    /\ \A r \in Runs : trig[r] \in {"idle", "posting", "posted"} => status[r] = "untracked"
    /\ \A r \in todo : status[r] = "RUNNING" /\ r # cur
    /\ IF Handling THEN cur \in Runs /\ status[cur] = "RUNNING" ELSE cur = NoRun

\* What is cached, in flight or being decided upon was once true in Airflow.
VerdictInv ==
    /\ \A r \in Runs :
         /\ cache[r] \in Terminal => cache[r] \in seen[r]
         /\ airflow[r] \in Terminal => airflow[r] \in seen[r]
         /\ airflow[r] = "absent" /\ (trig[r] = "posted" \/ status[r] # "untracked")
                => "absent" \in seen[r]
    /\ pc \in {"answered", "decide"} =>
         reply \in States /\ (reply \in Ended => reply \in seen[cur])
    /\ pc \in {"refresh", "link", "relink", "finish"} => "success" \in seen[cur]

\* Ids are not reused, and the poller's hold on a row survives its deletion.
RowInv ==
    /\ \A i \in Ids : output[i] # NoRow => i < nextId
    /\ pc \in {"refresh", "link"} => Holds(ds)
    /\ pc = "relink" => Registered(Out(cur)) \/ Out(cur) \in gone
    /\ pc = "finish" => (ds = NoId /\ Out(cur) \in gone) \/ Holds(ds)

\* uq_dataset_s3_key_type, which every insert respects.
UniqueKey ==
    \A i, j \in Ids : output[i] # NoRow /\ output[i] = output[j] => i = j

IInv ==
    /\ TypeOK /\ StatusInv /\ VerdictInv /\ RowInv
    /\ LinkSound /\ UniqueKey /\ VerdictEarned /\ CompletedHasOutput

-----------------------------------------------------------------------------
\* An output is a key of the datasets table.
LEMMA OutType ==
    ASSUME NEW r \in Runs
    PROVE  Out(r) \in Prefixes \X Types
BY RequestAssumption DEF Out, TypeOf, Types, Kinds

\* Every step keeps the types.
LEMMA TypeStep ==
    ASSUME IInv, Next
    PROVE  TypeOK'
PROOF
<1> USE BoundsAssumption, RequestAssumption DEF IInv, TypeOK, States, Ended, Terminal, vars, airflowVars, tableVars, pollerVars
<1>1. ASSUME NEW r \in Runs, Endpoint(r) PROVE TypeOK'
  <2>1. CASE Trigger(r)
    BY <2>1 DEF Trigger
  <2>2. CASE TriggerError(r)
    BY <2>2 DEF TriggerError
  <2>3. CASE Record(r)
    BY <2>3 DEF Record
  <2>4. CASE StatusRequest(r)
    BY <2>4 DEF StatusRequest
  <2>5. CASE Expire(r)
    BY <2>5 DEF Expire
  <2> QED BY <1>1, <2>1, <2>2, <2>3, <2>4, <2>5 DEF Endpoint
<1>2. ASSUME NEW r \in Runs, Job(r) PROVE TypeOK'
  <2>1. CASE Accept(r)
    BY <2>1 DEF Accept, SetAirflow
  <2>2. CASE Start(r)
    BY <2>2 DEF Start, SetAirflow
  <2>3. CASE Succeed(r)
    BY <2>3 DEF Succeed, SetAirflow
  <2>4. CASE Fail(r)
    BY <2>4 DEF Fail, SetAirflow
  <2>5. CASE Clear(r)
    BY <2>5 DEF Clear, SetAirflow
  <2>6. CASE Forget(r)
    BY <2>6 DEF Forget, SetAirflow
  <2>7. CASE \E o \in {"data", "meta"} : Write(r, o)
    BY <2>7 DEF Write
  <2> QED BY <1>2, <2>1, <2>2, <2>3, <2>4, <2>5, <2>6, <2>7 DEF Job
<1>3. ASSUME NEW p \in Prefixes, Surface(p) PROVE TypeOK'
  BY <1>3 DEF Surface
<1>4. CASE Poll
  <2>1. CASE Tick
    BY <2>1 DEF Tick
  <2>2. CASE EndTick
    BY <2>2 DEF EndTick
  <2>3. CASE \E r \in Runs : Ask(r)
    BY <2>3 DEF Ask
  <2>4. CASE Answer
    BY <2>4 DEF Answer, StatusInv, Handling
  <2>5. CASE NoAnswer
    BY <2>5 DEF NoAnswer, NextRun
  <2>6. CASE Deliver
    BY <2>6 DEF Deliver, StatusInv, Handling
  <2>7. CASE MarkFailed
    BY <2>7 DEF MarkFailed, NextRun, StatusInv, Handling
  <2>8. CASE LeaveRunning
    BY <2>8 DEF LeaveRunning, NextRun
  <2>9. CASE NotVisible
    BY <2>9 DEF NotVisible, NextRun
  <2>10. CASE Register
    BY <2>10, OutType DEF Register, InsertRow, StatusInv, Handling, Ids
  <2>11. CASE AlreadyRegistered
    BY <2>11 DEF AlreadyRegistered
  <2>12. CASE Refresh
    BY <2>12 DEF Refresh
  <2>13. CASE RefreshFails
    BY <2>13 DEF RefreshFails, AbortTick
  <2>14. CASE Link
    BY <2>14 DEF Link, CompleteRun, NextRun, StatusInv, Handling, RowInv, Holds
  <2>15. CASE LinkRefused
    BY <2>15 DEF LinkRefused
  <2>16. CASE FindExisting
    BY <2>16 DEF FindExisting, Registered
  <2>17. CASE Relink
    BY <2>17 DEF Relink, CompleteRun, NextRun, StatusInv, Handling, RowInv, Holds
  <2>18. CASE RelinkRefused
    BY <2>18 DEF RelinkRefused, AbortTick
  <2> QED BY <1>4, <2>1, <2>2, <2>3, <2>4, <2>5, <2>6, <2>7, <2>8, <2>9, <2>10, <2>11, <2>12, <2>13, <2>14, <2>15, <2>16, <2>17, <2>18 DEF Poll, Finalize
<1>5. CASE Admin
  <2>1. CASE \E p \in Prefixes, t \in Types : RegisterManually(p, t)
    BY <2>1 DEF RegisterManually, InsertRow, Ids
  <2>2. CASE \E i \in Ids : Delete(i)
    BY <2>2 DEF Delete
  <2> QED BY <1>5, <2>1, <2>2 DEF Admin
<1>6. CASE Restart
  BY <1>6 DEF Restart, AbortTick
<1> QED BY <1>1, <1>2, <1>3, <1>4, <1>5, <1>6 DEF Next

\* Only the trigger opens a row and only the poller closes one, the one it holds.
LEMMA StatusStep ==
    ASSUME IInv, Next
    PROVE  StatusInv'
PROOF
<1> USE NullAssumption DEF IInv, TypeOK, StatusInv, Handling, vars, airflowVars, tableVars, pollerVars
<1>1. ASSUME NEW r \in Runs, Endpoint(r) PROVE StatusInv'
  <2>1. CASE Trigger(r)
    BY <2>1 DEF Trigger
  <2>2. CASE TriggerError(r)
    BY <2>2 DEF TriggerError
  <2>3. CASE Record(r)
    BY <2>3 DEF Record
  <2>4. CASE StatusRequest(r)
    BY <2>4 DEF StatusRequest
  <2>5. CASE Expire(r)
    BY <2>5 DEF Expire
  <2> QED BY <1>1, <2>1, <2>2, <2>3, <2>4, <2>5 DEF Endpoint
<1>2. ASSUME NEW r \in Runs, Job(r) PROVE StatusInv'
  <2>1. CASE Accept(r)
    BY <2>1 DEF Accept, SetAirflow
  <2>2. CASE Start(r)
    BY <2>2 DEF Start, SetAirflow
  <2>3. CASE Succeed(r)
    BY <2>3 DEF Succeed, SetAirflow
  <2>4. CASE Fail(r)
    BY <2>4 DEF Fail, SetAirflow
  <2>5. CASE Clear(r)
    BY <2>5 DEF Clear, SetAirflow
  <2>6. CASE Forget(r)
    BY <2>6 DEF Forget, SetAirflow
  <2>7. CASE \E o \in {"data", "meta"} : Write(r, o)
    BY <2>7 DEF Write
  <2> QED BY <1>2, <2>1, <2>2, <2>3, <2>4, <2>5, <2>6, <2>7 DEF Job
<1>3. ASSUME NEW p \in Prefixes, Surface(p) PROVE StatusInv'
  BY <1>3 DEF Surface
<1>4. CASE Poll
  <2>1. CASE Tick
    BY <2>1 DEF Tick
  <2>2. CASE EndTick
    BY <2>2 DEF EndTick
  <2>3. CASE \E r \in Runs : Ask(r)
    BY <2>3 DEF Ask
  <2>4. CASE Answer
    BY <2>4 DEF Answer
  <2>5. CASE NoAnswer
    BY <2>5 DEF NoAnswer, NextRun
  <2>6. CASE Deliver
    BY <2>6 DEF Deliver
  <2>7. CASE MarkFailed
    BY <2>7 DEF MarkFailed, NextRun
  <2>8. CASE LeaveRunning
    BY <2>8 DEF LeaveRunning, NextRun
  <2>9. CASE NotVisible
    BY <2>9 DEF NotVisible, NextRun
  <2>10. CASE Register
    BY <2>10 DEF Register, InsertRow
  <2>11. CASE AlreadyRegistered
    BY <2>11 DEF AlreadyRegistered
  <2>12. CASE Refresh
    BY <2>12 DEF Refresh
  <2>13. CASE RefreshFails
    BY <2>13 DEF RefreshFails, AbortTick
  <2>14. CASE Link
    BY <2>14 DEF Link, CompleteRun, NextRun
  <2>15. CASE LinkRefused
    BY <2>15 DEF LinkRefused
  <2>16. CASE FindExisting
    BY <2>16 DEF FindExisting
  <2>17. CASE Relink
    BY <2>17 DEF Relink, CompleteRun, NextRun
  <2>18. CASE RelinkRefused
    BY <2>18 DEF RelinkRefused, AbortTick
  <2> QED BY <1>4, <2>1, <2>2, <2>3, <2>4, <2>5, <2>6, <2>7, <2>8, <2>9, <2>10, <2>11, <2>12, <2>13, <2>14, <2>15, <2>16, <2>17, <2>18 DEF Poll, Finalize
<1>5. CASE Admin
  <2>1. CASE \E p \in Prefixes, t \in Types : RegisterManually(p, t)
    BY <2>1 DEF RegisterManually, InsertRow
  <2>2. CASE \E i \in Ids : Delete(i)
    BY <2>2 DEF Delete
  <2> QED BY <1>5, <2>1, <2>2 DEF Admin
<1>6. CASE Restart
  BY <1>6 DEF Restart, AbortTick
<1> QED BY <1>1, <1>2, <1>3, <1>4, <1>5, <1>6 DEF Next

\* A verdict that is cached, in flight or recorded was given by Airflow.
LEMMA VerdictStep ==
    ASSUME IInv, Next
    PROVE  VerdictInv' /\ VerdictEarned'
PROOF
<1> USE DEF IInv, TypeOK, StatusInv, VerdictInv, VerdictEarned, Handling, States, Ended, Terminal, vars, airflowVars, tableVars, pollerVars
<1>1. ASSUME NEW r \in Runs, Endpoint(r) PROVE VerdictInv' /\ VerdictEarned'
  <2>1. CASE Trigger(r)
    BY <2>1 DEF Trigger
  <2>2. CASE TriggerError(r)
    BY <2>2 DEF TriggerError
  <2>3. CASE Record(r)
    BY <2>3 DEF Record
  <2>4. CASE StatusRequest(r)
    BY <2>4 DEF StatusRequest
  <2>5. CASE Expire(r)
    BY <2>5 DEF Expire
  <2> QED BY <1>1, <2>1, <2>2, <2>3, <2>4, <2>5 DEF Endpoint
<1>2. ASSUME NEW r \in Runs, Job(r) PROVE VerdictInv' /\ VerdictEarned'
  <2>1. CASE Accept(r)
    BY <2>1 DEF Accept, SetAirflow
  <2>2. CASE Start(r)
    BY <2>2 DEF Start, SetAirflow
  <2>3. CASE Succeed(r)
    BY <2>3 DEF Succeed, SetAirflow
  <2>4. CASE Fail(r)
    BY <2>4 DEF Fail, SetAirflow
  <2>5. CASE Clear(r)
    BY <2>5 DEF Clear, SetAirflow
  <2>6. CASE Forget(r)
    BY <2>6 DEF Forget, SetAirflow
  <2>7. CASE \E o \in {"data", "meta"} : Write(r, o)
    BY <2>7 DEF Write
  <2> QED BY <1>2, <2>1, <2>2, <2>3, <2>4, <2>5, <2>6, <2>7 DEF Job
<1>3. ASSUME NEW p \in Prefixes, Surface(p) PROVE VerdictInv' /\ VerdictEarned'
  BY <1>3 DEF Surface
<1>4. CASE Poll
  <2>1. CASE Tick
    BY <2>1 DEF Tick
  <2>2. CASE EndTick
    BY <2>2 DEF EndTick
  <2>3. CASE \E r \in Runs : Ask(r)
    BY <2>3 DEF Ask
  <2>4. CASE Answer
    BY <2>4 DEF Answer
  <2>5. CASE NoAnswer
    BY <2>5 DEF NoAnswer, NextRun
  <2>6. CASE Deliver
    BY <2>6 DEF Deliver
  <2>7. CASE MarkFailed
    BY <2>7 DEF MarkFailed, NextRun
  <2>8. CASE LeaveRunning
    BY <2>8 DEF LeaveRunning, NextRun
  <2>9. CASE NotVisible
    BY <2>9 DEF NotVisible, NextRun
  <2>10. CASE Register
    BY <2>10 DEF Register, InsertRow
  <2>11. CASE AlreadyRegistered
    BY <2>11 DEF AlreadyRegistered
  <2>12. CASE Refresh
    BY <2>12 DEF Refresh
  <2>13. CASE RefreshFails
    BY <2>13 DEF RefreshFails, AbortTick
  <2>14. CASE Link
    BY <2>14 DEF Link, CompleteRun, NextRun
  <2>15. CASE LinkRefused
    BY <2>15 DEF LinkRefused
  <2>16. CASE FindExisting
    BY <2>16 DEF FindExisting
  <2>17. CASE Relink
    BY <2>17 DEF Relink, CompleteRun, NextRun
  <2>18. CASE RelinkRefused
    BY <2>18 DEF RelinkRefused, AbortTick
  <2> QED BY <1>4, <2>1, <2>2, <2>3, <2>4, <2>5, <2>6, <2>7, <2>8, <2>9, <2>10, <2>11, <2>12, <2>13, <2>14, <2>15, <2>16, <2>17, <2>18 DEF Poll, Finalize
<1>5. CASE Admin
  <2>1. CASE \E p \in Prefixes, t \in Types : RegisterManually(p, t)
    BY <2>1 DEF RegisterManually, InsertRow
  <2>2. CASE \E i \in Ids : Delete(i)
    BY <2>2 DEF Delete
  <2> QED BY <1>5, <2>1, <2>2 DEF Admin
<1>6. CASE Restart
  BY <1>6 DEF Restart, AbortTick
<1> QED BY <1>1, <1>2, <1>3, <1>4, <1>5, <1>6 DEF Next

\* No output gets a second row, and the poller never loses track of its own.
LEMMA RowStep ==
    ASSUME IInv, Next
    PROVE  RowInv' /\ UniqueKey'
PROOF
<1> USE BoundsAssumption, NullAssumption DEF IInv, TypeOK, StatusInv, RowInv, UniqueKey, Handling, Holds, Registered, Ids, vars, airflowVars, tableVars, pollerVars
<1>1. ASSUME NEW r \in Runs, Endpoint(r) PROVE RowInv' /\ UniqueKey'
  <2>1. CASE Trigger(r)
    BY <2>1 DEF Trigger
  <2>2. CASE TriggerError(r)
    BY <2>2 DEF TriggerError
  <2>3. CASE Record(r)
    BY <2>3 DEF Record
  <2>4. CASE StatusRequest(r)
    BY <2>4 DEF StatusRequest
  <2>5. CASE Expire(r)
    BY <2>5 DEF Expire
  <2> QED BY <1>1, <2>1, <2>2, <2>3, <2>4, <2>5 DEF Endpoint
<1>2. ASSUME NEW r \in Runs, Job(r) PROVE RowInv' /\ UniqueKey'
  <2>1. CASE Accept(r)
    BY <2>1 DEF Accept, SetAirflow
  <2>2. CASE Start(r)
    BY <2>2 DEF Start, SetAirflow
  <2>3. CASE Succeed(r)
    BY <2>3 DEF Succeed, SetAirflow
  <2>4. CASE Fail(r)
    BY <2>4 DEF Fail, SetAirflow
  <2>5. CASE Clear(r)
    BY <2>5 DEF Clear, SetAirflow
  <2>6. CASE Forget(r)
    BY <2>6 DEF Forget, SetAirflow
  <2>7. CASE \E o \in {"data", "meta"} : Write(r, o)
    BY <2>7 DEF Write
  <2> QED BY <1>2, <2>1, <2>2, <2>3, <2>4, <2>5, <2>6, <2>7 DEF Job
<1>3. ASSUME NEW p \in Prefixes, Surface(p) PROVE RowInv' /\ UniqueKey'
  BY <1>3 DEF Surface
<1>4. CASE Poll
  <2>1. CASE Tick
    BY <2>1 DEF Tick, Out
  <2>2. CASE EndTick
    BY <2>2 DEF EndTick, Out
  <2>3. CASE \E r \in Runs : Ask(r)
    BY <2>3 DEF Ask, Out
  <2>4. CASE Answer
    BY <2>4 DEF Answer, Out
  <2>5. CASE NoAnswer
    BY <2>5 DEF NoAnswer, NextRun, Out
  <2>6. CASE Deliver
    BY <2>6 DEF Deliver, Out
  <2>7. CASE MarkFailed
    BY <2>7 DEF MarkFailed, NextRun, Out
  <2>8. CASE LeaveRunning
    BY <2>8 DEF LeaveRunning, NextRun, Out
  <2>9. CASE NotVisible
    BY <2>9 DEF NotVisible, NextRun, Out
  <2>10. CASE Register
    <3>1. /\ nextId \in Ids /\ nextId' = nextId + 1
          /\ output' = [output EXCEPT ![nextId] = Out(cur)]
          /\ ~Registered(Out(cur))
      BY <2>10 DEF Register, InsertRow
    <3>2. Out(cur) \in Prefixes \X Types /\ Out(cur) # NoRow
      BY <2>10, OutType DEF Register
    <3>3. output'[nextId] = Out(cur) /\ \A i \in Ids \ {nextId} : output'[i] = output[i]
      BY <3>1
    <3>4. UniqueKey'
      BY <3>1, <3>3
    <3>5. (\A i \in Ids : output[i] # NoRow => i < nextId)'
      BY <3>1, <3>3
    <3>6. Holds(ds)'
      BY <2>10, <3>1, <3>3 DEF Register, Out
    <3> QED BY <2>10, <3>4, <3>5, <3>6 DEF Register
  <2>11. CASE AlreadyRegistered
    BY <2>11 DEF AlreadyRegistered, Out
  <2>12. CASE Refresh
    BY <2>12 DEF Refresh, Out
  <2>13. CASE RefreshFails
    BY <2>13 DEF RefreshFails, AbortTick, Out
  <2>14. CASE Link
    BY <2>14 DEF Link, CompleteRun, NextRun, Out
  <2>15. CASE LinkRefused
    BY <2>15 DEF LinkRefused, Out
  <2>16. CASE FindExisting
    <3>1. CASE Registered(Out(cur))
      <4>1. cur \in Runs /\ ds' \in Ids /\ output[ds'] = Out(cur)
        BY <2>16, <3>1 DEF FindExisting
      <4>2. Out(cur) # NoRow
        BY <4>1, OutType
      <4>3. Holds(ds)'
        BY <2>16, <4>1, <4>2 DEF FindExisting, Out
      <4> QED BY <2>16, <4>3 DEF FindExisting
    <3>2. CASE ~Registered(Out(cur))
      BY <2>16, <3>2 DEF FindExisting
    <3> QED BY <3>1, <3>2
  <2>17. CASE Relink
    BY <2>17 DEF Relink, CompleteRun, NextRun, Out
  <2>18. CASE RelinkRefused
    BY <2>18 DEF RelinkRefused, AbortTick, Out
  <2> QED BY <1>4, <2>1, <2>2, <2>3, <2>4, <2>5, <2>6, <2>7, <2>8, <2>9, <2>10, <2>11, <2>12, <2>13, <2>14, <2>15, <2>16, <2>17, <2>18 DEF Poll, Finalize
<1>5. CASE Admin
  <2>1. CASE \E p \in Prefixes, t \in Types : RegisterManually(p, t)
    <3>1. PICK p \in Prefixes, t \in Types : RegisterManually(p, t)
      BY <2>1
    <3>2. /\ nextId \in Ids /\ nextId' = nextId + 1
          /\ output' = [output EXCEPT ![nextId] = <<p, t>>]
          /\ ~Registered(<<p, t>>)
      BY <3>1 DEF RegisterManually, InsertRow
    <3>3. output'[nextId] = <<p, t>> /\ \A i \in Ids \ {nextId} : output'[i] = output[i]
      BY <3>2
    <3>4. UniqueKey'
      BY ZenonT(30), <3>2, <3>3
    <3>5. (\A i \in Ids : output[i] # NoRow => i < nextId)'
      BY <3>2, <3>3
    <3> QED BY <3>1, <3>4, <3>5 DEF RegisterManually, LoopFree
  <2>2. CASE \E i \in Ids : Delete(i)
    <3>1. PICK i \in Ids : Delete(i)
      BY <2>2
    <3>2. /\ output' = [output EXCEPT ![i] = NoRow]
          /\ gone' = gone \cup {output[i]}
          /\ UNCHANGED <<nextId, pc, cur, ds>>
      BY <3>1 DEF Delete
    <3>3. UniqueKey' /\ (\A j \in Ids : output[j] # NoRow => j < nextId)'
      BY <3>2
    <3>4. ASSUME NEW j, Holds(j) PROVE Holds(j)'
      BY <3>2, <3>4 DEF Out
    <3>5. Registered(Out(cur)) \/ Out(cur) \in gone => (Registered(Out(cur)) \/ Out(cur) \in gone)'
      BY <3>2 DEF Out
    <3> QED BY <3>2, <3>3, <3>4, <3>5 DEF Out
  <2> QED BY <1>5, <2>1, <2>2 DEF Admin
<1>6. CASE Restart
  BY <1>6 DEF Restart, AbortTick, Out
<1> QED BY <1>1, <1>2, <1>3, <1>4, <1>5, <1>6 DEF Next

\* A link is right when it is made and cut when its dataset goes.
LEMMA LinkStep ==
    ASSUME IInv, Next
    PROVE  LinkSound' /\ CompletedHasOutput'
PROOF
<1> USE BoundsAssumption, NullAssumption DEF IInv, TypeOK, StatusInv, RowInv, LinkSound, CompletedHasOutput, Handling, Holds, Ids, vars, airflowVars, tableVars, pollerVars
<1>1. ASSUME NEW r \in Runs, Endpoint(r) PROVE LinkSound' /\ CompletedHasOutput'
  <2>1. CASE Trigger(r)
    BY <2>1 DEF Trigger
  <2>2. CASE TriggerError(r)
    BY <2>2 DEF TriggerError
  <2>3. CASE Record(r)
    BY <2>3 DEF Record
  <2>4. CASE StatusRequest(r)
    BY <2>4 DEF StatusRequest
  <2>5. CASE Expire(r)
    BY <2>5 DEF Expire
  <2> QED BY <1>1, <2>1, <2>2, <2>3, <2>4, <2>5 DEF Endpoint
<1>2. ASSUME NEW r \in Runs, Job(r) PROVE LinkSound' /\ CompletedHasOutput'
  <2>1. CASE Accept(r)
    BY <2>1 DEF Accept, SetAirflow
  <2>2. CASE Start(r)
    BY <2>2 DEF Start, SetAirflow
  <2>3. CASE Succeed(r)
    BY <2>3 DEF Succeed, SetAirflow
  <2>4. CASE Fail(r)
    BY <2>4 DEF Fail, SetAirflow
  <2>5. CASE Clear(r)
    BY <2>5 DEF Clear, SetAirflow
  <2>6. CASE Forget(r)
    BY <2>6 DEF Forget, SetAirflow
  <2>7. CASE \E o \in {"data", "meta"} : Write(r, o)
    BY <2>7 DEF Write
  <2> QED BY <1>2, <2>1, <2>2, <2>3, <2>4, <2>5, <2>6, <2>7 DEF Job
<1>3. ASSUME NEW p \in Prefixes, Surface(p) PROVE LinkSound' /\ CompletedHasOutput'
  BY <1>3 DEF Surface
<1>4. CASE Poll
  <2>1. CASE Tick
    BY <2>1 DEF Tick, Out
  <2>2. CASE EndTick
    BY <2>2 DEF EndTick, Out
  <2>3. CASE \E r \in Runs : Ask(r)
    BY <2>3 DEF Ask, Out
  <2>4. CASE Answer
    BY <2>4 DEF Answer, Out
  <2>5. CASE NoAnswer
    BY <2>5 DEF NoAnswer, NextRun, Out
  <2>6. CASE Deliver
    BY <2>6 DEF Deliver, Out
  <2>7. CASE MarkFailed
    BY ZenonT(30), <2>7 DEF MarkFailed, NextRun, Out
  <2>8. CASE LeaveRunning
    BY <2>8 DEF LeaveRunning, NextRun, Out
  <2>9. CASE NotVisible
    BY <2>9 DEF NotVisible, NextRun, Out
  <2>10. CASE Register
    <3>1. /\ nextId \in Ids /\ output[nextId] = NoRow
          /\ output' = [output EXCEPT ![nextId] = Out(cur)]
          /\ UNCHANGED <<status, link, gone>>
      BY <2>10 DEF Register, InsertRow
    <3>2. ASSUME NEW r \in Runs, link[r] # NoId PROVE output'[link[r]] = output[link[r]]
      BY <3>1, <3>2, OutType
    <3> QED BY <3>1, <3>2 DEF Out
  <2>11. CASE AlreadyRegistered
    BY <2>11 DEF AlreadyRegistered, Out
  <2>12. CASE Refresh
    BY <2>12 DEF Refresh, Out
  <2>13. CASE RefreshFails
    BY <2>13 DEF RefreshFails, AbortTick, Out
  <2>14. CASE Link
    BY <2>14 DEF Link, CompleteRun, NextRun, Out
  <2>15. CASE LinkRefused
    BY <2>15 DEF LinkRefused, Out
  <2>16. CASE FindExisting
    BY <2>16 DEF FindExisting, Out
  <2>17. CASE Relink
    BY ZenonT(30), <2>17 DEF Relink, CompleteRun, NextRun, DsPresent, Out
  <2>18. CASE RelinkRefused
    BY <2>18 DEF RelinkRefused, AbortTick, Out
  <2> QED BY <1>4, <2>1, <2>2, <2>3, <2>4, <2>5, <2>6, <2>7, <2>8, <2>9, <2>10, <2>11, <2>12, <2>13, <2>14, <2>15, <2>16, <2>17, <2>18 DEF Poll, Finalize
<1>5. CASE Admin
  <2>1. CASE \E p \in Prefixes, t \in Types : RegisterManually(p, t)
    <3>1. PICK p \in Prefixes, t \in Types : RegisterManually(p, t)
      BY <2>1
    <3>2. /\ nextId \in Ids /\ output[nextId] = NoRow
          /\ output' = [output EXCEPT ![nextId] = <<p, t>>]
          /\ UNCHANGED <<status, link, gone>>
      BY <3>1 DEF RegisterManually, InsertRow
    <3>3. ASSUME NEW r \in Runs, link[r] # NoId PROVE output'[link[r]] = output[link[r]]
      BY <3>2, <3>3, OutType
    <3> QED BY <3>2, <3>3 DEF Out
  <2>2. CASE \E i \in Ids : Delete(i)
    BY <2>2 DEF Delete, Out
  <2> QED BY <1>5, <2>1, <2>2 DEF Admin
<1>6. CASE Restart
  BY <1>6 DEF Restart, AbortTick
<1> QED BY <1>1, <1>2, <1>3, <1>4, <1>5, <1>6 DEF Next

\* The initial states satisfy the invariant.
LEMMA InitInv ==
    ASSUME Init
    PROVE  IInv
PROOF
<1> USE BoundsAssumption, RequestAssumption, NullAssumption DEF Init
<1>1. TypeOK
  BY DEF TypeOK, States, Ids, Types
<1>2. StatusInv
  BY DEF StatusInv, Handling
<1>3. VerdictInv /\ VerdictEarned
  BY DEF VerdictInv, VerdictEarned, Terminal
<1>4. RowInv /\ UniqueKey
  BY DEF RowInv, UniqueKey, Ids
<1>5. LinkSound /\ CompletedHasOutput
  BY DEF LinkSound, CompletedHasOutput
<1> QED BY <1>1, <1>2, <1>3, <1>4, <1>5 DEF IInv

\* A step that changes nothing keeps the invariant.
LEMMA StutterInv ==
    ASSUME IInv, UNCHANGED vars
    PROVE  IInv'
BY DEF IInv, TypeOK, StatusInv, VerdictInv, RowInv, LinkSound, UniqueKey, VerdictEarned,
       CompletedHasOutput, Handling, Holds, Registered, Out, vars, airflowVars, tableVars, pollerVars

\* The invariant holds in every state the backend can reach.
THEOREM Invariance == Spec => []IInv
PROOF
<1>1. IInv /\ [Next]_vars => IInv'
  BY TypeStep, StatusStep, VerdictStep, RowStep, LinkStep, StutterInv DEF IInv
<1> QED BY InitInv, <1>1, PTL DEF Spec

\* Every variable keeps its type.
THEOREM TypeCorrect == Spec => []TypeOK
PROOF
<1>1. IInv => TypeOK
  BY DEF IInv
<1> QED BY Invariance, <1>1, PTL

\* A registered_dataset_id never dangles and never names somebody else's output.
THEOREM LinksAreSound == Spec => []LinkSound
PROOF
<1>1. IInv => LinkSound
  BY DEF IInv
<1> QED BY Invariance, <1>1, PTL


\* A final status was a state Airflow reported for that run.
THEOREM VerdictsAreEarned == Spec => []VerdictEarned
PROOF
<1>1. IInv => VerdictEarned
  BY DEF IInv
<1> QED BY Invariance, <1>1, PTL

\* A completed run lacks a dataset only after somebody deleted it.
THEOREM NoOutputIsLost == Spec => []CompletedHasOutput
PROOF
<1>1. IInv => CompletedHasOutput
  BY DEF IInv
<1> QED BY Invariance, <1>1, PTL

-----------------------------------------------------------------------------
(* The ledger.                                                             *)

\* Inserting a row whose key is not there lists one output.
LEMMA InsertLists ==
    ASSUME IInv, NEW o \in Prefixes \X Types, InsertRow(o), ~Registered(o)
    PROVE  o \notin Catalog /\ Catalog' = Catalog \cup {o}
PROOF
<1>1. nextId \in Ids /\ output \in [Ids -> (Prefixes \X Types) \cup {NoRow}] /\ output[nextId] = NoRow
  BY DEF IInv, TypeOK, RowInv, InsertRow, Ids
<1>2. output'[nextId] = o /\ \A i \in Ids \ {nextId} : output'[i] = output[i]
  BY <1>1 DEF InsertRow
<1>3. o # NoRow
  BY NullAssumption
<1> QED BY <1>1, <1>2, <1>3 DEF Catalog, Registered

\* Deleting a row takes its output off the list: no other row has it.
LEMMA DeleteUnlists ==
    ASSUME IInv, NEW i \in Ids, Delete(i)
    PROVE  output[i] \in Catalog /\ Catalog' = Catalog \ {output[i]}
PROOF
<1>1. output \in [Ids -> (Prefixes \X Types) \cup {NoRow}] /\ UniqueKey
  BY DEF IInv, TypeOK
<1>2. output[i] # NoRow /\ output' = [output EXCEPT ![i] = NoRow]
  BY DEF Delete
<1>3. output'[i] = NoRow /\ \A j \in Ids \ {i} : output'[j] = output[j] /\ output[j] # output[i]
  BY <1>1, <1>2 DEF UniqueKey
<1> QED BY <1>2, <1>3 DEF Catalog

\* Every step is a step of the ledger, or leaves it alone.
LEMMA LedgerStep ==
    ASSUME IInv, Next
    PROVE  [Ledger!Next]_Ledger!vars
PROOF
<1> USE DEF IInv, TypeOK, Ledger!vars, Catalog, vars, airflowVars, tableVars, pollerVars
<1>1. ASSUME NEW r \in Runs, Endpoint(r) PROVE [Ledger!Next]_Ledger!vars
  <2>1. CASE Trigger(r)
    BY <2>1 DEF Trigger
  <2>2. CASE TriggerError(r)
    BY <2>2 DEF TriggerError
  <2>3. CASE Record(r)
    <3>1. CASE InputPresent(r)
      <4>1. Ledger!Track(r)
        BY <2>3, <3>1 DEF Record, StatusInv, Ledger!Track
      <4> QED BY <4>1 DEF Ledger!Next
    <3>2. CASE ~InputPresent(r)
      BY <2>3, <3>2 DEF Record
    <3> QED BY <3>1, <3>2
  <2>4. CASE StatusRequest(r)
    BY <2>4 DEF StatusRequest
  <2>5. CASE Expire(r)
    BY <2>5 DEF Expire
  <2> QED BY <1>1, <2>1, <2>2, <2>3, <2>4, <2>5 DEF Endpoint
<1>2. ASSUME NEW r \in Runs, Job(r) PROVE [Ledger!Next]_Ledger!vars
  <2>1. CASE Accept(r)
    BY <2>1 DEF Accept, SetAirflow, Ended, Terminal
  <2>2. CASE Start(r)
    BY <2>2 DEF Start, SetAirflow, Ended, Terminal
  <2>3. CASE Succeed(r)
    <3>1. Ledger!Observe(r, "success")
      BY <2>3 DEF Succeed, SetAirflow, Ended, Terminal, Ledger!Observe
    <3> QED BY <3>1 DEF Ledger!Next
  <2>4. CASE Fail(r)
    <3>1. Ledger!Observe(r, "failed")
      BY <2>4 DEF Fail, SetAirflow, Ended, Terminal, Ledger!Observe
    <3> QED BY <3>1 DEF Ledger!Next
  <2>5. CASE Clear(r)
    BY <2>5 DEF Clear, SetAirflow, Ended, Terminal
  <2>6. CASE Forget(r)
    <3>1. Ledger!Observe(r, "absent")
      BY <2>6 DEF Forget, SetAirflow, Ended, Terminal, Ledger!Observe
    <3> QED BY <3>1 DEF Ledger!Next
  <2>7. CASE \E o \in {"data", "meta"} : Write(r, o)
    BY <2>7 DEF Write
  <2> QED BY <1>2, <2>1, <2>2, <2>3, <2>4, <2>5, <2>6, <2>7 DEF Job
<1>3. ASSUME NEW p \in Prefixes, Surface(p) PROVE [Ledger!Next]_Ledger!vars
  BY <1>3 DEF Surface
<1>4. CASE Poll
  <2>1. CASE Tick
    BY <2>1 DEF Tick
  <2>2. CASE EndTick
    BY <2>2 DEF EndTick
  <2>3. CASE \E r \in Runs : Ask(r)
    BY <2>3 DEF Ask
  <2>4. CASE Answer
    BY <2>4 DEF Answer
  <2>5. CASE NoAnswer
    BY <2>5 DEF NoAnswer, NextRun
  <2>6. CASE Deliver
    BY <2>6 DEF Deliver
  <2>7. CASE MarkFailed
    <3>1. cur \in Runs /\ status[cur] = "RUNNING" /\ reply \in seen[cur]
      BY <2>7 DEF MarkFailed, StatusInv, Handling, VerdictInv, Ended, Terminal
    <3>2. Ledger!Fail(cur)
      BY <2>7, <3>1 DEF MarkFailed, Ledger!Fail
    <3> QED BY <3>1, <3>2 DEF Ledger!Next
  <2>8. CASE LeaveRunning
    BY <2>8 DEF LeaveRunning, NextRun
  <2>9. CASE NotVisible
    BY <2>9 DEF NotVisible, NextRun
  <2>10. CASE Register
    <3>1. Out(cur) \in Prefixes \X Types
      BY <2>10, OutType DEF Register, StatusInv, Handling
    <3>2. Out(cur) \notin Catalog /\ Catalog' = Catalog \cup {Out(cur)}
      BY <2>10, <3>1, InsertLists DEF Register
    <3>3. PICK o \in Prefixes \X Types : o = Out(cur)
      BY <3>1
    <3>4. Ledger!Publish(o)
      BY <2>10, <3>2, <3>3 DEF Register, Ledger!Publish
    <3> QED BY <3>4 DEF Ledger!Next
  <2>11. CASE AlreadyRegistered
    BY <2>11 DEF AlreadyRegistered
  <2>12. CASE Refresh
    BY <2>12 DEF Refresh
  <2>13. CASE RefreshFails
    BY <2>13 DEF RefreshFails, AbortTick
  <2>14. CASE Link
    <3>1. cur \in Runs /\ status[cur] = "RUNNING" /\ "success" \in seen[cur]
      BY <2>14 DEF Link, StatusInv, Handling, VerdictInv
    <3>2. Out(cur) \in Catalog \cup gone
      BY <2>14, <3>1, OutType, NullAssumption DEF Link, RowInv, Holds
    <3>3. Ledger!Complete(cur)
      BY <2>14, <3>1, <3>2 DEF Link, CompleteRun, Ledger!Complete
    <3> QED BY <3>1, <3>3 DEF Ledger!Next
  <2>15. CASE LinkRefused
    BY <2>15 DEF LinkRefused
  <2>16. CASE FindExisting
    BY <2>16 DEF FindExisting
  <2>17. CASE Relink
    <3>1. cur \in Runs /\ status[cur] = "RUNNING" /\ "success" \in seen[cur]
      BY <2>17 DEF Relink, StatusInv, Handling, VerdictInv
    <3>2. Out(cur) \in Catalog \cup gone
      BY <2>17, <3>1, OutType, NullAssumption DEF Relink, RowInv, Holds
    <3>3. Ledger!Complete(cur)
      BY <2>17, <3>1, <3>2 DEF Relink, CompleteRun, Ledger!Complete
    <3> QED BY <3>1, <3>3 DEF Ledger!Next
  <2>18. CASE RelinkRefused
    BY <2>18 DEF RelinkRefused, AbortTick
  <2> QED BY <1>4, <2>1, <2>2, <2>3, <2>4, <2>5, <2>6, <2>7, <2>8, <2>9, <2>10, <2>11, <2>12, <2>13, <2>14, <2>15, <2>16, <2>17, <2>18 DEF Poll, Finalize
<1>5. CASE Admin
  <2>1. CASE \E p \in Prefixes, t \in Types : RegisterManually(p, t)
    <3>1. PICK p \in Prefixes, t \in Types : RegisterManually(p, t)
      BY <2>1
    <3>2. <<p, t>> \notin Catalog /\ Catalog' = Catalog \cup {<<p, t>>}
      BY <3>1, InsertLists DEF RegisterManually
    <3>3. Ledger!Publish(<<p, t>>)
      BY <3>1, <3>2 DEF RegisterManually, Ledger!Publish
    <3> QED BY <3>3 DEF Ledger!Next
  <2>2. CASE \E i \in Ids : Delete(i)
    <3>1. PICK i \in Ids : Delete(i)
      BY <2>2
    <3>2. output[i] \in Catalog /\ Catalog' = Catalog \ {output[i]}
      BY <3>1, DeleteUnlists
    <3>3. PICK o \in Prefixes \X Types : o = output[i]
      BY <3>1 DEF Delete, TypeOK
    <3>4. Ledger!Withdraw(o)
      BY <3>1, <3>2, <3>3 DEF Delete, Ledger!Withdraw
    <3> QED BY <3>4 DEF Ledger!Next
  <2> QED BY <1>5, <2>1, <2>2 DEF Admin
<1>6. CASE Restart
  BY <1>6 DEF Restart, AbortTick
<1> QED BY <1>1, <1>2, <1>3, <1>4, <1>5, <1>6 DEF Next

\* The two commits of the poller, its IntegrityError path, the endpoints, the
\* jobs, deletions and restarts together implement the ledger.
THEOREM ImplementsLedger == Spec => LedgerSpec
PROOF
<1>1. Init => Ledger!Init
  BY InitInv DEF Init, IInv, TypeOK, Ledger!Init, Catalog
<1>2. IInv /\ [Next]_vars => [Ledger!Next]_Ledger!vars
  <2>1. CASE UNCHANGED vars
    BY <2>1 DEF vars, airflowVars, tableVars, Ledger!vars, Catalog
  <2> QED BY <2>1, LedgerStep
<1> QED BY <1>1, <1>2, Invariance, PTL DEF Spec, LedgerSpec, Ledger!Spec

\* COMPLETED and FAILED are final: the ledger closes only runs that are RUNNING.
THEOREM FinalIsFinal == Spec => FinalStatus
PROOF
<1> DEFINE Kept == \A r \in Runs : status[r] \in {"COMPLETED", "FAILED"} => status'[r] = status[r]
<1>1. IInv /\ [Ledger!Next]_Ledger!vars => [Kept]_status
  <2> SUFFICES ASSUME IInv, Ledger!Next PROVE Kept
    BY DEF Ledger!vars
  <2>1. status \in [Runs -> {"untracked", "RUNNING", "COMPLETED", "FAILED"}]
    BY DEF IInv, TypeOK
  <2> QED BY <2>1 DEF Ledger!Next, Ledger!Track, Ledger!Observe, Ledger!Publish,
                   Ledger!Withdraw, Ledger!Complete, Ledger!Fail
<1> QED BY <1>1, ImplementsLedger, Invariance, PTL DEF LedgerSpec, Ledger!Spec, FinalStatus


\* Only Register adds to the catalogue while the poller moves.
LEMMA PollerInserts ==
    ASSUME Next, pc' # pc
    PROVE  Register \/ output' = output
PROOF
<1> USE DEF airflowVars, tableVars, pollerVars
<1>1. ASSUME NEW r \in Runs, Endpoint(r) \/ Job(r) PROVE output' = output
  BY <1>1 DEF Endpoint, Trigger, TriggerError, Record, StatusRequest, Expire,
              Job, Accept, Start, Succeed, Fail, Clear, Forget, Write
<1>2. ASSUME NEW p \in Prefixes, Surface(p) PROVE output' = output
  BY <1>2 DEF Surface
<1>3. CASE Poll
  BY <1>3 DEF Poll, Finalize, Tick, EndTick, Ask, Answer, NoAnswer, Deliver, MarkFailed, LeaveRunning,
              NotVisible, AlreadyRegistered, Refresh, RefreshFails, Link, LinkRefused, CompleteRun,
              FindExisting, Relink, RelinkRefused
<1>4. ~Admin
  BY DEF Admin, RegisterManually, Delete
<1>5. CASE Restart
  BY <1>5 DEF Restart
<1> QED BY <1>1, <1>2, <1>3, <1>4, <1>5 DEF Next

\* What the poller adds to the catalogue belongs to a run it has not finished.
THEOREM DeletionIsFinal == Spec => DeletionSticks
PROOF
<1> DEFINE Due == pc' # pc =>
                    \A o \in Catalog' \ Catalog : \E r \in Runs : Out(r) = o /\ status[r] = "RUNNING"
<1>1. IInv /\ [Next]_vars => [Due]_vars
  <2> SUFFICES ASSUME IInv, Next, pc' # pc, NEW o \in Catalog' \ Catalog
               PROVE  \E r \in Runs : Out(r) = o /\ status[r] = "RUNNING"
    OBVIOUS
  <2>1. Register
    BY PollerInserts DEF Catalog
  <2>2. cur \in Runs /\ status[cur] = "RUNNING"
    BY <2>1 DEF IInv, StatusInv, Handling, Register
  <2>3. Catalog' = Catalog \cup {Out(cur)}
    BY <2>1, <2>2, OutType, InsertLists DEF Register
  <2> QED BY <2>2, <2>3
<1> QED BY <1>1, Invariance, PTL DEF Spec, DeletionSticks

-----------------------------------------------------------------------------
(* What is registered is whole.                                            *)

\* The DAG run of r is at its first attempt, or past it, and nobody else writes its prefix.
First(r) == Exclusive(r) /\ clears[r] = 0

\* At a first attempt there is a pm_metadata.json only if the job wrote it, and it is seen
\* only beside the data; a run that succeeded does not start again.
AttemptInv(r) ==
    /\ trig[r] \in {"idle", "posting"} => airflow[r] = "absent" /\ seen[r] = {}
    /\ trig[r] \in {"idle", "posting"} \/ airflow[r] = "queued" => wrote[r] = {}
    /\ "success" \in seen[r] => airflow[r] \in {"success", "absent"}
    /\ "meta" \in store[Prefix[r]] => "meta" \in wrote[r]
    /\ "meta" \in wrote[r] => Kind[r] = "preprocessing"
    /\ "meta" \in files[Prefix[r]] => "data" \in files[Prefix[r]]
    /\ files[Prefix[r]] \subseteq store[Prefix[r]]

WholeInv ==
    /\ \A r \in Runs : First(r) => AttemptInv(r)
    /\ pc = "refresh" /\ First(cur) => Needed(cur) \subseteq files[Prefix[cur]]

\* The poller and the endpoints leave the attempts alone; the poller inserts what it sees.
LEMMA PollWhole ==
    ASSUME IInv, WholeInv, Poll
    PROVE  WholeInv'
PROOF
<1>1. UNCHANGED <<trig, airflowVars>>
  BY DEF Poll, Finalize, Tick, EndTick, Ask, Answer, NoAnswer, Deliver, MarkFailed, LeaveRunning,
         NotVisible, Register, AlreadyRegistered, Refresh, RefreshFails, Link, LinkRefused,
         CompleteRun, FindExisting, Relink, RelinkRefused, tableVars
<1>2. \A r \in Runs : First(r)' = First(r) /\ AttemptInv(r)' = AttemptInv(r)
  BY <1>1 DEF First, AttemptInv, airflowVars
<1>3. pc' = "refresh" => Register
  BY DEF Poll, Finalize, Tick, EndTick, Ask, Answer, NoAnswer, Deliver, MarkFailed, LeaveRunning,
         NotVisible, AlreadyRegistered, Refresh, RefreshFails, Link, LinkRefused, AbortTick,
         CompleteRun, NextRun, FindExisting, Relink, RelinkRefused
<1>4. ASSUME Register, First(cur) PROVE Needed(cur) \subseteq files[Prefix[cur]]
  <2>1. cur \in Runs /\ Prefix[cur] \in Prefixes /\ Visible(cur)
    BY <1>4, RequestAssumption DEF Register, IInv, StatusInv, Handling
  <2>2. AttemptInv(cur) /\ files[Prefix[cur]] \subseteq {"data", "meta"}
    BY <1>4, <2>1 DEF WholeInv, IInv, TypeOK
  <2> QED BY <2>1, <2>2 DEF Needed, Visible, AttemptInv
<1>5. Register => cur' = cur /\ UNCHANGED airflowVars
  BY DEF Register
<1> QED BY <1>2, <1>3, <1>4, <1>5 DEF WholeInv, First, airflowVars

\* The job, and whoever clears or loses its DAG run, keep to the order.
LEMMA JobWhole ==
    ASSUME IInv, WholeInv, NEW r \in Runs, Job(r)
    PROVE  WholeInv'
PROOF
<1> USE RequestAssumption DEF IInv, TypeOK, States, Ended, Terminal
<1>1. /\ \A q \in Runs : First(q)' => First(q)
      /\ \A q \in Runs \ {r} : First(q) => Prefix[q] # Prefix[r]
      /\ UNCHANGED pollerVars
  BY DEF First, Exclusive, Job, Accept, Start, Succeed, Fail, Clear, Forget, Write
<1>2. \A q \in Runs \ {r} :
          /\ UNCHANGED <<trig[q], airflow[q], seen[q], wrote[q]>>
          /\ First(q) => UNCHANGED <<store[Prefix[q]], files[Prefix[q]]>>
  BY <1>1 DEF Job, Accept, Start, Succeed, Fail, Clear, Forget, Write, SetAirflow
<1>3. ASSUME First(r)' PROVE AttemptInv(r)'
  <2>1. AttemptInv(r) /\ clears[r] = 0
    BY <1>1, <1>3 DEF WholeInv, First
  <2> USE <2>1 DEF AttemptInv
  <2>2. CASE Accept(r)
    BY <2>2 DEF Accept, SetAirflow
  <2>3. CASE Start(r)
    BY <2>3 DEF Start, SetAirflow
  <2>4. CASE Succeed(r)
    BY <2>4 DEF Succeed, SetAirflow
  <2>5. CASE Fail(r)
    BY <2>5 DEF Fail, SetAirflow
  <2>6. CASE Clear(r)
    BY <2>6, <1>3 DEF Clear, First
  <2>7. CASE Forget(r)
    BY <2>7 DEF Forget, SetAirflow
  <2>8. CASE \E o \in {"data", "meta"} : Write(r, o)
    BY <2>8 DEF Write, Needed
  <2> QED BY <2>2, <2>3, <2>4, <2>5, <2>6, <2>7, <2>8 DEF Job
<1>4. \A q \in Runs \ {r} : First(q)' => AttemptInv(q)'
  BY <1>1, <1>2 DEF WholeInv, AttemptInv
<1>5. ASSUME pc = "refresh", First(cur)' PROVE (Needed(cur) \subseteq files[Prefix[cur]])'
  <2>1. /\ cur \in Runs /\ First(cur) /\ "success" \in seen[cur] /\ cur' = cur
        /\ Needed(cur) \subseteq files[Prefix[cur]] /\ AttemptInv(cur)
    BY <1>1, <1>5 DEF WholeInv, StatusInv, Handling, VerdictInv, pollerVars, First
  <2>2. CASE cur = r
    <3>1. ~Start(r)
      BY <2>1, <2>2 DEF Start, AttemptInv
    <3>2. files' = files
      BY <3>1 DEF Job, Accept, Succeed, Fail, Clear, Forget, Write
    <3> QED BY <2>1, <3>2 DEF Needed
  <2>3. CASE cur # r
    BY <1>2, <2>1, <2>3 DEF Needed
  <2> QED BY <2>2, <2>3
<1> QED BY <1>1, <1>3, <1>4, <1>5 DEF WholeInv, pollerVars

\* Every other step.
LEMMA OtherWhole ==
    ASSUME IInv, WholeInv,
           \/ \E r \in Runs : Endpoint(r)
           \/ \E p \in Prefixes : Surface(p)
           \/ Admin \/ Restart \/ UNCHANGED vars
    PROVE  WholeInv'
PROOF
<1> USE RequestAssumption DEF IInv, TypeOK
<1>1. ASSUME NEW p \in Prefixes, Surface(p) PROVE WholeInv'
  <2>1. PICK o \in store[p] \ files[p] : /\ o = "meta" => "data" \in files[p]
                                         /\ files' = [files EXCEPT ![p] = @ \cup {o}]
    BY <1>1 DEF Surface
  <2>2. /\ UNCHANGED <<trig, airflow, wrote, store, clears, seen, pc, cur>>
        /\ \A q \in Prefixes : files[q] \subseteq files'[q] /\ files'[q] \subseteq files[q] \cup {o}
        /\ \A q \in Prefixes \ {p} : files'[q] = files[q]
    BY <1>1, <2>1 DEF Surface, pollerVars
  <2>3. \A r \in Runs : Prefix[r] \in Prefixes
    OBVIOUS
  <2>4. ASSUME NEW r \in Runs, First(r) PROVE AttemptInv(r)'
    <3>1. AttemptInv(r)
      BY <2>4 DEF WholeInv
    <3>2. files'[Prefix[r]] \subseteq store[Prefix[r]]
      BY <2>1, <2>2, <2>3, <3>1 DEF AttemptInv
    <3>3. "meta" \in files'[Prefix[r]] => "data" \in files'[Prefix[r]]
      BY <2>1, <2>2, <2>3, <3>1 DEF AttemptInv
    <3> QED BY <2>2, <3>1, <3>2, <3>3 DEF AttemptInv
  <2>5. pc = "refresh" => cur \in Runs
    BY DEF StatusInv, Handling
  <2> QED BY <2>2, <2>3, <2>4, <2>5 DEF WholeInv, First, Needed
<1>2. ASSUME NEW r \in Runs, Endpoint(r) PROVE WholeInv'
  <2>1. UNCHANGED <<airflowVars, pc, cur>> /\ \A q \in Runs :
            trig'[q] \in {"idle", "posting"} => trig[q] \in {"idle", "posting"}
    BY <1>2 DEF Endpoint, Trigger, TriggerError, Record, StatusRequest, Expire, pollerVars
  <2> QED BY <2>1 DEF WholeInv, AttemptInv, First, airflowVars
<1>3. CASE Admin \/ Restart \/ UNCHANGED vars
  <2>1. /\ UNCHANGED <<airflowVars>> /\ (UNCHANGED <<pc, cur>> \/ pc' = "sleep")
        /\ \A q \in Runs : trig'[q] \in {"idle", "posting"} => trig[q] \in {"idle", "posting"}
    BY <1>3 DEF Admin, RegisterManually, Delete, Restart, AbortTick, pollerVars, vars
  <2> QED BY <2>1 DEF WholeInv, AttemptInv, First, airflowVars
<1> QED BY <1>1, <1>2, <1>3

\* NotVisible and Register of the poller: pm_metadata.json, which the job writes last, stands
\* for the whole output when the dataset is inserted.
THEOREM RegisteredIsWhole == Spec => []WholeWhenRegistered
PROOF
<1>1. Init => WholeInv
  BY RequestAssumption DEF Init, WholeInv, AttemptInv
<1>2. IInv /\ WholeInv /\ [Next]_vars => WholeInv'
  BY PollWhole, JobWhole, OtherWhole DEF Next
<1>3. WholeInv => WholeWhenRegistered
  BY DEF WholeInv, WholeWhenRegistered, First
<1> QED BY <1>1, <1>2, <1>3, Invariance, PTL DEF Spec

=============================================================================
