------------------------ MODULE VisualizationProofs ------------------------
(***************************************************************************)
(* Theorems about VisualizationPoll, for any number of overlapping         *)
(* requests and of runs and any patience of the page.                      *)
(***************************************************************************)
EXTENDS VisualizationPoll, WellFoundedInduction, NaturalsInduction, TLAPS

\* What a request has in hand is still true when it uses it: a summary that stood
\* stands, and a run that was picked as over was the newest of none active.
RequestInv(q) ==
    /\ req[q].pc = "answered" <=> req[q].answer # "none"
    /\ req[q].pc \in {"summary", "error"} =>
          /\ req[q].seen = "over" => ~req[q].active
          /\ req[q].seen # "none"
    /\ req[q].pc = "summary" => (req[q].stood => summary)
    /\ req[q].pc = "error" => (req[q].stood => req[q].blind)
    /\ req[q].answer = "failed" => ~req[q].active /\ (req[q].stood => req[q].blind)

\* While the page polls it has not given up and has no final status; when it does not,
\* it has a reason that it shows.
PageInv ==
    /\ mounted = "before" => status = "null" /\ ~polling /\ launch["page"] = "idle"
                             /\ \A q \in Requests : req[q].pc = "none"
    /\ polling => ~pollTimedOut /\ ~pipelineTimedOut /\ status \notin TerminalStatuses
    /\ mounted = "mounted" /\ ~polling => ShowResults \/ ShowRetry \/ late

IInv == TypeOK /\ (\A q \in Requests : RequestInv(q)) /\ PageInv

-----------------------------------------------------------------------------
\* A set of run numbers that is not empty has a greatest one, and Max picks it.
LEMMA GreatestRun ==
    ASSUME NEW n \in Nat, NEW S \in SUBSET (1..n), S # {}
    PROVE  Max(S) \in S
PROOF
<1> DEFINE D == {n - r : r \in S}
<1>1. D \in SUBSET Nat /\ D # {}
  <2>1. \A r \in S : n - r \in Nat
    OBVIOUS
  <2>2. PICK r \in S : TRUE
    OBVIOUS
  <2> QED BY <2>1, <2>2
<1>2. IsWellFoundedOn(OpToRel(<, Nat), Nat)
  BY NatLessThanWellFounded
<1>3. PICK d \in D : \A e \in D : ~ (<<e, d>> \in OpToRel(<, Nat))
  BY <1>1, <1>2, WFMin
<1>4. PICK r \in S : d = n - r
  BY <1>3
<1>5. \A s \in S : ~ (n - s < n - r)
  BY <1>1, <1>3, <1>4 DEF OpToRel
<1>6. \A s \in S : r >= s
  BY <1>5
<1> QED BY <1>6 DEF Max

\* The run a request picks exists, and is active if any run is.
LEMMA PickedRun ==
    ASSUME TypeOK, runs # <<>>
    PROVE  /\ LatestRun \in DOMAIN runs
           /\ ActiveRuns # {} <=> runs[LatestRun] \in ActiveStates
PROOF
<1>1. runs \in Seq(RunStates) /\ Len(runs) \in Nat /\ DOMAIN runs = 1..Len(runs)
  BY DEF TypeOK, VizTypeOK
<1>2. ActiveRuns \in SUBSET (1..Len(runs))
  BY <1>1 DEF ActiveRuns
<1>3. CASE ActiveRuns # {}
  <2>1. Max(ActiveRuns) \in ActiveRuns
    BY <1>1, <1>2, <1>3, GreatestRun
  <2> QED BY <2>1, <1>3 DEF LatestRun, ActiveRuns
<1>4. CASE ActiveRuns = {}
  <2>1. LatestRun = Len(runs)
    BY <1>4 DEF LatestRun
  <2>2. Len(runs) \in DOMAIN runs
    BY <1>1
  <2> QED BY <2>1, <2>2, <1>4 DEF ActiveRuns
<1> QED BY <1>3, <1>4

\* Initially IInv holds.
LEMMA InitIInv == Init => IInv
PROOF
<1> SUFFICES ASSUME Init PROVE IInv
  OBVIOUS
<1> USE DEF Init, VizInit, NoRequest
<1>1. TypeOK
  <2>1. runs \in Seq(RunStates) /\ Len(runs) <= MaxRuns
    BY VisualizationAssumption
  <2>2. launch \in [Launchers -> {"idle", "start", "post", "ok", "error"}]
    BY DEF Launchers
  <2> QED BY <2>1, <2>2 DEF TypeOK, VizTypeOK
<1>2. \A q \in Requests : RequestInv(q)
  BY DEF RequestInv
<1>3. PageInv
  BY DEF PageInv
<1> QED BY <1>1, <1>2, <1>3 DEF IInv

\* Airflow and the job keep IInv: a summary, once written, stays.
LEMMA AirflowKeeps ==
    ASSUME IInv, Airflow, UNCHANGED pollVars
    PROVE  IInv'
PROOF
<1>1. PICK r \in DOMAIN runs : WriteSummary(r) \/ TaskFails(r) \/ RunSucceeds(r) \/ ClearRun(r)
  BY DEF Airflow
<1>2. UNCHANGED <<fits, launch, req, pollVars>> /\ (summary => summary')
  <2>1. UNCHANGED <<fits, launch, req, pollVars>>
    BY <1>1 DEF WriteSummary, TaskFails, RunSucceeds, ClearRun
  <2>2. CASE WriteSummary(r)
    BY <2>1, <2>2 DEF WriteSummary
  <2>3. CASE TaskFails(r) \/ RunSucceeds(r) \/ ClearRun(r)
    BY <2>1, <2>3 DEF TaskFails, RunSucceeds, ClearRun
  <2> QED BY <1>1, <2>2, <2>3
<1>3. runs' \in Seq(RunStates) /\ Len(runs') = Len(runs)
  BY <1>1 DEF WriteSummary, TaskFails, RunSucceeds, ClearRun, IInv, TypeOK, VizTypeOK,
     RunStates, ActiveStates
<1>4. summary' \in BOOLEAN /\ errorFile' \in BOOLEAN
  BY <1>1 DEF WriteSummary, TaskFails, RunSucceeds, ClearRun, IInv, TypeOK, VizTypeOK
<1>5. TypeOK'
  BY <1>2, <1>3, <1>4 DEF IInv, TypeOK, VizTypeOK, pollVars
<1>6. (\A q \in Requests : RequestInv(q))'
  BY <1>2 DEF IInv, RequestInv
<1>7. PageInv'
  BY <1>2 DEF IInv, PageInv, pollVars, ShowResults, ShowRetry
<1> QED BY <1>5, <1>6, <1>7 DEF IInv

\* A trigger touches neither the requests nor a summary.
LEMMA TriggerKeeps ==
    ASSUME IInv, Trigger, UNCHANGED pollVars
    PROVE  IInv'
PROOF
<1>1. PICK l \in Launchers : DropError(l) \/ Posted(l) \/ NotPosted(l)
  BY DEF Trigger
<1>2. UNCHANGED <<fits, summary, req, pollVars>>
  BY <1>1 DEF DropError, Posted, NotPosted
<1>3. runs' \in Seq(RunStates) /\ Len(runs') <= MaxRuns
  <2>1. "reading" \in RunStates /\ runs \in Seq(RunStates) /\ Len(runs) <= MaxRuns
    BY DEF IInv, TypeOK, VizTypeOK, RunStates, ActiveStates
  <2>2. runs' = runs \/ (Len(runs) < MaxRuns /\ runs' = Append(runs, "reading"))
    BY <1>1 DEF DropError, Posted, NotPosted
  <2> QED BY <2>1, <2>2, VisualizationAssumption
<1>4. launch' \in [Launchers -> {"idle", "start", "post", "ok", "error"}] /\ errorFile' \in BOOLEAN
  BY <1>1 DEF DropError, Posted, NotPosted, Outcome, IInv, TypeOK, VizTypeOK
<1>5. launch["page"] = "idle" => launch'["page"] = "idle"
  BY <1>1 DEF DropError, Posted, NotPosted, Outcome, IInv, TypeOK, VizTypeOK, Launchers
<1>6. TypeOK'
  BY <1>2, <1>3, <1>4 DEF IInv, TypeOK, VizTypeOK, pollVars
<1>7. (\A q \in Requests : RequestInv(q))'
  BY <1>2 DEF IInv, RequestInv
<1>8. PageInv'
  BY <1>2, <1>5 DEF IInv, PageInv, pollVars, ShowResults, ShowRetry
<1> QED BY <1>6, <1>7, <1>8 DEF IInv


\* The type of a request, as VizTypeOK states it.
ReqType == [pc : {"none", "list", "summary", "error", "answered"},
            seen : {"none", "active", "over"}, answer : Answers \cup {"none"},
            active : BOOLEAN, stood : BOOLEAN, blind : BOOLEAN]

\* A step that changes one request only keeps IInv if that request is as RequestInv says.
LEMMA OneRequest ==
    ASSUME IInv, NEW q \in Requests, NEW r \in ReqType,
           req' = [req EXCEPT ![q] = r],
           UNCHANGED <<fits, runs, summary, launch, pollVars>>,
           errorFile' \in BOOLEAN,
           RequestInv(q)', req[q].pc # "none"
    PROVE  IInv'
PROOF
<1>1. req \in [Requests -> ReqType]
  BY DEF IInv, TypeOK, VizTypeOK, ReqType
<1>2. req' \in [Requests -> ReqType] /\ \A p \in Requests : p # q => req'[p] = req[p]
  BY <1>1
<1>3. TypeOK'
  BY <1>2 DEF IInv, TypeOK, VizTypeOK, pollVars, ReqType
<1>4. (\A p \in Requests : RequestInv(p))'
  BY <1>2 DEF IInv, RequestInv
<1>5. PageInv'
  BY <1>2 DEF IInv, PageInv, pollVars, ShowResults, ShowRetry
<1> QED BY <1>3, <1>4, <1>5 DEF IInv

\* An answer keeps IInv if, being "failed", it is earned.
LEMMA AnswerKeeps ==
    ASSUME IInv, NEW q \in Requests, NEW a \in Answers, Answer(q, a),
           UNCHANGED <<fits, runs, summary, launch, pollVars>>, errorFile' \in BOOLEAN,
           req[q].pc # "none",
           a = "failed" => ~req[q].active /\ (req[q].stood => req[q].blind)
    PROVE  IInv'
PROOF
<1> DEFINE base == IF a = "failed" THEN req[q] ELSE NoRequest
           r == [base EXCEPT !.pc = "answered", !.seen = "none", !.answer = a]
<1>1. req \in [Requests -> ReqType] /\ req[q] \in ReqType
  BY DEF IInv, TypeOK, VizTypeOK, ReqType
<1>2. NoRequest \in ReqType
  BY DEF NoRequest, ReqType
<1>3. r \in ReqType
  BY <1>1, <1>2 DEF ReqType
<1>4. req' = [req EXCEPT ![q] = r]
  BY DEF Answer
<1>5. req'[q] = r
  BY <1>1, <1>4
<1>6. base \in ReqType
  BY <1>1, <1>2
<1>7. r.pc = "answered" /\ r.answer = a /\ r.active = base.active
      /\ r.stood = base.stood /\ r.blind = base.blind
  BY <1>6 DEF ReqType
<1>8. a = "failed" => ~r.active /\ (r.stood => r.blind)
  BY <1>7
<1>9. RequestInv(q)'
  BY <1>5, <1>7, <1>8 DEF RequestInv, Answers
<1> HIDE DEF r
<1> QED BY <1>3, <1>4, <1>9, OneRequest

\* The status request keeps IInv.
LEMMA StatusKeeps ==
    ASSUME IInv, NEW q \in Requests, StatusStep(q), UNCHANGED pollVars
    PROVE  IInv'
PROOF
<1>0. req \in [Requests -> ReqType] /\ req[q] \in ReqType /\ RequestInv(q)
      /\ errorFile \in BOOLEAN
  BY DEF IInv, TypeOK, VizTypeOK, ReqType
<1>1. CASE ListRuns(q)
  <2>1. CASE runs = <<>>
    BY <2>1, <1>0, <1>1, AnswerKeeps, "not_found" \in Answers DEF ListRuns, Answers
  <2>2. CASE runs # <<>>
    <3> DEFINE s == IF runs[LatestRun] \in ActiveStates THEN "active" ELSE "over"
               r == [req[q] EXCEPT !.pc = "summary", !.seen = s,
                                   !.active = ActiveRuns # {}, !.stood = summary]
    <3>1. req' = [req EXCEPT ![q] = r]
      BY <2>2, <1>1, <1>0 DEF ListRuns
    <3>2. r \in ReqType
      BY <1>0 DEF ReqType, IInv, TypeOK, VizTypeOK
    <3>3. s = "over" => ~ (ActiveRuns # {})
      BY <2>2, PickedRun DEF IInv
    <3>4. req'[q] = r
      BY <3>1, <1>0
    <3>5. r.pc = "summary" /\ r.seen = s /\ r.active = (ActiveRuns # {}) /\ r.stood = summary
          /\ r.answer = req[q].answer
      BY <1>0 DEF ReqType
    <3>6. req[q].answer = "none" /\ req[q].pc # "none"
      BY <1>0, <1>1 DEF ListRuns, RequestInv
    <3>7. RequestInv(q)'
      <4>1. summary' = summary
        BY <1>1 DEF ListRuns
      <4>2. r.pc = "summary" /\ r.answer = "none" /\ r.seen # "none"
            /\ (r.seen = "over" => ~r.active) /\ (r.stood => summary')
        <5> HIDE DEF r
        <5>1. s \in {"active", "over"}
          OBVIOUS
        <5> HIDE DEF s
        <5> QED BY <3>3, <3>5, <3>6, <4>1, <5>1
      <4> HIDE DEF r
      <4> QED BY <4>2, <3>4 DEF RequestInv
    <3> HIDE DEF r
    <3> QED BY <3>1, <3>2, <3>6, <3>7, <1>0, <1>1, OneRequest DEF ListRuns
  <2> QED BY <2>1, <2>2
<1>2. CASE ListFails(q)
  BY <1>0, <1>2, AnswerKeeps DEF ListFails, Answers
<1>3. CASE ReadSummary(q)
  BY <1>0, <1>3, AnswerKeeps DEF ReadSummary, Answers
<1>4. CASE NoSummary(q)
  <2> DEFINE r == [req[q] EXCEPT !.pc = "error", !.blind = summary]
  <2>1. req' = [req EXCEPT ![q] = r]
    BY <1>4, <1>0 DEF NoSummary
  <2>2. r \in ReqType
    BY <1>0 DEF ReqType, IInv, TypeOK, VizTypeOK
  <2>3. req'[q] = r
    BY <2>1, <1>0
  <2>4. r.pc = "error" /\ r.seen = req[q].seen /\ r.active = req[q].active
        /\ r.stood = req[q].stood /\ r.blind = summary /\ r.answer = req[q].answer
    BY <1>0 DEF ReqType
  <2>5. RequestInv(q)' /\ req[q].pc # "none"
    BY <1>0, <1>4, <2>3, <2>4 DEF RequestInv, NoSummary
  <2> HIDE DEF r
  <2> QED BY <2>1, <2>2, <2>5, <1>0, <1>4, OneRequest DEF NoSummary
<1>5. CASE ReadError(q)
  <2>1. errorFile' \in BOOLEAN
    BY <1>0, <1>5 DEF ReadError
  <2>2. CASE req[q].seen = "active"
    BY <2>1, <2>2, <1>5, AnswerKeeps DEF ReadError, Verdict, Answers
  <2>3. CASE req[q].seen # "active"
    <3>1. req[q].seen = "over"
      BY <2>3, <1>0, <1>5 DEF ReadError, RequestInv, ReqType
    <3>2. ~req[q].active /\ (req[q].stood => req[q].blind)
      BY <3>1, <1>0, <1>5 DEF ReadError, RequestInv
    <3> QED BY <2>1, <2>3, <3>2, <1>5, AnswerKeeps DEF ReadError, Verdict, Answers
  <2> QED BY <2>2, <2>3
<1>6. CASE RequestFails(q)
  BY <1>0, <1>6, AnswerKeeps DEF RequestFails, Answers
<1> QED BY <1>1, <1>2, <1>3, <1>4, <1>5, <1>6 DEF StatusStep

\* A request that is sent or done with is as RequestInv says.
LEMMA FreshRequest ==
    ASSUME IInv, NEW q \in Requests, Sent(q) \/ Done(q), summary' = summary
    PROVE  /\ req' \in [Requests -> ReqType]
           /\ (\A p \in Requests : RequestInv(p))'
PROOF
<1>1. req \in [Requests -> ReqType]
  BY DEF IInv, TypeOK, VizTypeOK, ReqType
<1>2. NoRequest \in ReqType /\ [NoRequest EXCEPT !.pc = "list"] \in ReqType
  BY DEF NoRequest, ReqType
<1>3. req' \in [Requests -> ReqType] /\ \A p \in Requests : p # q => req'[p] = req[p]
  BY <1>1, <1>2 DEF Sent, Done
<1>4. req'[q] = NoRequest \/ req'[q] = [NoRequest EXCEPT !.pc = "list"]
  BY <1>1 DEF Sent, Done
<1>5. RequestInv(q)'
  BY <1>4 DEF RequestInv, NoRequest
<1> QED BY <1>3, <1>5 DEF IInv, RequestInv

\* Whatever starts the polling leaves the page without an outcome of the last one.
LEMMA StartKeeps ==
    ASSUME IInv, StartPolling, UNCHANGED <<fits, runs, summary, errorFile>>,
           status' = "null", mounted' \in {"mounted", "after"},
           pollError' \in BOOLEAN,
           launch' \in [Launchers -> {"idle", "start", "post", "ok", "error"}]
    PROVE  IInv'
PROOF
<1>1. PICK q \in Requests : Sent(q)
  BY DEF StartPolling
<1>2. req' \in [Requests -> ReqType] /\ (\A p \in Requests : RequestInv(p))'
  BY <1>1, FreshRequest
<1>3. TypeOK'
  BY <1>2 DEF IInv, TypeOK, VizTypeOK, ReqType, StartPolling
<1>4. PageInv'
  BY DEF PageInv, StartPolling, TerminalStatuses
<1> QED BY <1>2, <1>3, <1>4 DEF IInv

\* An answer that arrives keeps IInv: if it stops the polling, the page shows why.
LEMMA ReceiveKeeps ==
    ASSUME IInv, NEW q \in Requests, Receive(q)
    PROVE  IInv'
PROOF
<1> DEFINE s == req[q].answer
<1>1. req' \in [Requests -> ReqType] /\ (\A p \in Requests : RequestInv(p))'
  BY FreshRequest DEF Receive
<1>2. s \in Answers \ {"error"} /\ status' = s /\ pollError' = FALSE
      /\ req[q].pc = "answered"
  BY DEF Receive, IInv, RequestInv, TypeOK, VizTypeOK
<1>3. UNCHANGED <<fits, runs, summary, errorFile, launch, mounted>>
      /\ late' = (late \/ ~polling)
  BY DEF Receive
<1>4. mounted # "before"
  BY <1>2 DEF IInv, PageInv
<1>5. CASE s \in TerminalStatuses
  <2>1. polling' = FALSE /\ UNCHANGED <<notFoundPolls, pipelinePolls, pollTimedOut, pipelineTimedOut>>
    BY <1>5 DEF Receive
  <2>2. TypeOK'
    BY <1>1, <1>2, <1>3, <2>1 DEF IInv, TypeOK, VizTypeOK, ReqType
  <2>3. PageInv'
    BY <1>2, <1>3, <1>4, <1>5, <2>1 DEF PageInv, ShowResults, ShowRetry, TerminalStatuses, Answers
  <2> QED BY <1>1, <2>2, <2>3 DEF IInv
<1>6. CASE s \notin TerminalStatuses
  <2>1. CountPoll(s)
    BY <1>6 DEF Receive
  <2>2. TypeOK'
    <3>1. notFoundPolls' \in Nat /\ pipelinePolls' \in Nat
      BY <2>1 DEF CountPoll, IInv, TypeOK
    <3>2. pollTimedOut' \in BOOLEAN /\ pipelineTimedOut' \in BOOLEAN /\ polling' \in BOOLEAN
      BY <2>1 DEF CountPoll, IInv, TypeOK
    <3> QED BY <1>1, <1>2, <1>3, <3>1, <3>2 DEF IInv, TypeOK, VizTypeOK, ReqType
  <2>3. polling' => polling /\ ~pollTimedOut' /\ ~pipelineTimedOut'
    BY <2>1 DEF CountPoll, IInv, PageInv
  <2>4. polling /\ ~polling' => pollTimedOut' \/ pipelineTimedOut'
    BY <2>1 DEF CountPoll
  <2>5. PageInv'
    <3>1. (mounted = "mounted" /\ ~polling => ShowResults \/ ShowRetry \/ late)'
      BY <1>2, <1>3, <1>6, <2>4 DEF ShowResults, ShowRetry, TerminalStatuses
    <3> QED BY <1>2, <1>3, <1>4, <1>6, <2>3, <3>1 DEF PageInv
  <2> QED BY <1>1, <2>2, <2>5 DEF IInv
<1> QED BY <1>5, <1>6

\* Every step keeps IInv.
LEMMA StepKeeps == IInv /\ [Next]_vars => IInv'
PROOF
<1> SUFFICES ASSUME IInv, [Next]_vars PROVE IInv'
  OBVIOUS
<1>1. CASE Server
  <2>1. UNCHANGED pollVars
    BY <1>1 DEF Server
  <2>2. Airflow \/ Trigger \/ \E q \in Requests : StatusStep(q)
    BY <1>1 DEF Server
  <2> QED BY <2>1, <2>2, AirflowKeeps, TriggerKeeps, StatusKeeps
<1>2. CASE Mount
  BY <1>2, StartKeeps DEF Mount, IInv, PageInv, TypeOK, VizTypeOK
<1>3. CASE Unmount
  <2>1. UNCHANGED vizVars /\ (\A q \in Requests : RequestInv(q))'
    BY <1>3 DEF Unmount, vizVars, IInv, RequestInv
  <2>2. TypeOK'
    BY <1>3, <2>1 DEF Unmount, vizVars, IInv, TypeOK, VizTypeOK
  <2>3. PageInv'
    BY <1>3 DEF Unmount, PageInv
  <2> QED BY <2>1, <2>2, <2>3 DEF IInv
<1>4. CASE Tick
  <2>1. PICK q \in Requests : Sent(q)
    BY <1>4 DEF Tick
  <2>2. req' \in [Requests -> ReqType] /\ (\A p \in Requests : RequestInv(p))'
    BY <1>4, <2>1, FreshRequest DEF Tick
  <2>3. TypeOK'
    BY <1>4, <2>2 DEF Tick, pollVars, IInv, TypeOK, VizTypeOK, ReqType
  <2>4. PageInv'
    BY <1>4 DEF Tick, pollVars, IInv, PageInv, ShowResults, ShowRetry
  <2> QED BY <2>2, <2>3, <2>4 DEF IInv
<1>5. ASSUME NEW q \in Requests, Receive(q) PROVE IInv'
  BY <1>5, ReceiveKeeps
<1>6. ASSUME NEW q \in Requests, ReceiveError(q) PROVE IInv'
  <2>1. req' \in [Requests -> ReqType] /\ (\A p \in Requests : RequestInv(p))'
    BY <1>6, FreshRequest DEF ReceiveError
  <2>2. TypeOK'
    BY <1>6, <2>1 DEF ReceiveError, IInv, TypeOK, VizTypeOK, ReqType
  <2>3. mounted # "before"
    BY <1>6 DEF ReceiveError, IInv, PageInv
  <2>4. PageInv'
    BY <1>6, <2>3 DEF ReceiveError, PageInv, ShowResults, ShowRetry
  <2> QED BY <2>1, <2>2, <2>4 DEF IInv
<1>7. CASE Retry
  <2>1. UNCHANGED <<fits, runs, summary, errorFile, req, pollVars>>
        /\ (\A q \in Requests : RequestInv(q))'
    BY <1>7 DEF Retry, IInv, RequestInv
  <2>2. launch' \in [Launchers -> {"idle", "start", "post", "ok", "error"}]
    BY <1>7 DEF Retry, IInv, TypeOK, VizTypeOK
  <2>3. TypeOK'
    BY <2>1, <2>2 DEF pollVars, IInv, TypeOK, VizTypeOK
  <2>4. PageInv'
    BY <1>7, <2>1 DEF Retry, pollVars, IInv, PageInv, ShowResults, ShowRetry
  <2> QED BY <2>1, <2>3, <2>4 DEF IInv
<1>8. CASE Retried
  <2>1. launch' \in [Launchers -> {"idle", "start", "post", "ok", "error"}]
    BY <1>8 DEF Retried, IInv, TypeOK, VizTypeOK
  <2>2. mounted' \in {"mounted", "after"} /\ pollError' \in BOOLEAN
    BY <1>8 DEF Retried, IInv, PageInv, TypeOK
  <2> QED BY <1>8, <2>1, <2>2, StartKeeps DEF Retried
<1>9. CASE RetryFails
  <2>1. UNCHANGED <<fits, runs, summary, errorFile, req, pollVars>>
        /\ (\A q \in Requests : RequestInv(q))'
    BY <1>9 DEF RetryFails, IInv, RequestInv
  <2>2. launch' \in [Launchers -> {"idle", "start", "post", "ok", "error"}]
        /\ mounted # "before"
    BY <1>9 DEF RetryFails, IInv, TypeOK, VizTypeOK, PageInv
  <2>3. TypeOK'
    BY <2>1, <2>2 DEF pollVars, IInv, TypeOK, VizTypeOK
  <2>4. PageInv'
    BY <2>1, <2>2 DEF pollVars, IInv, PageInv, ShowResults, ShowRetry
  <2> QED BY <2>1, <2>3, <2>4 DEF IInv
<1>10. CASE UNCHANGED vars
  BY <1>10 DEF vars, vizVars, pollVars, IInv, TypeOK, VizTypeOK, RequestInv, PageInv,
     ShowResults, ShowRetry
<1> QED BY <1>1, <1>2, <1>3, <1>4, <1>5, <1>6, <1>7, <1>8, <1>9, <1>10 DEF Next

\* IInv is an invariant of the page and the server together.
THEOREM Inductive == Spec => []IInv
PROOF
<1> QED BY InitIInv, StepKeeps, PTL DEF Spec

\* Every variable keeps its type: every answer is one the page knows.
THEOREM TypeCorrect == Spec => []TypeOK
PROOF
<1>1. IInv => TypeOK
  BY DEF IInv
<1> QED BY <1>1, Inductive, PTL

\* An answer "failed" is given only if nothing was active and no summary that could be
\* read stood, however the job, other runs and other requests interleave with it.
THEOREM HonestVerdictHolds == Spec => []HonestVerdict
PROOF
<1>1. IInv => HonestVerdict
  BY DEF IInv, RequestInv, HonestVerdict
<1> QED BY <1>1, Inductive, PTL

\* The page has results, a sign that it is loading or a button, unless an answer came
\* after the polling had stopped.
THEOREM NoDeadEndHolds == Spec => []NoDeadEnd
PROOF
<1>1. IInv => NoDeadEnd
  BY DEF IInv, PageInv, NoDeadEnd, ShowLoading, ShowResults
<1> QED BY <1>1, Inductive, PTL
=============================================================================
