--------------------------- MODULE BrowserProofs ---------------------------
(***************************************************************************)
(* Theorems about the two parts of the browser that keep state of their    *)
(* own: LogViewer, for any number of streams, startStreams, tries, lines   *)
(* and pages, and RunMonitor, for any number of runs, process types,       *)
(* overlapping requests, clears and reloads.                               *)
(***************************************************************************)
EXTENDS LogViewer, RunMonitor, FiniteSetTheorems, TLAPS

-----------------------------------------------------------------------------
(* LogViewer: the invariant.                                               *)

\* Try t has begun to run, now or before.
Begun(t) == t < task.try \/ (t = task.try /\ task.state # "queued")

\* Whoever was told that the task runs was told of a try that has begun.
PastInv ==
    /\ cache.state = "running" => Begun(cache.try)
    /\ props.state = "running" => Begun(props.try)

\* A stream follows a try that has begun; one that asks for the task's state has sent
\* the log of a try that is over.
FollowInv ==
    /\ \A i \in Starts : starts[i].on /\ starts[i].follow => Begun(starts[i].try)
    /\ ~overlapped => \A s \in Streams : conn[s].pc # "closed" => Begun(conn[s].try)
    /\ ~overlapped => \A s \in Streams : conn[s].pc = "check" => Over(conn[s].try)

\* As long as no two startStreams overlapped, one thing at a time fills the window: a
\* startStream, or the stream the controller can abort; and it reads the selected try.
OneReaderInv ==
    ~overlapped =>
       /\ \A i, j \in Starts : starts[i].on /\ starts[j].on => i = j
       /\ \A i \in Starts : starts[i].on => controller = NoStream /\ starts[i].try = selectedTry
       /\ \A s \in Streams : conn[s].pc # "closed" => controller = s /\ conn[s].try = selectedTry

Up(t, k) == {t} \X (1..k)

\* The window holds the log of the selected try up to a line, and whoever reads on does
\* not begin behind that line.
WindowInv ==
    ~overlapped /\ wipes = 0 =>
       \E k \in Nat :
          /\ lines = Up(selectedTry, k)
          /\ k > 0 => selectedTry \in Tries /\ k <= log[selectedTry]
          /\ \A i \in Starts : starts[i].on => starts[i].token <= k
          /\ \A s \in Streams :
                conn[s].pc # "closed" => /\ conn[s].token <= k
                                         /\ conn[s].pc = "check" => k = log[selectedTry]

\* What a startStream or a stream reads is a try.
ReadInv ==
    /\ mounted # "before" => selectedTry \in Tries /\ props \in Instances
    /\ mounted = "before" => \A i \in Starts : ~starts[i].on
    /\ mounted = "before" => \A s \in Streams : conn[s].pc = "closed"
    /\ \A i \in Starts : starts[i].on => starts[i].try \in Tries
    /\ \A s \in Streams : conn[s].pc # "closed" => conn[s].try \in Tries

ViewerInv == TypeOK /\ PastInv /\ FollowInv /\ OneReaderInv /\ WindowInv /\ ReadInv
-----------------------------------------------------------------------------
(* Types.                                                                  *)

LEMMA KnownIs ==
    ASSUME ViewerInv
    PROVE  Known \in Instances /\ (Known.state = "running" => Begun(Known.try))
PROOF
<1>1. task \in Instances /\ cache \in Instances \cup {Nothing}
  BY DEF ViewerInv, TypeOK, StreamTypeOK
<1>2. task.state = "running" => Begun(task.try)
  BY DEF Begun
<1> QED BY <1>1, <1>2 DEF Known, ViewerInv, PastInv

\* A page lies behind its token and ends with the log.
LEMMA PageIs ==
    ASSUME ViewerInv, NEW t \in Tries, NEW k \in 0..MaxLines
    PROVE  /\ Page(t, k) = (k + 1)..log[t] /\ Page(t, k) \subseteq 1..MaxLines
           /\ NextToken(t) \in 0..log[t] /\ log[t] \in 0..MaxLines
PROOF
<1>1. log[t] \in 0..MaxLines /\ MaxLines \in Nat
  BY StreamAssumption DEF ViewerInv, TypeOK, StreamTypeOK
<1> QED BY <1>1 DEF Page, NextToken

Read(t, p) == {<<t, n>> : n \in p}

\* Read from a position in it or before it, the log is as far as it goes.
LEMMA ReadOn ==
    ASSUME NEW t, NEW j \in Nat, NEW k \in Nat, NEW n \in Nat, j <= k, k <= n
    PROVE  Up(t, k) \cup Read(t, (j + 1)..n) = Up(t, n)
PROOF BY DEF Up, Read

-----------------------------------------------------------------------------
(* Airflow.                                                                *)

LEMMA AirflowKeeps ==
    ASSUME ViewerInv, Airflow \/ CacheExpires, UNCHANGED viewerVars
    PROVE  ViewerInv'
PROOF
<1> USE DEF viewerVars
<1>0. /\ task \in Instances /\ log \in [Tries -> 0..MaxLines]
      /\ cache \in Instances \cup {Nothing} /\ MaxTries \in Nat /\ MaxLines \in Nat
      /\ Tries = 1..MaxTries
  BY StreamAssumption DEF ViewerInv, TypeOK, StreamTypeOK, Tries
<1>1. /\ task' \in Instances /\ log' \in [Tries -> 0..MaxLines] /\ conn' = conn
      /\ cache' \in {cache, Nothing}
      /\ \A t \in Tries : /\ Begun(t) => Begun(t)'
                          /\ log'[t] >= log[t]
                          /\ Over(t) => Over(t)' /\ log'[t] = log[t]
  <2>1. CASE Begin
    BY <1>0, <2>1 DEF Begin, Instances, TaskStates, Begun, Over, Finished
  <2>2. CASE WriteLine
    <3>1. /\ task.try \in Tries /\ log' = [log EXCEPT ![task.try] = log[task.try] + 1]
          /\ log[task.try] \in Nat /\ log[task.try] < MaxLines /\ UNCHANGED <<task, cache, conn>>
      BY <1>0, <2>2 DEF WriteLine, Instances
    <3>2. log' \in [Tries -> 0..MaxLines] /\ \A t \in Tries : log'[t] >= log[t]
      BY <1>0, <3>1
    <3>3. \A t \in Tries : Over(t) => t # task.try
      BY <1>0, <2>2 DEF WriteLine, Over, Instances, Finished
    <3> QED BY <1>0, <3>1, <3>2, <3>3 DEF Begun, Over
  <2>3. CASE End
    BY <1>0, <2>3 DEF End, Instances, TaskStates, Begun, Over, Finished
  <2>4. CASE Requeue
    <3>1. /\ task' = [state |-> "queued", try |-> task.try + 1] /\ UNCHANGED <<log, conn>>
          /\ cache' \in {cache, Nothing} /\ task.try \in Tries /\ task.try + 1 \in Tries
      BY <1>0, <2>4 DEF Requeue, Instances
    <3>2. \A t \in Tries : /\ Begun(t) => Begun(t)'
                           /\ Over(t) => Over(t)'
      BY <1>0, <3>1 DEF Begun, Over
    <3> QED BY <1>0, <3>1, <3>2 DEF Instances, TaskStates
  <2>5. CASE CacheExpires
    BY <1>0, <2>5 DEF CacheExpires, Begun, Over
  <2> QED BY <2>1, <2>2, <2>3, <2>4, <2>5 DEF Airflow
<1>2. TypeOK'
  BY <1>0, <1>1 DEF ViewerInv, TypeOK, StreamTypeOK
<1>3. PastInv'
  <2>1. ASSUME NEW p \in Instances \cup {Nothing}, p.state = "running" => Begun(p.try)
        PROVE  p.state = "running" => Begun(p.try)'
    <3>1. p.state = "running" => p.try \in Tries
      BY DEF Instances, Nothing
    <3> QED BY <1>1, <2>1, <3>1
  <2>2. Nothing.state # "running"
    BY DEF Nothing
  <2>3. props \in Instances \cup {Nothing} /\ props' = props
    BY DEF ViewerInv, TypeOK
  <2> QED BY <1>0, <1>1, <2>1, <2>2, <2>3 DEF ViewerInv, PastInv
<1>4. FollowInv'
  BY <1>1 DEF ViewerInv, FollowInv, ReadInv
<1>5. OneReaderInv'
  BY <1>1 DEF ViewerInv, OneReaderInv
<1>6. WindowInv'
  <2> SUFFICES ASSUME ~overlapped, wipes = 0 PROVE WindowInv'
    BY DEF WindowInv
  <2>1. PICK k \in Nat :
          /\ lines = Up(selectedTry, k)
          /\ k > 0 => selectedTry \in Tries /\ k <= log[selectedTry]
          /\ \A i \in Starts : starts[i].on => starts[i].token <= k
          /\ \A s \in Streams :
                conn[s].pc # "closed" => /\ conn[s].token <= k
                                         /\ conn[s].pc = "check" => k = log[selectedTry]
    BY DEF ViewerInv, WindowInv
  <2>2. k > 0 => selectedTry \in Tries /\ k <= log'[selectedTry]
    <3>1. ASSUME NEW t \in Tries, k <= log[t] PROVE k <= log'[t]
      <4>1. log[t] \in 0..MaxLines /\ log'[t] \in 0..MaxLines
        BY <1>0, <1>1, <3>1
      <4>2. log'[t] >= log[t]
        BY <1>1, <3>1
      <4> QED BY <1>0, <3>1, <4>1, <4>2
    <3> QED BY <2>1, <3>1
  <2>3. ASSUME NEW s \in Streams, conn[s].pc = "check" PROVE k = log'[selectedTry]
    BY <1>1, <2>1, <2>3 DEF ViewerInv, FollowInv, ReadInv, OneReaderInv
  <2> QED BY <1>1, <2>1, <2>2, <2>3 DEF WindowInv, Up
<1>7. ReadInv'
  BY <1>1 DEF ViewerInv, ReadInv
<1> QED BY <1>2, <1>3, <1>4, <1>5, <1>6, <1>7 DEF ViewerInv

-----------------------------------------------------------------------------
(* A startStream begins.                                                   *)

Slot == [on : BOOLEAN, try : {0} \cup Tries, follow : BOOLEAN, token : 0..MaxLines,
         pages : 0..(MaxPages - 1)]
Connection == [pc : {"closed", "page", "check"}, try : {0} \cup Tries, token : 0..MaxLines,
               got : SUBSET (1..MaxLines)]

\* The slot of a startStream that begins: three fields set, one after the other.
LEMMA StartedIs ==
    ASSUME NEW t, NEW f
    PROVE  [NotStarted EXCEPT !.on = TRUE, !.try = t, !.follow = f]
             = [on |-> TRUE, try |-> t, follow |-> f, token |-> 0, pages |-> 0]
PROOF
<1> DEFINE yes == TRUE
           no == FALSE
           S(a, b, c) == [on |-> a, try |-> b, follow |-> c, token |-> 0, pages |-> 0]
<1>1. NotStarted = S(no, 0, no)
  BY DEF NotStarted
<1> HIDE DEF yes, no
<1>2. [S(no, 0, no) EXCEPT !.on = yes] = S(yes, 0, no)
  OBVIOUS
<1>3. [S(yes, 0, no) EXCEPT !.try = t] = S(yes, t, no)
  OBVIOUS
<1>4. [S(yes, t, no) EXCEPT !.follow = f] = S(yes, t, f)
  OBVIOUS
<1>5. [NotStarted EXCEPT !.on = yes, !.try = t, !.follow = f] = S(yes, t, f)
  BY <1>1, <1>2, <1>3, <1>4
<1> QED BY <1>5 DEF yes

\* What LoadHistory does to the window and to the startStreams.
LEMMA HistoryIs ==
    ASSUME ViewerInv, NEW p \in Instances, NEW t \in Tries, LoadHistory(p, t)
    PROVE  /\ lines' = {} /\ again' = {} /\ cut' = "no"
           /\ streamState' \in {"idle", "live"} /\ overlapped' \in BOOLEAN
           /\ ~overlapped' => ~overlapped /\ \A i \in Starts : ~starts[i].on
           /\ starts' \in [Starts -> Slot]
           /\ \/ starts' = starts
              \/ \E i \in Starts :
                    /\ starts'[i].on /\ starts'[i].try = t /\ starts'[i].token = 0
                    /\ starts'[i].follow => t = p.try /\ p.state = "running"
                    /\ \A j \in Starts \ {i} : starts'[j] = starts[j]
PROOF
<1>1. starts \in [Starts -> Slot] /\ MaxLines \in Nat /\ MaxPages \in Nat \ {0}
  BY StreamAssumption, ViewerAssumption DEF ViewerInv, TypeOK, Slot
<1>2. /\ lines' = {} /\ again' = {} /\ cut' = "no" /\ streamState' \in {"idle", "live"}
      /\ overlapped' = (overlapped \/ \E i \in Starts : starts[i].on)
  BY DEF LoadHistory
<1>3. overlapped' \in BOOLEAN
  BY <1>2 DEF ViewerInv, TypeOK
<1>4. ~overlapped' => ~overlapped /\ \A i \in Starts : ~starts[i].on
  BY <1>2
<1>5. CASE starts' = starts
  BY <1>1, <1>2, <1>3, <1>4, <1>5
<1>6. CASE starts' # starts
  <2> DEFINE latest == t = p.try
             active == p.state \in {"running", "queued"}
  <2>1. PICK i \in Starts :
           starts' = [starts EXCEPT ![i] =
                        [NotStarted EXCEPT !.on = TRUE, !.try = t, !.follow = latest /\ active]]
    BY <1>6 DEF LoadHistory
  <2>2. ~(latest /\ p.state = "queued")
    BY <1>6 DEF LoadHistory
  <2> DEFINE x == [on |-> TRUE, try |-> t, follow |-> latest /\ active, token |-> 0, pages |-> 0]
  <2>3. starts' = [starts EXCEPT ![i] = x]
    <3>1. [NotStarted EXCEPT !.on = TRUE, !.try = t, !.follow = latest /\ active] = x
      BY StartedIs
    <3> QED BY <2>1, <3>1
  <2>4. x \in Slot
    BY <1>1 DEF Slot
  <2>5. x.on /\ x.try = t /\ x.token = 0 /\ (x.follow => latest /\ p.state = "running")
    BY <2>2
  <2> HIDE DEF x
  <2>6. starts'[i] = x /\ starts' \in [Starts -> Slot] /\ \A j \in Starts \ {i} : starts'[j] = starts[j]
    BY <1>1, <2>3, <2>4
  <2> QED BY <1>2, <1>3, <1>4, <2>5, <2>6
<1> QED BY <1>5, <1>6

\* The streams are closed before the history is called for.
LEMMA StartKeeps ==
    ASSUME ViewerInv, NEW p \in Instances, NEW t \in Tries, p.state = "running" => Begun(p.try),
           LoadHistory(p, t), selectedTry' = t, controller' = NoStream,
           props' \in Instances, props'.state = "running" => Begun(props'.try),
           mounted' \in {"mounted", "after"}, cache' \in {cache, Known},
           conn' \in [Streams -> Connection],
           \A s \in Streams : conn'[s] = conn[s] \/ conn'[s].pc = "closed",
           ~overlapped => \A s \in Streams : conn'[s].pc = "closed",
           UNCHANGED <<task, log, wipes>>
    PROVE  ViewerInv'
PROOF
<1>1. /\ lines' = {} /\ again' = {} /\ cut' = "no"
      /\ streamState' \in {"idle", "live"} /\ overlapped' \in BOOLEAN
      /\ ~overlapped' => ~overlapped /\ \A i \in Starts : ~starts[i].on
      /\ starts' \in [Starts -> Slot]
      /\ \/ starts' = starts
         \/ \E i \in Starts :
               /\ starts'[i].on /\ starts'[i].try = t /\ starts'[i].token = 0
               /\ starts'[i].follow => t = p.try /\ p.state = "running"
               /\ \A j \in Starts \ {i} : starts'[j] = starts[j]
  BY HistoryIs
<1>2. Known \in Instances /\ (Known.state = "running" => Begun(Known.try))
  BY KnownIs
<1>3. \A u : Begun(u)' <=> Begun(u)
  BY DEF Begun
<1>4. TypeOK'
  BY <1>1, <1>2 DEF ViewerInv, TypeOK, StreamTypeOK, Slot, Connection
<1>5. PastInv'
  BY <1>2, <1>3 DEF ViewerInv, PastInv
<1>6. FollowInv'
  <2>1. \A i \in Starts : starts'[i].on /\ starts'[i].follow => Begun(starts'[i].try)
    BY <1>1 DEF ViewerInv, FollowInv
  <2>2. ~overlapped' => \A s \in Streams : conn'[s].pc = "closed"
    BY <1>1
  <2> QED BY <1>3, <2>1, <2>2 DEF FollowInv
<1>7. OneReaderInv'
  BY <1>1 DEF OneReaderInv
<1>8. WindowInv'
  <2> SUFFICES ASSUME ~overlapped' PROVE WindowInv'
    BY DEF WindowInv
  <2>1. lines' = Up(selectedTry', 0)
    BY <1>1 DEF Up
  <2>2. \A i \in Starts : starts'[i].on => starts'[i].token <= 0
    BY <1>1
  <2>3. \A s \in Streams : conn'[s].pc = "closed"
    BY <1>1
  <2> QED BY <2>1, <2>2, <2>3 DEF WindowInv, Up
<1>9. ReadInv'
  BY <1>1 DEF ViewerInv, ReadInv
<1> QED BY <1>4, <1>5, <1>6, <1>7, <1>8, <1>9 DEF ViewerInv

LEMMA AbortedIs ==
    ASSUME ViewerInv
    PROVE  /\ Aborted \in [Streams -> Connection]
           /\ \A s \in Streams : Aborted[s] = conn[s] \/ Aborted[s].pc = "closed"
           /\ ~overlapped => \A s \in Streams : Aborted[s].pc = "closed"
PROOF
<1>1. conn \in [Streams -> Connection] /\ controller \in Streams \cup {NoStream}
  BY DEF ViewerInv, TypeOK, StreamTypeOK, Connection
<1>2. Closed \in Connection /\ Closed.pc = "closed"
  BY StreamAssumption DEF Closed, Connection
<1>3. ~overlapped => \A s \in Streams : conn[s].pc # "closed" => controller = s
  BY DEF ViewerInv, OneReaderInv
<1>4. CASE controller = NoStream
  BY <1>1, <1>3, <1>4, ViewerAssumption DEF Aborted
<1>5. CASE controller # NoStream
  <2>1. Aborted = [conn EXCEPT ![controller] = Closed] /\ controller \in Streams
    BY <1>1, <1>5 DEF Aborted
  <2> QED BY <1>1, <1>2, <1>3, <2>1
<1> QED BY <1>4, <1>5

LEMMA MountKeeps ==
    ASSUME ViewerInv, Mount
    PROVE  ViewerInv'
PROOF
<1>1. Known \in Instances /\ (Known.state = "running" => Begun(Known.try))
  BY KnownIs
<1>2. Known.try \in Tries
  BY <1>1 DEF Instances
<1>3. /\ LoadHistory(Known, Known.try) /\ selectedTry' = Known.try /\ controller' = NoStream
      /\ props' = Known /\ mounted' = "mounted" /\ cache' = Known /\ conn' = Aborted
      /\ UNCHANGED <<task, log, wipes>>
  BY DEF Mount, Look, StartStream, CloseStream
<1> QED BY <1>1, <1>2, <1>3, AbortedIs, StartKeeps

LEMMA SelectKeeps ==
    ASSUME ViewerInv, NEW t \in Tries, SelectTry(t)
    PROVE  ViewerInv'
PROOF
<1>1. /\ LoadHistory(props, t) /\ selectedTry' = t /\ controller' = NoStream
      /\ mounted = "mounted" /\ conn' = Aborted
      /\ UNCHANGED <<task, log, cache, mounted, props, wipes>>
  BY DEF SelectTry, StartStream, CloseStream
<1>2. props \in Instances /\ (props.state = "running" => Begun(props.try))
  BY <1>1 DEF ViewerInv, ReadInv, PastInv
<1> QED BY <1>1, <1>2, AbortedIs, StartKeeps

LEMMA RefreshKeeps ==
    ASSUME ViewerInv, Refresh
    PROVE  ViewerInv'
PROOF
<1>1. Known \in Instances /\ (Known.state = "running" => Begun(Known.try))
  BY KnownIs
<1>2. /\ mounted = "mounted" /\ cache' = Known /\ props' = Known
      /\ UNCHANGED <<mounted, selectedTry, wipes>>
  BY DEF Refresh, Look
<1>3. selectedTry \in Tries
  BY <1>2 DEF ViewerInv, ReadInv
<1>4. CASE StartStream(Known, selectedTry) /\ UNCHANGED <<task, log>>
  <2>1. /\ LoadHistory(Known, selectedTry) /\ controller' = NoStream /\ conn' = Aborted
        /\ selectedTry' = selectedTry /\ UNCHANGED <<task, log>>
    BY <1>2, <1>4 DEF StartStream, CloseStream
  <2> QED BY <1>1, <1>2, <1>3, <2>1, AbortedIs, StartKeeps
<1>5. CASE UNCHANGED <<task, log, conn, starts, controller, streamState, lines, again,
                      overlapped, cut>>
  <2>1. TypeOK'
    BY <1>1, <1>2, <1>5 DEF ViewerInv, TypeOK, StreamTypeOK
  <2>2. PastInv'
    BY <1>1, <1>2, <1>5 DEF PastInv, Begun
  <2>3. FollowInv'
    BY <1>5 DEF ViewerInv, FollowInv, Begun, Over
  <2>4. OneReaderInv' /\ WindowInv'
    BY <1>2, <1>5 DEF ViewerInv, OneReaderInv, WindowInv, Up
  <2>5. ReadInv'
    BY <1>1, <1>2, <1>5 DEF ViewerInv, ReadInv
  <2> QED BY <2>1, <2>2, <2>3, <2>4, <2>5 DEF ViewerInv
<1> QED BY <1>4, <1>5 DEF Refresh

LEMMA LimitKeeps ==
    ASSUME ViewerInv, NEW s \in Streams, OnLimit(s)
    PROVE  ViewerInv'
PROOF
<1>1. /\ conn[s].pc = "page" /\ conn' = [Aborted EXCEPT ![s] = Closed] /\ controller' = NoStream
      /\ LoadHistory(props, selectedTry)
      /\ UNCHANGED <<task, log, cache, mounted, props, selectedTry, wipes>>
  BY DEF OnLimit
<1>2. mounted \in {"mounted", "after"}
  BY <1>1 DEF ViewerInv, ReadInv, TypeOK
<1>3. /\ props \in Instances /\ selectedTry \in Tries
      /\ props.state = "running" => Begun(props.try)
  BY <1>2 DEF ViewerInv, ReadInv, PastInv
<1>4. Closed \in Connection /\ Closed.pc = "closed"
  BY StreamAssumption DEF Closed, Connection
<1>5. /\ conn' \in [Streams -> Connection]
      /\ \A x \in Streams : conn'[x] = conn[x] \/ conn'[x].pc = "closed"
      /\ ~overlapped => \A x \in Streams : conn'[x].pc = "closed"
  BY <1>1, <1>4, AbortedIs
<1> QED BY <1>1, <1>2, <1>3, <1>5, StartKeeps

-----------------------------------------------------------------------------
(* What reads stops, or goes on without a line.                            *)

LEMMA FewerKeep ==
    ASSUME ViewerInv,
           mounted' = mounted \/ (mounted = "mounted" /\ mounted' = "after"),
           cache' \in {cache, Known}, streamState' \in {"idle", "live", "done", "error"},
           starts' \in [Starts -> Slot],
           \A i \in Starts : starts'[i] = starts[i] \/ ~starts'[i].on,
           conn' \in [Streams -> Connection],
           \A s \in Streams :
              \/ conn'[s] = conn[s] \/ conn'[s].pc = "closed"
              \/ /\ conn[s].pc # "closed" /\ conn'[s].pc = "page"
                 /\ conn'[s].try = conn[s].try /\ conn'[s].token = conn[s].token,
           \/ controller' = controller
           \/ controller' = NoStream /\ (~overlapped => \A s \in Streams : conn'[s].pc = "closed"),
           cut' \in {"no", "told", "silent"},
           UNCHANGED <<task, log, props, selectedTry, lines, again, wipes, overlapped>>
    PROVE  ViewerInv'
PROOF
<1>1. Known \in Instances /\ (Known.state = "running" => Begun(Known.try))
  BY KnownIs
<1>2. /\ \A t : Begun(t)' <=> Begun(t)
      /\ \A t : Over(t)' <=> Over(t)
  BY DEF Begun, Over
<1>3. TypeOK'
  BY <1>1 DEF ViewerInv, TypeOK, StreamTypeOK, Slot, Connection
<1>4. PastInv'
  BY <1>1, <1>2 DEF ViewerInv, PastInv
<1>5. FollowInv'
  <2>1. \A i \in Starts : starts'[i].on /\ starts'[i].follow => Begun(starts'[i].try)
    BY DEF ViewerInv, FollowInv
  <2>2. ~overlapped' => \A s \in Streams : conn'[s].pc # "closed" => Begun(conn'[s].try)
    BY DEF ViewerInv, FollowInv
  <2>3. ~overlapped' => \A s \in Streams : conn'[s].pc = "check" => Over(conn'[s].try)
    BY DEF ViewerInv, FollowInv
  <2> QED BY <1>2, <2>1, <2>2, <2>3 DEF FollowInv
<1>6. OneReaderInv'
  BY DEF ViewerInv, OneReaderInv
<1>7. WindowInv'
  <2> SUFFICES ASSUME ~overlapped, wipes = 0 PROVE WindowInv'
    BY DEF WindowInv
  <2>1. PICK k \in Nat :
          /\ lines = Up(selectedTry, k)
          /\ k > 0 => selectedTry \in Tries /\ k <= log[selectedTry]
          /\ \A i \in Starts : starts[i].on => starts[i].token <= k
          /\ \A s \in Streams :
                conn[s].pc # "closed" => /\ conn[s].token <= k
                                         /\ conn[s].pc = "check" => k = log[selectedTry]
    BY DEF ViewerInv, WindowInv
  <2>2. \A i \in Starts : starts'[i].on => starts'[i].token <= k
    BY <2>1
  <2>3. \A s \in Streams :
           conn'[s].pc # "closed" => /\ conn'[s].token <= k
                                     /\ conn'[s].pc = "check" => k = log[selectedTry]
    BY <2>1
  <2> QED BY <2>1, <2>2, <2>3 DEF WindowInv, Up
<1>8. ReadInv'
  BY DEF ViewerInv, ReadInv
<1> QED BY <1>3, <1>4, <1>5, <1>6, <1>7, <1>8 DEF ViewerInv

LEMMA StoppedIs ==
    ASSUME ViewerInv, NEW i \in Starts
    PROVE  /\ [starts EXCEPT ![i] = NotStarted] \in [Starts -> Slot]
           /\ ~[starts EXCEPT ![i] = NotStarted][i].on
           /\ \A j \in Starts \ {i} : [starts EXCEPT ![i] = NotStarted][j] = starts[j]
PROOF
<1>1. starts \in [Starts -> Slot]
  BY DEF ViewerInv, TypeOK, Slot
<1>2. NotStarted \in Slot /\ ~NotStarted.on
  BY StreamAssumption, ViewerAssumption DEF NotStarted, Slot
<1> QED BY <1>1, <1>2

LEMMA UnmountKeeps ==
    ASSUME ViewerInv, Unmount
    PROVE  ViewerInv'
PROOF
<1>1. /\ mounted = "mounted" /\ mounted' = "after" /\ conn' = Aborted /\ controller' = NoStream
      /\ UNCHANGED <<task, log, cache, props, selectedTry, starts, streamState, lines, again, wipes,
                     overlapped, cut>>
  BY DEF Unmount, CloseStream
<1>2. /\ starts' \in [Starts -> Slot] /\ streamState' \in {"idle", "live", "done", "error"}
      /\ cut' \in {"no", "told", "silent"}
  BY <1>1 DEF ViewerInv, TypeOK, Slot
<1> QED BY <1>1, <1>2, AbortedIs, FewerKeep

LEMMA HistoryFailsKeeps ==
    ASSUME ViewerInv, NEW i \in Starts, HistoryFails(i)
    PROVE  ViewerInv'
PROOF
<1>1. /\ starts' = [starts EXCEPT ![i] = NotStarted] /\ streamState' = "error"
      /\ UNCHANGED <<task, log, cache, conn, mounted, props, selectedTry, controller, lines,
                     again, wipes, overlapped, cut>>
  BY DEF HistoryFails, streamVars
<1>2. starts' \in [Starts -> Slot] /\ \A j \in Starts : starts'[j] = starts[j] \/ ~starts'[j].on
  BY <1>1, StoppedIs
<1>3. conn' \in [Streams -> Connection] /\ cut' \in {"no", "told", "silent"}
  BY <1>1 DEF ViewerInv, TypeOK, StreamTypeOK, Connection
<1> QED BY <1>1, <1>2, <1>3, FewerKeep

\* The stream's own steps without a line: it goes on, ends or breaks.
LEMMA QuietStreamKeeps ==
    ASSUME ViewerInv, NEW s \in Streams,
           OnNothing(s) \/ OnEnd(s) \/ OnError(s) \/ OnCancelled(s) \/ OnSilence(s)
    PROVE  ViewerInv'
PROOF
<1>1. /\ streamState' \in {"idle", "live", "done", "error"} /\ cache' \in {cache, Known}
      /\ cut' \in {"no", "told", "silent"}
      /\ UNCHANGED <<task, log, mounted, props, selectedTry, starts, controller, lines, again,
                     wipes, overlapped>>
  BY DEF OnNothing, OnEnd, OnError, OnCancelled, OnSilence, Carry, CarryBlindly, SendEnd, Break,
         Cancel, Drop, Look, viewerVars, ViewerInv, TypeOK
<1>2. /\ conn[s].pc # "closed"
      /\ conn' = [conn EXCEPT ![s] = Closed] \/ conn' = [conn EXCEPT ![s].pc = "page"]
  BY DEF OnNothing, OnEnd, OnError, OnCancelled, OnSilence, Carry, CarryBlindly, SendEnd, Break,
         Cancel, Drop
<1>3. conn \in [Streams -> Connection] /\ starts' \in [Starts -> Slot]
  BY <1>1 DEF ViewerInv, TypeOK, StreamTypeOK, Connection, Slot
<1>4. CASE conn' = [conn EXCEPT ![s] = Closed]
  <2>1. Closed \in Connection /\ Closed.pc = "closed"
    BY StreamAssumption DEF Closed, Connection
  <2> QED BY <1>1, <1>3, <1>4, <2>1, FewerKeep
<1>5. CASE conn' = [conn EXCEPT ![s].pc = "page"]
  <2>1. /\ conn' \in [Streams -> Connection]
        /\ conn'[s].pc = "page" /\ conn'[s].try = conn[s].try /\ conn'[s].token = conn[s].token
        /\ \A x \in Streams \ {s} : conn'[x] = conn[x]
    BY <1>3, <1>5 DEF Connection
  <2> QED BY <1>1, <1>2, <1>3, <2>1, FewerKeep
<1> QED BY <1>2, <1>4, <1>5

LEMMA WipeKeeps ==
    ASSUME ViewerInv, Wipe
    PROVE  ViewerInv'
PROOF
<1>1. /\ lines' = {} /\ again' = {} /\ wipes' = wipes + 1 /\ wipes < MaxWipes
      /\ UNCHANGED <<task, log, cache, conn, mounted, props, selectedTry, starts, controller,
                     streamState, overlapped, cut>>
  BY DEF Wipe, streamVars
<1>2. wipes \in 0..MaxWipes /\ MaxWipes \in Nat
  BY ViewerAssumption DEF ViewerInv, TypeOK
<1>3. TypeOK'
  BY <1>1, <1>2 DEF ViewerInv, TypeOK, StreamTypeOK
<1>4. PastInv' /\ FollowInv' /\ OneReaderInv' /\ ReadInv'
  BY <1>1 DEF ViewerInv, PastInv, FollowInv, OneReaderInv, ReadInv, Begun, Over
<1>5. WindowInv'
  BY <1>1, <1>2 DEF WindowInv
<1> QED BY <1>3, <1>4, <1>5 DEF ViewerInv

-----------------------------------------------------------------------------
(* A page comes in.                                                        *)

\* A page that does not begin behind what is there fills the window up to the log's end.
LEMMA PageFills ==
    ASSUME ViewerInv, selectedTry \in Tries, NEW k \in Nat, lines = Up(selectedTry, k),
           k > 0 => k <= log[selectedTry], NEW j \in 0..MaxLines, j <= k
    PROVE  /\ lines \cup Read(selectedTry, Page(selectedTry, j)) = Up(selectedTry, log[selectedTry])
           /\ log[selectedTry] \in Nat /\ log[selectedTry] <= MaxLines
PROOF
<1>1. /\ Page(selectedTry, j) = (j + 1)..log[selectedTry]
      /\ log[selectedTry] \in 0..MaxLines /\ MaxLines \in Nat
  BY PageIs, StreamAssumption
<1>2. k <= log[selectedTry] /\ j \in Nat /\ log[selectedTry] \in Nat
  BY <1>1
<1>3. Up(selectedTry, k) \cup Read(selectedTry, (j + 1)..log[selectedTry])
        = Up(selectedTry, log[selectedTry])
  BY <1>2, ReadOn
<1> QED BY <1>1, <1>3

\* What a startStream under way and an open stream are known to do.
LEMMA StartIs ==
    ASSUME ViewerInv, NEW i \in Starts, starts[i].on
    PROVE  /\ starts[i].try \in Tries /\ starts[i].token \in 0..MaxLines
           /\ starts[i].pages \in 0..(MaxPages - 1)
           /\ starts[i].follow => Begun(starts[i].try)
           /\ mounted # "before" /\ selectedTry \in Tries
PROOF
<1>1. starts \in [Starts -> Slot]
  BY DEF ViewerInv, TypeOK, Slot
<1> QED BY <1>1 DEF Slot, ViewerInv, ReadInv, FollowInv

LEMMA StreamIs ==
    ASSUME ViewerInv, NEW s \in Streams, conn[s].pc # "closed"
    PROVE  /\ conn[s].try \in Tries /\ conn[s].token \in 0..MaxLines
           /\ conn[s].got \in SUBSET (1..MaxLines)
           /\ mounted # "before" /\ selectedTry \in Tries
PROOF
<1>1. conn \in [Streams -> Connection]
  BY DEF ViewerInv, TypeOK, StreamTypeOK, Connection
<1> QED BY <1>1 DEF Connection, ViewerInv, ReadInv

\* A page of the history, while nothing else reads.
LEMMA HistoryFills ==
    ASSUME ViewerInv, NEW i \in Starts, starts[i].on, ~overlapped, wipes = 0,
           AppendLines(starts[i].try, Page(starts[i].try, starts[i].token))
    PROVE  /\ lines' = Up(selectedTry, log[selectedTry])
           /\ log[selectedTry] \in Nat /\ log[selectedTry] <= MaxLines
PROOF
<1>1. starts[i].try = selectedTry /\ starts[i].token \in 0..MaxLines /\ selectedTry \in Tries
  BY StartIs DEF ViewerInv, OneReaderInv
<1>2. PICK k \in Nat : /\ lines = Up(selectedTry, k)
                       /\ k > 0 => k <= log[selectedTry]
                       /\ starts[i].token <= k
  BY DEF ViewerInv, WindowInv
<1> DEFINE j == starts[i].token
<1>3. lines' = lines \cup Read(selectedTry, Page(selectedTry, j))
  BY <1>1 DEF AppendLines, Read
<1>4. j \in 0..MaxLines /\ j <= k
  BY <1>1, <1>2
<1> HIDE DEF j
<1> QED BY <1>1, <1>2, <1>3, <1>4, PageFills

LEMMA AppendsLines ==
    ASSUME ViewerInv, NEW t \in Tries, NEW j \in 0..MaxLines, AppendLines(t, Page(t, j))
    PROVE  lines' \subseteq Tries \X (1..MaxLines) /\ again' \subseteq lines'
PROOF
<1>1. Page(t, j) \subseteq 1..MaxLines
  BY PageIs
<1> QED BY <1>1 DEF AppendLines, ViewerInv, TypeOK

LEMMA HistoryPageKeeps ==
    ASSUME ViewerInv, NEW i \in Starts, HistoryPage(i)
    PROVE  ViewerInv'
PROOF
<1> DEFINE h == starts[i]
<1>1. /\ h.on /\ Active(h.try) /\ h.pages + 1 < MaxPages
      /\ AppendLines(h.try, Page(h.try, h.token))
      /\ starts' = [starts EXCEPT ![i].token = NextToken(h.try), ![i].pages = @ + 1]
      /\ UNCHANGED <<task, log, cache, conn, mounted, props, selectedTry, controller, streamState,
                     wipes, overlapped, cut>>
  BY DEF HistoryPage, streamVars
<1>2. /\ h.try \in Tries /\ h.token \in 0..MaxLines /\ h.pages \in 0..(MaxPages - 1)
      /\ selectedTry \in Tries
  BY <1>1, StartIs
<1>3. starts \in [Starts -> Slot] /\ MaxPages \in Nat \ {0} /\ MaxLines \in Nat
  BY StreamAssumption, ViewerAssumption DEF ViewerInv, TypeOK, Slot
<1>4. NextToken(h.try) \in 0..log[h.try] /\ log[h.try] \in 0..MaxLines
  BY <1>2, PageIs
<1>5. /\ starts' \in [Starts -> Slot]
      /\ starts'[i].on = h.on /\ starts'[i].try = h.try /\ starts'[i].follow = h.follow
      /\ starts'[i].token = NextToken(h.try)
      /\ \A j \in Starts \ {i} : starts'[j] = starts[j]
  <2>1. NextToken(h.try) \in 0..MaxLines /\ h.pages + 1 \in 0..(MaxPages - 1)
    BY <1>1, <1>2, <1>3, <1>4
  <2> DEFINE one == [starts EXCEPT ![i].token = NextToken(h.try)]
  <2>2. /\ one \in [Starts -> Slot] /\ one[i].on = h.on /\ one[i].try = h.try
        /\ one[i].follow = h.follow /\ one[i].token = NextToken(h.try) /\ one[i].pages = h.pages
        /\ \A j \in Starts \ {i} : one[j] = starts[j]
    BY <1>3, <2>1 DEF Slot
  <2>3. starts' = [one EXCEPT ![i].pages = h.pages + 1]
    BY <1>1, <2>2
  <2> HIDE DEF one
  <2> QED BY <2>1, <2>2, <2>3 DEF Slot
<1> HIDE DEF h
<1>6. /\ \A t : Begun(t)' <=> Begun(t)
      /\ \A t : Over(t)' <=> Over(t)
  BY <1>1 DEF Begun, Over
<1>7. \A j \in Starts : /\ starts'[j].on = starts[j].on /\ starts'[j].try = starts[j].try
                        /\ starts'[j].follow = starts[j].follow
  BY <1>5 DEF h
<1>8. TypeOK'
  <2>1. lines' \subseteq Tries \X (1..MaxLines) /\ again' \subseteq lines'
    BY <1>1, <1>2, AppendsLines DEF h
  <2> QED BY <1>1, <1>5, <2>1 DEF ViewerInv, TypeOK, StreamTypeOK, Slot
<1>9. PastInv' /\ FollowInv'
  BY <1>1, <1>6, <1>7 DEF ViewerInv, PastInv, FollowInv
<1>10. OneReaderInv'
  BY <1>1, <1>7 DEF ViewerInv, OneReaderInv
<1>11. WindowInv'
  <2> SUFFICES ASSUME ~overlapped, wipes = 0 PROVE WindowInv'
    BY <1>1 DEF WindowInv
  <2>1. /\ lines' = Up(selectedTry, log[selectedTry])
        /\ log[selectedTry] \in Nat /\ log[selectedTry] <= MaxLines
    BY <1>1, HistoryFills DEF h
  <2>2. \A s \in Streams : conn[s].pc = "closed"
    BY <1>1, ViewerAssumption DEF ViewerInv, OneReaderInv, h
  <2>3. \A j \in Starts : starts'[j].on => starts'[j].token <= log[selectedTry]
    <3>1. \A j \in Starts : starts[j].on => j = i /\ starts[j].try = selectedTry
      BY <1>1 DEF ViewerInv, OneReaderInv, h
    <3> QED BY <1>1, <1>4, <1>5, <1>7, <2>1, <3>1 DEF h
  <2> DEFINE k == log[selectedTry]
  <2>4. /\ k \in Nat /\ lines' = Up(selectedTry', k) /\ selectedTry' \in Tries
        /\ k <= log'[selectedTry'] /\ \A j \in Starts : starts'[j].on => starts'[j].token <= k
        /\ \A s \in Streams : conn'[s].pc = "closed"
    <3>1. k \in Nat /\ lines' = Up(selectedTry', k) /\ selectedTry' \in Tries /\ k <= log'[selectedTry']
      BY <1>1, <1>2, <2>1
    <3>2. \A s \in Streams : conn'[s].pc = "closed"
      BY <1>1, <2>2
    <3> QED BY <2>3, <3>1, <3>2
  <2> HIDE DEF k
  <2> QED BY <2>4 DEF WindowInv, Up
<1>12. ReadInv'
  BY <1>1, <1>7 DEF ViewerInv, ReadInv
<1> QED BY <1>8, <1>9, <1>10, <1>11, <1>12 DEF ViewerInv

\* The window is full, whatever k: the conjuncts of WindowInv', one by one.
LEMMA FullWindow ==
    ASSUME NEW k \in Nat, lines' = Up(selectedTry', k), selectedTry' \in Tries,
           k <= log'[selectedTry'], \A i \in Starts : starts'[i].on => starts'[i].token <= k,
           \A s \in Streams : conn'[s].pc # "closed" => conn'[s].token <= k,
           \A s \in Streams : conn'[s].pc = "check" => k = log'[selectedTry']
    PROVE  WindowInv'
PROOF
<1>1. \A s \in Streams : conn'[s].pc # "closed" =>
         /\ conn'[s].token <= k
         /\ conn'[s].pc = "check" => k = log'[selectedTry']
  OBVIOUS
<1> QED BY <1>1 DEF WindowInv, Up

\* The last page; a stream is opened or not.
LEMMA LastPageKeeps ==
    ASSUME ViewerInv, NEW i \in Starts, LastPage(i), streamState' \in {"live", "done"},
           conn' \in [Streams -> Connection],
           \/ conn' = conn /\ controller' = controller
           \/ /\ starts[i].follow /\ controller' \in Streams
              /\ conn'[controller'].pc = "page" /\ conn'[controller'].try = selectedTry
              /\ conn'[controller'].token = 0
              /\ \A s \in Streams \ {controller'} : conn'[s] = conn[s],
           UNCHANGED <<task, log, cache, mounted, props, selectedTry, wipes, overlapped, cut>>
    PROVE  ViewerInv'
PROOF
<1>1. /\ starts[i].on /\ AppendLines(starts[i].try, Page(starts[i].try, starts[i].token))
      /\ starts' = [starts EXCEPT ![i] = NotStarted]
  BY DEF LastPage
<1>2. /\ starts[i].try \in Tries /\ starts[i].token \in 0..MaxLines
      /\ starts[i].follow => Begun(starts[i].try)
      /\ mounted # "before" /\ selectedTry \in Tries
  BY <1>1, StartIs
<1>3. /\ starts' \in [Starts -> Slot] /\ ~starts'[i].on
      /\ \A j \in Starts \ {i} : starts'[j] = starts[j]
  BY <1>1, StoppedIs
<1>4. /\ \A t : Begun(t)' <=> Begun(t)
      /\ \A t : Over(t)' <=> Over(t)
  BY DEF Begun, Over
<1>5. \A j \in Starts : starts'[j].on => starts'[j] = starts[j] /\ starts[j].on
  BY <1>3
<1>6. ~overlapped => /\ starts[i].try = selectedTry
                     /\ \A s \in Streams : conn[s].pc = "closed"
                     /\ \A j \in Starts : ~starts'[j].on
  BY <1>1, <1>3, <1>5, ViewerAssumption DEF ViewerInv, OneReaderInv
<1>7. TypeOK'
  <2>1. lines' \subseteq Tries \X (1..MaxLines) /\ again' \subseteq lines'
    BY <1>1, <1>2, AppendsLines
  <2>2. controller' \in Streams \cup {NoStream}
    BY DEF ViewerInv, TypeOK
  <2> QED BY <1>3, <2>1, <2>2 DEF ViewerInv, TypeOK, StreamTypeOK, Slot, Connection
<1>8. PastInv' /\ FollowInv'
  <2>1. \A j \in Starts : starts'[j].on /\ starts'[j].follow => Begun(starts'[j].try)
    BY <1>5 DEF ViewerInv, FollowInv
  <2>2. ~overlapped => \A s \in Streams : conn'[s].pc # "closed" => Begun(conn'[s].try)
    BY <1>2, <1>6
  <2>3. ~overlapped => \A s \in Streams : conn'[s].pc # "check"
    BY <1>6
  <2> QED BY <1>4, <2>1, <2>2, <2>3 DEF ViewerInv, PastInv, FollowInv
<1>9. OneReaderInv'
  BY <1>6 DEF OneReaderInv
<1>10. WindowInv'
  <2> SUFFICES ASSUME ~overlapped, wipes = 0 PROVE WindowInv'
    BY DEF WindowInv
  <2>1. /\ lines' = Up(selectedTry, log[selectedTry])
        /\ log[selectedTry] \in Nat /\ log[selectedTry] <= MaxLines
    BY <1>1, HistoryFills
  <2>2. \A s \in Streams : conn'[s].pc # "closed" => conn'[s].token = 0 /\ conn'[s].pc = "page"
    BY <1>6
  <2> DEFINE k == log[selectedTry]
  <2>3. /\ k \in Nat /\ lines' = Up(selectedTry', k) /\ selectedTry' \in Tries
        /\ k <= log'[selectedTry'] /\ 0 <= k
    BY <1>2, <2>1
  <2>4. \A j \in Starts : starts'[j].on => starts'[j].token <= k
    BY <1>6
  <2>5. \A s \in Streams : conn'[s].pc # "closed" => conn'[s].token <= k
    BY <2>2, <2>3
  <2>6. \A s \in Streams : conn'[s].pc = "check" => k = log'[selectedTry']
    BY <2>2
  <2> HIDE DEF k
  <2> QED BY <2>3, <2>4, <2>5, <2>6, FullWindow
<1>11. ReadInv'
  BY <1>2, <1>5 DEF ViewerInv, ReadInv
<1> QED BY <1>7, <1>8, <1>9, <1>10, <1>11 DEF ViewerInv

LEMMA ShowOnlyKeeps ==
    ASSUME ViewerInv, NEW i \in Starts, ShowOnly(i)
    PROVE  ViewerInv'
PROOF
<1>1. /\ LastPage(i) /\ streamState' = "done"
      /\ UNCHANGED <<task, log, cache, conn, mounted, props, selectedTry, controller, wipes,
                     overlapped, cut>>
  BY DEF ShowOnly, streamVars
<1>2. conn' \in [Streams -> Connection]
  BY <1>1 DEF ViewerInv, TypeOK, StreamTypeOK, Connection
<1> QED BY <1>1, <1>2, LastPageKeeps

LEMMA FollowKeeps ==
    ASSUME ViewerInv, NEW i \in Starts, Follow(i)
    PROVE  ViewerInv'
PROOF
<1>1. /\ starts[i].follow /\ LastPage(i) /\ streamState' = "live"
      /\ UNCHANGED <<task, log, cache, mounted, props, selectedTry, wipes, overlapped, cut>>
  BY DEF Follow
<1>2. PICK s \in Streams : conn' = [conn EXCEPT ![s] = Open(selectedTry)] /\ controller' = s
  BY DEF Follow
<1>3. conn \in [Streams -> Connection] /\ selectedTry \in {0} \cup Tries
  BY DEF ViewerInv, TypeOK, StreamTypeOK, Connection
<1>4. Open(selectedTry) = [pc |-> "page", try |-> selectedTry, token |-> 0, got |-> {}]
  <2> DEFINE C(p, t) == [pc |-> p, try |-> t, token |-> 0, got |-> {}]
  <2>1. [C("closed", 0) EXCEPT !.pc = "page"] = C("page", 0)
    OBVIOUS
  <2>2. [C("page", 0) EXCEPT !.try = selectedTry] = C("page", selectedTry)
    OBVIOUS
  <2> QED BY <2>1, <2>2 DEF Open, Closed
<1>5. [pc |-> "page", try |-> selectedTry, token |-> 0, got |-> {}] \in Connection
  BY <1>3, StreamAssumption DEF Connection
<1>6. /\ conn' \in [Streams -> Connection]
      /\ conn'[s] = [pc |-> "page", try |-> selectedTry, token |-> 0, got |-> {}]
      /\ \A x \in Streams \ {s} : conn'[x] = conn[x]
  BY <1>2, <1>3, <1>4, <1>5
<1>7. /\ conn'[controller'].pc = "page" /\ conn'[controller'].try = selectedTry
      /\ conn'[controller'].token = 0
  BY <1>2, <1>6
<1> QED BY <1>1, <1>2, <1>6, <1>7, LastPageKeeps

LEMMA OnChunkKeeps ==
    ASSUME ViewerInv, NEW s \in Streams, OnChunk(s)
    PROVE  ViewerInv'
PROOF
<1> DEFINE c == conn[s]
           pc == IF Active(c.try) THEN "page" ELSE "check"
           got == c.got \cup Page(c.try, c.token)
<1>1. /\ c.pc = "page" /\ AppendLines(c.try, Page(c.try, c.token))
      /\ conn' = [conn EXCEPT ![s] = [c EXCEPT !.token = NextToken(c.try), !.pc = pc, !.got = got]]
      /\ UNCHANGED <<task, log, cache, mounted, props, selectedTry, starts, controller, streamState,
                     wipes, overlapped, cut>>
  BY DEF OnChunk, SendPage
<1>2. /\ c.try \in Tries /\ c.token \in 0..MaxLines /\ c.got \in SUBSET (1..MaxLines)
      /\ mounted # "before" /\ selectedTry \in Tries
  BY <1>1, StreamIs
<1>3. conn \in [Streams -> Connection] /\ MaxLines \in Nat
  BY StreamAssumption DEF ViewerInv, TypeOK, StreamTypeOK, Connection
<1>4. /\ NextToken(c.try) \in 0..log[c.try] /\ log[c.try] \in 0..MaxLines
      /\ Page(c.try, c.token) \subseteq 1..MaxLines
  BY <1>2, PageIs
<1>5. /\ conn' \in [Streams -> Connection]
      /\ conn'[s].pc = pc /\ conn'[s].try = c.try /\ conn'[s].token = NextToken(c.try)
      /\ \A x \in Streams \ {s} : conn'[x] = conn[x]
  <2>1. c \in Connection /\ NextToken(c.try) \in 0..MaxLines /\ got \in SUBSET (1..MaxLines)
    BY <1>2, <1>3, <1>4
  <2>2. pc \in {"closed", "page", "check"}
    OBVIOUS
  <2> DEFINE k == NextToken(c.try)
             t == c.try
             new == [c EXCEPT !.token = k, !.pc = pc, !.got = got]
  <2>3. conn' = [conn EXCEPT ![s] = new]
    BY <1>1
  <2> HIDE DEF c, k, t, pc, got
  <2>4. new \in Connection /\ new.pc = pc /\ new.token = k /\ new.try = t
    BY <2>1, <2>2 DEF Connection, k, t
  <2> HIDE DEF new
  <2> QED BY <1>3, <2>3, <2>4 DEF k, t
<1>6. /\ \A t : Begun(t)' <=> Begun(t)
      /\ \A t : Over(t)' <=> Over(t)
  BY <1>1 DEF Begun, Over
<1>7. TypeOK'
  <2>1. lines' \subseteq Tries \X (1..MaxLines) /\ again' \subseteq lines'
    BY <1>1, <1>2, AppendsLines
  <2> QED BY <1>1, <1>5, <2>1 DEF ViewerInv, TypeOK, StreamTypeOK, Connection
<1>8. PastInv' /\ FollowInv'
  <2>1. ~overlapped => Begun(c.try)
    BY <1>1 DEF ViewerInv, FollowInv
  <2>2. ~overlapped /\ pc = "check" => Over(c.try)
    <3>1. Begun(c.try) /\ ~Active(c.try) => Over(c.try)
      <4>1. task \in Instances
        BY DEF ViewerInv, TypeOK, StreamTypeOK
      <4> QED BY <4>1 DEF Begun, Active, Over, Instances, TaskStates, Finished
    <3> QED BY <2>1, <3>1
  <2>3. ~overlapped => \A x \in Streams : conn'[x].pc # "closed" => Begun(conn'[x].try)
    BY <1>1, <1>5, <2>1 DEF ViewerInv, FollowInv
  <2>4. ~overlapped => \A x \in Streams : conn'[x].pc = "check" => Over(conn'[x].try)
    BY <1>5, <2>2 DEF ViewerInv, FollowInv
  <2> QED BY <1>1, <1>6, <2>3, <2>4 DEF ViewerInv, PastInv, FollowInv
<1>9. OneReaderInv'
  BY <1>1, <1>5 DEF ViewerInv, OneReaderInv
<1>10. WindowInv'
  <2> SUFFICES ASSUME ~overlapped, wipes = 0 PROVE WindowInv'
    BY <1>1 DEF WindowInv
  <2>1. /\ c.try = selectedTry
        /\ \A i \in Starts : ~starts[i].on
        /\ \A x \in Streams \ {s} : conn[x].pc = "closed"
    BY <1>1, ViewerAssumption DEF ViewerInv, OneReaderInv
  <2>2. PICK j \in Nat : /\ lines = Up(selectedTry, j)
                         /\ j > 0 => j <= log[selectedTry]
                         /\ c.token <= j
    BY <1>1 DEF ViewerInv, WindowInv
  <2> DEFINE k == log[selectedTry]
             token == c.token
  <2>3. token \in 0..MaxLines /\ token <= j
    BY <1>2, <2>2
  <2>4. lines' = lines \cup Read(selectedTry, Page(selectedTry, token))
    BY <1>1, <2>1 DEF AppendLines, Read
  <2> HIDE DEF token
  <2>5. lines' = Up(selectedTry, k) /\ k \in Nat
    BY <1>2, <2>2, <2>3, <2>4, PageFills
  <2>6. lines' = Up(selectedTry', k) /\ selectedTry' \in Tries /\ k <= log'[selectedTry'] /\ k = log'[selectedTry']
    BY <1>1, <1>2, <2>5
  <2>7. \A i \in Starts : starts'[i].on => starts'[i].token <= k
    BY <1>1, <2>1
  <2>8. \A x \in Streams : conn'[x].pc # "closed" => conn'[x].token <= k
    BY <1>4, <1>5, <2>1, <2>5
  <2> HIDE DEF k
  <2> QED BY <2>5, <2>6, <2>7, <2>8, FullWindow
<1>11. ReadInv'
  BY <1>1, <1>2, <1>5 DEF ViewerInv, ReadInv
<1> QED BY <1>7, <1>8, <1>9, <1>10, <1>11 DEF ViewerInv

-----------------------------------------------------------------------------
(* LogViewer: the theorems.                                                *)

LEMMA ViewerStarts == Init => ViewerInv
PROOF
<1> SUFFICES ASSUME Init PROVE ViewerInv
  OBVIOUS
<1>1. /\ task = [state |-> "queued", try |-> 1] /\ log = [t \in Tries |-> 0] /\ cache = Nothing
      /\ conn = [s \in Streams |-> Closed]
      /\ mounted = "before" /\ props = Nothing /\ selectedTry = 0
      /\ starts = [i \in Starts |-> NotStarted]
      /\ controller = NoStream
      /\ streamState = "idle" /\ lines = {} /\ again = {} /\ wipes = 0
      /\ overlapped = FALSE /\ cut = "no"
  BY DEF Init, StreamInit
<1>2. Closed \in Connection /\ Closed.pc = "closed" /\ NotStarted \in Slot /\ ~NotStarted.on
  BY StreamAssumption, ViewerAssumption DEF Closed, Connection, NotStarted, Slot
<1>3. TypeOK
  <2>1. task \in Instances /\ 0 \in 0..MaxLines /\ 0 \in 0..MaxWipes
    BY <1>1, StreamAssumption, ViewerAssumption DEF Instances, TaskStates, Tries
  <2> QED BY <1>1, <1>2, <2>1 DEF TypeOK, StreamTypeOK, Connection, Slot
<1>4. PastInv /\ FollowInv /\ OneReaderInv /\ ReadInv
  BY <1>1, <1>2 DEF PastInv, FollowInv, OneReaderInv, ReadInv, Nothing
<1>5. WindowInv
  <2>1. lines = Up(selectedTry, 0)
    BY <1>1 DEF Up
  <2> QED BY <1>1, <1>2, <2>1 DEF WindowInv
<1> QED BY <1>3, <1>4, <1>5 DEF ViewerInv

LEMMA ViewerKeeps == ViewerInv /\ [Next]_vars => ViewerInv'
PROOF
<1> SUFFICES ASSUME ViewerInv, [Next]_vars PROVE ViewerInv'
  OBVIOUS
<1>1. CASE UNCHANGED vars
  BY <1>1 DEF ViewerInv, TypeOK, StreamTypeOK, PastInv, FollowInv, OneReaderInv, WindowInv, ReadInv,
              Up, Begun, Over, vars, streamVars, viewerVars
<1>2. CASE (Airflow \/ CacheExpires) /\ UNCHANGED viewerVars
  BY <1>2, AirflowKeeps
<1>3. CASE Mount \/ Unmount \/ Refresh \/ Wipe
  BY <1>3, MountKeeps, UnmountKeeps, RefreshKeeps, WipeKeeps
<1>4. ASSUME NEW t \in Tries, SelectTry(t) PROVE ViewerInv'
  BY <1>4, SelectKeeps
<1>5. ASSUME NEW i \in Starts, Fetching(i) PROVE ViewerInv'
  BY <1>5, HistoryPageKeeps, ShowOnlyKeeps, FollowKeeps, HistoryFailsKeeps DEF Fetching
<1>6. ASSUME NEW s \in Streams,
             \/ OnChunk(s) \/ OnNothing(s) \/ OnEnd(s) \/ OnError(s)
             \/ OnCancelled(s) \/ OnSilence(s) \/ OnLimit(s)
      PROVE  ViewerInv'
  BY <1>6, OnChunkKeeps, QuietStreamKeeps, LimitKeeps
<1> QED BY <1>1, <1>2, <1>3, <1>4, <1>5, <1>6 DEF Next

LEMMA ViewerInvariance == Spec => []ViewerInv
PROOF BY ViewerStarts, ViewerKeeps, PTL DEF Spec

\* The values the variables take, in LogStream and in LogViewer.
THEOREM ViewerTypeCorrect == Spec => []TypeOK
PROOF
<1>1. ViewerInv => TypeOK
  BY DEF ViewerInv
<1> QED BY <1>1, ViewerInvariance, PTL

\* What the window holds of the selected try is the beginning of its log, whatever pages
\* and chunks come in.
THEOREM NoHoleHolds == Spec => []NoHole
PROOF
<1>1. ViewerInv => NoHole
  BY DEF ViewerInv, WindowInv, Up, NoHole
<1> QED BY <1>1, ViewerInvariance, PTL

\* A startStream under way alone has filled the window, up to its token and with each
\* line once.
OnceInv ==
    ~overlapped /\ wipes = 0 =>
       \A i \in Starts : starts[i].on => again = {} /\ lines = Up(selectedTry, starts[i].token)

\* A page does not repeat a line that lies before its token.
LEMMA PageIsNew ==
    ASSUME ViewerInv, OnceInv, NEW i \in Starts, starts[i].on, ~overlapped, wipes = 0,
           AppendLines(starts[i].try, Page(starts[i].try, starts[i].token))
    PROVE  again' = {}
PROOF
<1> DEFINE j == starts[i].token
<1>1. starts[i].try = selectedTry /\ j \in 0..MaxLines /\ selectedTry \in Tries
  BY StartIs DEF ViewerInv, OneReaderInv
<1>2. lines = Up(selectedTry, j) /\ again = {}
  BY DEF OnceInv
<1>3. Page(selectedTry, j) = (j + 1)..log[selectedTry] /\ log[selectedTry] \in Nat /\ j \in Nat
  <2>1. log[selectedTry] \in 0..MaxLines /\ MaxLines \in Nat
    BY <1>1, PageIs, StreamAssumption
  <2> QED BY <1>1, <2>1, PageIs
<1>4. again' = again \cup (Read(selectedTry, Page(selectedTry, j)) \cap lines)
  BY <1>1 DEF AppendLines, Read
<1> HIDE DEF j
<1>5. Read(selectedTry, (j + 1)..log[selectedTry]) \cap Up(selectedTry, j) = {}
  BY <1>3 DEF Read, Up
<1> QED BY <1>2, <1>3, <1>4, <1>5

\* Steps that leave the window and every startStream that goes on alone keep OnceInv.
LEMMA OnceKept ==
    ASSUME OnceInv, UNCHANGED <<lines, again, selectedTry>>,
           overlapped' = FALSE => ~overlapped, wipes' = 0 => wipes = 0, overlapped \in BOOLEAN,
           overlapped' \in BOOLEAN,
           \A i \in Starts : starts'[i].on => starts'[i] = starts[i]
    PROVE  OnceInv'
BY DEF OnceInv, Up

\* An emptied window and a startStream at token 0.
LEMMA OnceStarts ==
    ASSUME ViewerInv, NEW p \in Instances, NEW t \in Tries, LoadHistory(p, t), selectedTry' = t
    PROVE  OnceInv'
PROOF
<1>1. /\ lines' = {} /\ again' = {}
      /\ ~overlapped' => \A i \in Starts : ~starts[i].on
      /\ \/ starts' = starts
         \/ \E i \in Starts : /\ starts'[i].token = 0
                              /\ \A j \in Starts \ {i} : starts'[j] = starts[j]
  BY HistoryIs
<1>2. ~overlapped' => \A i \in Starts : starts'[i].on => starts'[i].token = 0
  BY <1>1
<1>3. Up(t, 0) = {}
  BY DEF Up
<1> QED BY <1>1, <1>2, <1>3 DEF OnceInv, Up

LEMMA OnceKeeps == ViewerInv /\ OnceInv /\ [Next]_vars => OnceInv'
PROOF
<1> SUFFICES ASSUME ViewerInv, OnceInv, [Next]_vars PROVE OnceInv'
  OBVIOUS
<1>1. overlapped \in BOOLEAN /\ overlapped' \in BOOLEAN
  BY ViewerKeeps DEF ViewerInv, TypeOK
<1>2. CASE UNCHANGED <<lines, again, selectedTry, overlapped, wipes, starts>>
  BY <1>1, <1>2, OnceKept
<1>3. CASE (Airflow \/ CacheExpires) /\ UNCHANGED viewerVars
  BY <1>2, <1>3 DEF viewerVars
<1>4. CASE Mount
  <2>1. Known \in Instances /\ Known.try \in Tries
    BY KnownIs DEF Instances
  <2> QED BY <1>4, <2>1, OnceStarts DEF Mount, StartStream
<1>5. CASE Unmount
  BY <1>2, <1>5 DEF Unmount
<1>6. CASE Refresh
  <2>1. selectedTry \in Tries
    BY <1>6 DEF Refresh, ViewerInv, ReadInv
  <2>2. CASE StartStream(Known, selectedTry)
    BY <1>6, <2>1, <2>2, KnownIs, OnceStarts DEF Refresh, StartStream
  <2> QED BY <1>2, <1>6, <2>2 DEF Refresh
<1>7. CASE Wipe
  <2>1. wipes' # 0
    BY <1>7, ViewerAssumption DEF Wipe, ViewerInv, TypeOK
  <2> QED BY <2>1 DEF OnceInv
<1>8. ASSUME NEW t \in Tries, SelectTry(t) PROVE OnceInv'
  <2>1. props \in Instances
    BY <1>8 DEF SelectTry, ViewerInv, ReadInv
  <2> QED BY <1>8, <2>1, OnceStarts DEF SelectTry, StartStream
<1>9. ASSUME NEW i \in Starts, HistoryPage(i) PROVE OnceInv'
  <2> SUFFICES ASSUME ~overlapped, wipes = 0, NEW k \in Starts, starts'[k].on
               PROVE  again' = {} /\ lines' = Up(selectedTry', starts'[k].token)
    BY <1>9 DEF OnceInv, HistoryPage, Up
  <2>1. /\ starts[i].on /\ AppendLines(starts[i].try, Page(starts[i].try, starts[i].token))
        /\ Active(starts[i].try) /\ selectedTry' = selectedTry
        /\ starts' = [starts EXCEPT ![i].token = NextToken(starts[i].try), ![i].pages = @ + 1]
    BY <1>9 DEF HistoryPage
  <2>2. starts \in [Starts -> Slot]
    BY DEF ViewerInv, TypeOK, Slot
  <2>3. k = i
    <3>1. k # i => starts'[k] = starts[k]
      BY <2>1, <2>2
    <3> QED BY <2>1, <3>1 DEF ViewerInv, OneReaderInv
  <2>4. starts'[i].token = log[selectedTry]
    <3>1. starts[i].try = selectedTry
      BY <2>1 DEF ViewerInv, OneReaderInv
    <3>2. starts'[i].token = NextToken(starts[i].try)
      BY <2>1, <2>2 DEF Slot
    <3> QED BY <2>1, <3>1, <3>2 DEF NextToken
  <2>5. again' = {}
    BY <2>1, PageIsNew
  <2>6. lines' = Up(selectedTry, log[selectedTry])
    BY <2>1, HistoryFills
  <2> QED BY <2>1, <2>3, <2>4, <2>5, <2>6
<1>10. ASSUME NEW i \in Starts, ShowOnly(i) \/ Follow(i) PROVE OnceInv'
  <2>1. /\ starts[i].on /\ starts' = [starts EXCEPT ![i] = NotStarted]
        /\ UNCHANGED <<overlapped, wipes>>
    BY <1>10 DEF ShowOnly, Follow, LastPage
  <2>2. ~starts'[i].on /\ \A j \in Starts \ {i} : starts'[j] = starts[j]
    BY <2>1, StoppedIs
  <2>3. ~overlapped => \A j \in Starts : ~starts'[j].on
    BY <2>1, <2>2 DEF ViewerInv, OneReaderInv
  <2> QED BY <2>1, <2>3 DEF OnceInv
<1>11. ASSUME NEW i \in Starts, HistoryFails(i) PROVE OnceInv'
  <2>1. \A j \in Starts : starts'[j].on => starts'[j] = starts[j]
    BY <1>11, StoppedIs DEF HistoryFails
  <2> QED BY <1>1, <1>11, <2>1, OnceKept DEF HistoryFails
<1>12. ASSUME NEW s \in Streams, OnChunk(s) PROVE OnceInv'
  <2>1. conn[s].pc # "closed" /\ UNCHANGED <<starts, overlapped, wipes>>
    BY <1>12 DEF OnChunk, SendPage
  <2>2. ~overlapped => \A i \in Starts : ~starts[i].on
    BY <2>1, ViewerAssumption DEF ViewerInv, OneReaderInv
  <2> QED BY <2>1, <2>2 DEF OnceInv
<1>13. ASSUME NEW s \in Streams, OnLimit(s) PROVE OnceInv'
  <2>1. props \in Instances /\ selectedTry \in Tries
    BY <1>13 DEF OnLimit, ViewerInv, ReadInv, TypeOK
  <2> QED BY <1>13, <2>1, OnceStarts DEF OnLimit
<1>14. ASSUME NEW s \in Streams,
              OnNothing(s) \/ OnEnd(s) \/ OnError(s) \/ OnCancelled(s) \/ OnSilence(s)
       PROVE  OnceInv'
  BY <1>2, <1>14 DEF OnNothing, OnEnd, OnError, OnCancelled, OnSilence, viewerVars
<1>15. CASE UNCHANGED vars
  BY <1>2, <1>15 DEF vars, viewerVars
<1> QED BY <1>3, <1>4, <1>5, <1>6, <1>7, <1>8, <1>9, <1>10, <1>11, <1>12, <1>13, <1>14, <1>15
        DEF Next, Fetching

LEMMA OnceInvariance == Spec => [](ViewerInv /\ OnceInv)
PROOF
<1>1. Init => OnceInv
  <2>1. Init => \A i \in Starts : ~starts[i].on
    BY DEF Init, NotStarted
  <2> QED BY <2>1 DEF OnceInv
<1> QED BY <1>1, OnceKeeps, ViewerInvariance, PTL DEF Spec

\* "Done" tells the truth unless a server that stops has said so: the window holds the
\* whole log of the selected try, the stream that said `end` had nothing more to send, and
\* no line that the history alone has brought is there twice.
THEOREM EndOfLogHolds == Spec => EndOfLog
PROOF
<1> DEFINE Told == /\ streamState # "done" /\ streamState' = "done"
                   /\ ~overlapped /\ wipes = 0 /\ cut' # "told"
           Whole == /\ lines' = Log(selectedTry)
                    /\ \A s \in OpenStreams : conn'[s].pc = "closed" => Over(conn[s].try)
                    /\ conn' = conn => again' = {}
<1>1. ASSUME ViewerInv, OnceInv, [Next]_vars, Told PROVE Whole
  <2>1. ~UNCHANGED streamState
    BY <1>1
  <2>2. ASSUME NEW i \in Starts, ShowOnly(i) PROVE Whole
    <3>1. /\ starts[i].on /\ AppendLines(starts[i].try, Page(starts[i].try, starts[i].token))
          /\ conn' = conn
      BY <2>2 DEF ShowOnly, LastPage, streamVars
    <3>2. lines' = Log(selectedTry)
      BY <1>1, <3>1, HistoryFills DEF Up, Log
    <3>3. again' = {}
      BY <1>1, <3>1, PageIsNew
    <3> QED BY <3>1, <3>2, <3>3 DEF OpenStreams
  <2>3. ASSUME NEW s \in Streams, OnEnd(s) PROVE Whole
    <3>1. conn[s].pc = "check" /\ conn' = [conn EXCEPT ![s] = Closed] /\ lines' = lines
      BY <2>3 DEF OnEnd, SendEnd
    <3>2. lines = Up(selectedTry, log[selectedTry])
      BY <1>1, <3>1 DEF ViewerInv, WindowInv
    <3>3. Over(conn[s].try)
      BY <1>1, <3>1 DEF ViewerInv, FollowInv
    <3>4. conn \in [Streams -> Connection]
      BY <1>1 DEF ViewerInv, TypeOK, StreamTypeOK, Connection
    <3>5. conn'[s].pc = "closed" /\ \A x \in Streams \ {s} : conn'[x] = conn[x]
      BY <3>1, <3>4 DEF Closed
    <3>6. \A x \in OpenStreams : conn'[x].pc = "closed" => x = s
      BY <3>5 DEF OpenStreams
    <3>7. conn' # conn
      BY <3>1, <3>5
    <3> QED BY <3>1, <3>2, <3>3, <3>6, <3>7 DEF Up, Log
  <2>4. \A p, t : LoadHistory(p, t) => streamState' # "done"
    BY DEF LoadHistory
  <2>5. CASE (Airflow \/ CacheExpires) /\ UNCHANGED viewerVars
    BY <2>1, <2>5 DEF viewerVars
  <2>6. CASE Mount \/ Unmount \/ Refresh \/ Wipe
    BY <1>1, <2>1, <2>4, <2>6 DEF Mount, Unmount, Refresh, Wipe, StartStream
  <2>7. ASSUME NEW t \in Tries, SelectTry(t) PROVE Whole
    BY <1>1, <2>4, <2>7 DEF SelectTry, StartStream
  <2>8. ASSUME NEW i \in Starts, Fetching(i) PROVE Whole
    <3>1. ~HistoryPage(i) /\ ~Follow(i) /\ ~HistoryFails(i)
      BY <1>1 DEF HistoryPage, Follow, HistoryFails
    <3> QED BY <2>2, <2>8, <3>1 DEF Fetching
  <2>9. ASSUME NEW s \in Streams,
               \/ OnChunk(s) \/ OnNothing(s) \/ OnEnd(s) \/ OnError(s)
               \/ OnCancelled(s) \/ OnSilence(s) \/ OnLimit(s)
        PROVE  Whole
    <3>1. ~OnChunk(s) /\ ~OnNothing(s) /\ ~OnError(s) /\ ~OnSilence(s) /\ ~OnCancelled(s)
      BY <1>1 DEF OnChunk, OnNothing, OnError, OnSilence, OnCancelled, viewerVars
    <3>2. ~OnLimit(s)
      BY <1>1, <2>4 DEF OnLimit
    <3> QED BY <2>3, <2>9, <3>1, <3>2
  <2>10. CASE UNCHANGED vars
    BY <2>1, <2>10 DEF vars, viewerVars
  <2> QED BY <1>1, <2>5, <2>6, <2>7, <2>8, <2>9, <2>10 DEF Next
<1>2. ViewerInv /\ OnceInv /\ [Next]_vars => [Told => Whole]_vars
  BY <1>1
<1> QED BY <1>2, OnceInvariance, PTL DEF Spec, EndOfLog

-----------------------------------------------------------------------------
(* RunMonitor: the invariant.                                              *)

\* An entry says "notified" exactly if there was a toast, and an entry with a final
\* status says so; a run that was never started has neither entry nor toast.
EntryInv(r) ==
    /\ told[r] \in {0, 1}
    /\ r \in Tracked => /\ runs[r].notified <=> told[r] = 1
                        /\ runs[r].status \in Terminal => runs[r].notified
    /\ server[r] = "none" => r \notin Tracked /\ told[r] = 0

\* The type of a request and of the answer on its way.
Requests == [run : Runs \cup {"none"},
             answer : Statuses \cup {"none", "missing", "auth", "error"}]

\* What a toast may say.
Kinds == Terminal \cup {"none", "missing", "auth"}

MonitorInv ==
    /\ MonitorTypeOK
    /\ stored = runs
    /\ \A r \in Runs : EntryInv(r)
    /\ KeepsPolling

-----------------------------------------------------------------------------
\* A run that is started gets a number among those of the entries.
LEMMA NowIsNew ==
    ASSUME MonitorTypeOK, NEW r \in Runs, server[r] = "none"
    PROVE  Now \in 1..Cardinality(Runs)
PROOF
<1>1. IsFiniteSet(Runs) /\ Cardinality(Runs) \in Nat
  BY MonitorAssumption, FS_CardinalityType
<1>2. Started \in SUBSET Runs /\ Started # Runs
  BY DEF Started
<1>3. Cardinality(Started) \in Nat /\ Cardinality(Started) < Cardinality(Runs)
  <2>1. IsFiniteSet(Started) /\ Cardinality(Started) <= Cardinality(Runs)
    BY <1>1, <1>2, FS_Subset
  <2>2. Cardinality(Started) # Cardinality(Runs)
    BY <1>1, <1>2, FS_Subset
  <2> QED BY <1>1, <2>1, <2>2, FS_CardinalityType
<1> QED BY <1>1, <1>3 DEF Now

\* Initially MonitorInv holds.
LEMMA MonitorStarts == MonitorInit => MonitorInv
PROOF
<1> SUFFICES ASSUME MonitorInit PROVE MonitorInv
  OBVIOUS
<1> USE DEF MonitorInit
<1>1. MonitorTypeOK
  BY MonitorAssumption DEF MonitorTypeOK, Entries, NoPoll
<1>2. Tracked = {}
  BY DEF Tracked
<1>3. (\A r \in Runs : EntryInv(r)) /\ KeepsPolling
  BY <1>2 DEF EntryInv, KeepsPolling
<1> QED BY <1>1, <1>3 DEF MonitorInv

\* The backend's side of a run keeps MonitorInv: a run that was started stays so.
LEMMA ServerKeeps ==
    ASSUME MonitorInv, NEW r \in Runs, Proceed(r) \/ ClearRun(r) \/ Vanish(r)
    PROVE  MonitorInv'
PROOF
<1>1. PICK s \in Statuses \cup {"missing"} : Becomes(r, s) /\ server[r] # "none"
  BY DEF Proceed, ClearRun, Vanish, Statuses, Terminal
<1>2. clears' \in 0..MaxClears
  BY MonitorAssumption DEF Proceed, ClearRun, Vanish, MonitorInv, MonitorTypeOK
<1>3. server' \in [Runs -> Statuses \cup {"none", "missing"}]
  BY <1>1 DEF Becomes, MonitorInv, MonitorTypeOK
<1>4. MonitorTypeOK'
  BY <1>1, <1>2, <1>3 DEF Becomes, MonitorInv, MonitorTypeOK
<1>5. \A q \in Runs : server'[q] = "none" => server[q] = "none"
  <2> TAKE q \in Runs
  <2>1. CASE q = r
    BY <1>1, <2>1 DEF Becomes, MonitorInv, MonitorTypeOK, Statuses, Terminal
  <2>2. CASE q # r
    BY <1>1, <2>2 DEF Becomes, MonitorInv, MonitorTypeOK
  <2> QED BY <2>1, <2>2
<1>6. (\A q \in Runs : EntryInv(q))'
  BY <1>1, <1>5 DEF Becomes, MonitorInv, EntryInv, Tracked
<1>7. KeepsPolling' /\ stored' = runs'
  BY <1>1 DEF Becomes, MonitorInv, KeepsPolling, Tracked
<1> QED BY <1>4, <1>6, <1>7 DEF MonitorInv

\* A request that is sent, or answered, or whose answer finds no entry, changes
\* requests only.
LEMMA RequestKeeps ==
    ASSUME MonitorInv,
           \/ \E r \in Runs : StartPoll(r)
           \/ \E p \in Polls : Answer(p) \/ AnswerError(p) \/ OnDropped(p)
    PROVE  MonitorInv'
PROOF
<1>1. UNCHANGED <<server, clears, page, runs, timers, stored, reloads, told, said, superseded>>
  BY DEF StartPoll, Answer, AnswerError, OnDropped
<1>2. poll' \in [Polls -> Requests]
  <2>1. ASSUME NEW r \in Runs, StartPoll(r) PROVE poll' \in [Polls -> Requests]
    <3>1. PICK p \in Polls : poll' = [poll EXCEPT ![p] = Ask(r)]
      BY <2>1 DEF StartPoll, Free
    <3>2. Ask(r) \in Requests
      BY DEF Ask, Requests
    <3> QED BY <3>1, <3>2 DEF MonitorInv, MonitorTypeOK, Requests
  <2>2. ASSUME NEW p \in Polls, Answer(p) PROVE poll' \in [Polls -> Requests]
    <3>1. poll[p].run \in Runs \cup {"none"}
      BY DEF MonitorInv, MonitorTypeOK
    <3>2. poll[p].run = "none" => poll[p] = NoPoll
      BY <2>2 DEF Answer, NoPoll, MonitorInv, MonitorTypeOK
    <3>3. poll[p].run \in Runs
      BY <3>1, <3>2, <2>2 DEF Answer
    <3>4. server[poll[p].run] \in Statuses \cup {"none", "missing"}
      BY <3>3 DEF MonitorInv, MonitorTypeOK
    <3>5. poll' = [poll EXCEPT ![p].answer = server[poll[p].run]]
      BY <2>2 DEF Answer
    <3> QED BY <3>4, <3>5 DEF MonitorInv, MonitorTypeOK, Requests
  <2>3. ASSUME NEW p \in Polls, AnswerError(p) PROVE poll' \in [Polls -> Requests]
    <3>1. PICK e \in {"auth", "error"} : poll' = [poll EXCEPT ![p].answer = e]
      BY <2>3 DEF AnswerError
    <3> QED BY <3>1 DEF MonitorInv, MonitorTypeOK, Requests
  <2>4. ASSUME NEW p \in Polls, OnDropped(p) PROVE poll' \in [Polls -> Requests]
    BY <2>4 DEF OnDropped, Arrives, NoPoll, MonitorInv, MonitorTypeOK, Requests
  <2> QED BY <2>1, <2>2, <2>3, <2>4
<1>3. MonitorTypeOK'
  BY <1>1, <1>2 DEF MonitorInv, MonitorTypeOK, Requests
<1>4. (\A q \in Runs : EntryInv(q))' /\ KeepsPolling' /\ stored' = runs'
  BY <1>1 DEF MonitorInv, EntryInv, KeepsPolling, Tracked
<1> QED BY <1>3, <1>4 DEF MonitorInv

\* A run is tracked with a timer of its own and an entry that nobody has seen end;
\* the runs whose timer it takes are the superseded ones.
LEMMA TrackKeeps ==
    ASSUME MonitorInv, NEW r \in Runs, Track(r)
    PROVE  MonitorInv'
PROOF
<1> DEFINE entry == [status |-> "queued", notified |-> FALSE, error |-> "none", at |-> Now]
<1>1. entry \in Entries /\ entry # Untracked
  <2>1. Now \in 1..Cardinality(Runs)
    BY NowIsNew DEF Track, MonitorInv
  <2> QED BY <2>1 DEF Entries, Untracked, Statuses
<1>2. /\ server' = [server EXCEPT ![r] = "queued"]
      /\ runs' = [runs EXCEPT ![r] = entry] /\ stored' = runs'
      /\ timers' = {q \in timers : Process[q] # Process[r]} \cup {r}
      /\ superseded' = superseded \cup {q \in timers : Process[q] = Process[r]}
      /\ UNCHANGED <<clears, page, reloads, told, said>>
      /\ server[r] = "none"
  BY DEF Track
<1>3. poll' \in [Polls -> Requests]
  <2>1. PICK p \in Polls, q \in Polls : poll' = [poll EXCEPT ![p] = Ask(r), ![q] = Ask(r)]
    BY DEF Track, Free
  <2>2. Ask(r) \in Requests
    BY DEF Ask, Requests
  <2> QED BY <2>1, <2>2 DEF MonitorInv, MonitorTypeOK, Requests
<1>4. MonitorTypeOK'
  <2>1. server' \in [Runs -> Statuses \cup {"none", "missing"}]
    BY <1>2 DEF MonitorInv, MonitorTypeOK, Statuses
  <2>2. runs' \in [Runs -> Entries] /\ stored' \in [Runs -> Entries]
    BY <1>1, <1>2 DEF MonitorInv, MonitorTypeOK
  <2> QED BY <1>2, <1>3, <2>1, <2>2 DEF MonitorInv, MonitorTypeOK, Requests
<1>5. Tracked' = Tracked \cup {r}
  BY <1>1, <1>2 DEF Tracked, MonitorInv, MonitorTypeOK
<1>6. (\A q \in Runs : EntryInv(q))'
  <2> TAKE q \in Runs
  <2>1. CASE q = r
    <3>1. told'[r] = 0 /\ runs'[r] = entry /\ server'[r] = "queued"
      BY <1>2 DEF MonitorInv, MonitorTypeOK, EntryInv
    <3> QED BY <2>1, <3>1 DEF EntryInv, Terminal
  <2>2. CASE q # r
    BY <1>2, <1>5, <2>2 DEF MonitorInv, MonitorTypeOK, EntryInv
  <2> QED BY <2>1, <2>2
<1>7. KeepsPolling'
  BY <1>2, <1>5 DEF MonitorInv, KeepsPolling, MonitorTypeOK
<1> QED BY <1>2, <1>4, <1>6, <1>7 DEF MonitorInv

\* What an answer that ends the polling of a run does to its entry: from then on it
\* is notified, if there is one, and the user has been told.
LEMMA ToastKeeps ==
    ASSUME MonitorInv, NEW r \in Tracked, NEW entry \in Entries, NEW what \in Kinds,
           entry # Untracked => entry.notified,
           Save(r, entry), Toast(r, what), timers' = timers \ {r},
           UNCHANGED <<server, clears, page, reloads, superseded>>
    PROVE  /\ \A q \in Runs : EntryInv(q)'
           /\ KeepsPolling' /\ stored' = runs'
           /\ runs' \in [Runs -> Entries] /\ told' \in [Runs -> Nat] /\ said' \in [Runs -> Kinds]
           /\ timers' \subseteq Runs
PROOF
<1>1. r \in Runs /\ EntryInv(r) /\ runs[r].notified \in BOOLEAN
  BY DEF MonitorInv, Tracked, MonitorTypeOK, Entries, Untracked
<1>2. /\ runs' = [runs EXCEPT ![r] = entry] /\ stored' = runs'
      /\ runs' \in [Runs -> Entries] /\ timers' \subseteq Runs
  BY <1>1 DEF Save, MonitorInv, MonitorTypeOK
<1>3. told' = [told EXCEPT ![r] = 1] /\ told' \in [Runs -> Nat]
  <2>1. told \in [Runs -> Nat] /\ (runs[r].notified <=> told[r] = 1) /\ told[r] \in {0, 1}
    BY <1>1 DEF MonitorInv, MonitorTypeOK, EntryInv
  <2>2. CASE runs[r].notified
    BY <1>1, <2>1, <2>2 DEF Toast
  <2>3. CASE ~runs[r].notified
    <3>1. told[r] = 0 /\ told' = [told EXCEPT ![r] = told[r] + 1]
      BY <2>1, <2>3 DEF Toast
    <3>2. told[r] + 1 = 1
      BY <3>1
    <3> QED BY <1>1, <2>1, <3>1, <3>2
  <2> QED BY <2>2, <2>3
<1>8. said' \in [Runs -> Kinds]
  BY <1>1 DEF Toast, MonitorInv, MonitorTypeOK, Kinds
<1>4. Tracked' \subseteq Tracked /\ (r \in Tracked' => runs'[r] = entry /\ entry.notified)
  BY <1>1, <1>2 DEF Tracked, MonitorInv, MonitorTypeOK
<1>5. \A q \in Runs : EntryInv(q)'
  <2> TAKE q \in Runs
  <2>1. CASE q = r
    <3>1. told'[r] = 1 /\ server[r] # "none" /\ server' = server
      BY <1>1, <1>3 DEF MonitorInv, MonitorTypeOK, EntryInv
    <3>2. r \in Tracked' => runs'[r].notified
      BY <1>4
    <3> QED BY <2>1, <3>1, <3>2 DEF EntryInv
  <2>2. CASE q # r
    <3>1. EntryInv(q) /\ runs'[q] = runs[q] /\ told'[q] = told[q] /\ server' = server
      BY <1>1, <1>2, <1>3, <2>2 DEF MonitorInv, MonitorTypeOK
    <3> QED BY <1>4, <3>1 DEF EntryInv, Tracked
  <2> QED BY <2>1, <2>2
<1>6. KeepsPolling'
  BY <1>1, <1>3, <1>4 DEF MonitorInv, KeepsPolling, MonitorTypeOK, Tracked
<1> QED BY <1>2, <1>3, <1>5, <1>6, <1>8

\* An answer that comes in keeps MonitorInv.
LEMMA AnswerKeeps ==
    ASSUME MonitorInv, NEW p \in Polls,
           OnStatus(p) \/ OnMissing(p) \/ OnAuthError(p) \/ OnOtherError(p)
    PROVE  MonitorInv'
PROOF
<1> DEFINE r == poll[p].run
           s == poll[p].answer
<1>1. /\ r \in Tracked /\ r \in Runs /\ runs[r] \in Entries /\ runs[r] # Untracked
      /\ EntryInv(r) /\ runs[r].notified \in BOOLEAN
  BY DEF OnStatus, OnMissing, OnAuthError, OnOtherError, Tracked, MonitorInv, MonitorTypeOK, Entries, Untracked
<1>2. /\ UNCHANGED <<server, clears, page, reloads, superseded>>
      /\ poll' = [poll EXCEPT ![p] = NoPoll]
  BY DEF OnStatus, OnMissing, OnAuthError, OnOtherError, Arrives
<1>3. poll' \in [Polls -> Requests]
  BY <1>2 DEF NoPoll, MonitorInv, MonitorTypeOK, Requests
<1>4. runs[r] \in [status : Statuses, notified : BOOLEAN, error : {"none", "auth", "error"},
                   at : 1..Cardinality(Runs)]
  BY <1>1 DEF Entries
<1>5. ASSUME NEW entry \in Entries, entry # Untracked => entry.notified, NEW what \in Kinds,
             Save(r, entry), Toast(r, what), timers' = timers \ {r}
      PROVE  MonitorInv'
  <2>1. /\ \A q \in Runs : EntryInv(q)'
        /\ KeepsPolling' /\ stored' = runs'
        /\ runs' \in [Runs -> Entries] /\ told' \in [Runs -> Nat] /\ said' \in [Runs -> Kinds]
        /\ timers' \subseteq Runs
    BY <1>1, <1>2, <1>5, ToastKeeps
  <2>2. MonitorTypeOK'
    BY <1>2, <1>3, <2>1 DEF MonitorInv, MonitorTypeOK, Requests, Kinds
  <2> QED BY <2>1, <2>2 DEF MonitorInv
<1>6. ASSUME NEW entry \in Entries, entry # Untracked, entry.notified = runs[r].notified,
             entry.status \in Terminal => entry.notified,
             Save(r, entry), UNCHANGED <<timers, told, said>>
      PROVE  MonitorInv'
  <2>1. runs' = [runs EXCEPT ![r] = entry] /\ stored' = runs'
    BY <1>6 DEF Save
  <2>2. runs' \in [Runs -> Entries] /\ Tracked' = Tracked
    BY <1>1, <1>6, <2>1 DEF Tracked, MonitorInv, MonitorTypeOK
  <2>3. MonitorTypeOK'
    BY <1>2, <1>3, <1>6, <2>1, <2>2 DEF MonitorInv, MonitorTypeOK, Requests
  <2>4. \A q \in Runs : EntryInv(q)'
    <3> TAKE q \in Runs
    <3>1. CASE q = r
      BY <1>1, <1>2, <1>6, <2>1, <2>2, <3>1 DEF EntryInv, MonitorInv, MonitorTypeOK
    <3>2. CASE q # r
      BY <1>2, <1>6, <2>1, <2>2, <3>2 DEF EntryInv, MonitorInv, MonitorTypeOK
    <3> QED BY <3>1, <3>2
  <2>5. KeepsPolling'
    BY <1>2, <1>6, <2>2 DEF MonitorInv, KeepsPolling
  <2> QED BY <2>1, <2>3, <2>4, <2>5 DEF MonitorInv
<1>7. CASE OnStatus(p)
  <2> DEFINE entry == [runs[r] EXCEPT !.status = s, !.error = "none",
                                      !.notified = @ \/ s \in Terminal]
  <2>1. /\ entry \in Entries /\ entry # Untracked
        /\ entry.status = s /\ (entry.notified <=> runs[r].notified \/ s \in Terminal)
        /\ Save(r, entry)
    BY <1>4, <1>7 DEF OnStatus, Entries, Untracked, Statuses
  <2>2. CASE s \in Terminal
    BY <1>5, <1>7, <2>1, <2>2 DEF OnStatus, Kinds
  <2>3. CASE s \notin Terminal
    <3>1. UNCHANGED <<timers, told, said>>
      BY <1>7, <2>3 DEF OnStatus
    <3>2. entry.notified = runs[r].notified
      BY <1>4, <2>3
    <3> HIDE DEF entry
    <3> QED BY <1>6, <2>1, <2>3, <3>1, <3>2
  <2> QED BY <2>2, <2>3
<1>8. CASE OnMissing(p)
  BY <1>5, <1>8 DEF OnMissing, Entries, Kinds
<1>9. CASE OnAuthError(p)
  <2> DEFINE entry == [runs[r] EXCEPT !.error = "auth", !.notified = TRUE]
  <2>1. entry \in Entries /\ entry.notified
    BY <1>4 DEF Entries
  <2> QED BY <1>5, <1>9, <2>1 DEF OnAuthError, Kinds
<1>10. CASE OnOtherError(p)
  <2> DEFINE entry == [runs[r] EXCEPT !.error = "error"]
  <2>1. /\ entry \in Entries /\ entry # Untracked
        /\ entry.notified = runs[r].notified /\ entry.status = runs[r].status
    BY <1>4 DEF Entries, Untracked
  <2>2. entry.status \in Terminal => entry.notified
    BY <1>1, <2>1 DEF EntryInv
  <2>3. Save(r, entry) /\ UNCHANGED <<timers, told, said>>
    BY <1>10 DEF OnOtherError
  <2> HIDE DEF entry
  <2> QED BY <1>6, <2>1, <2>2, <2>3
<1> QED BY <1>7, <1>8, <1>9, <1>10

\* A reload keeps the list, and resumeStoredRuns takes up every run whose end the user
\* has not been told of.
LEMMA ReloadKeeps ==
    ASSUME MonitorInv, Reload \/ Resume
    PROVE  MonitorInv'
PROOF
<1>1. UNCHANGED <<server, clears, runs, stored, told, said>>
  BY DEF Reload, Resume, MonitorInv
<1>2. MonitorTypeOK'
  <2>1. poll' \in [Polls -> Requests]
    BY DEF Reload, Resume, Resumed, Tracked, NoPoll, Ask, Requests
  <2>2. timers' \subseteq Runs /\ superseded' \subseteq Runs /\ page' \in {"loading", "open"}
    BY DEF Reload, Resume, Resumed, Tracked, MonitorInv, MonitorTypeOK
  <2>3. reloads' \in 0..MaxReloads
    BY MonitorAssumption DEF Reload, Resume, MonitorInv, MonitorTypeOK
  <2> QED BY <1>1, <2>1, <2>2, <2>3 DEF MonitorInv, MonitorTypeOK, Requests
<1>3. (\A q \in Runs : EntryInv(q))'
  BY <1>1 DEF MonitorInv, EntryInv, Tracked
<1>4. KeepsPolling'
  <2>1. CASE Reload
    BY <2>1 DEF Reload, KeepsPolling
  <2>2. CASE Resume
    <3>1. \A r \in Tracked : told[r] = 0 => r \in Resumed
      BY DEF MonitorInv, EntryInv, Resumed, Tracked
    <3> QED BY <1>1, <2>2, <3>1 DEF Resume, KeepsPolling, Tracked
  <2> QED BY <2>1, <2>2
<1> QED BY <1>1, <1>2, <1>3, <1>4 DEF MonitorInv

\* Every step keeps MonitorInv.
LEMMA MonitorKeeps == MonitorInv /\ [MonitorNext]_monitorVars => MonitorInv'
PROOF
<1> SUFFICES ASSUME MonitorInv, [MonitorNext]_monitorVars PROVE MonitorInv'
  OBVIOUS
<1>1. ASSUME NEW r \in Runs,
             Proceed(r) \/ ClearRun(r) \/ Vanish(r) \/ Track(r) \/ StartPoll(r)
      PROVE  MonitorInv'
  BY <1>1, ServerKeeps, TrackKeeps, RequestKeeps
<1>2. ASSUME NEW p \in Polls, Answer(p) \/ AnswerError(p) \/ OnAnswer(p)
      PROVE  MonitorInv'
  BY <1>2, RequestKeeps, AnswerKeeps DEF OnAnswer
<1>3. ASSUME Reload \/ Resume PROVE MonitorInv'
  BY <1>3, ReloadKeeps
<1>4. ASSUME UNCHANGED monitorVars PROVE MonitorInv'
  BY <1>4 DEF MonitorInv, monitorVars, MonitorTypeOK, EntryInv, KeepsPolling, Tracked
<1> QED BY <1>1, <1>2, <1>3, <1>4 DEF MonitorNext

LEMMA MonitorInvariance == MonitorSpec => []MonitorInv
PROOF BY MonitorStarts, MonitorKeeps, PTL DEF MonitorSpec

\* The variables keep their types, for any number of runs, requests and reloads.
THEOREM MonitorTypeCorrect == MonitorSpec => []MonitorTypeOK
PROOF
<1>1. MonitorInv => MonitorTypeOK
  BY DEF MonitorInv
<1> QED BY <1>1, MonitorInvariance, PTL

\* modelingRunMonitor.js: however many polls see the end of a run, in whatever order
\* their answers arrive, and whatever is reloaded or cleared, there is one toast.
THEOREM ToldOnceHolds == MonitorSpec => []ToldOnce
PROOF
<1>1. MonitorInv => ToldOnce
  BY DEF MonitorInv, EntryInv, ToldOnce
<1> QED BY <1>1, MonitorInvariance, PTL

\* A run that the user has not been told the end of keeps its timer, unless a newer
\* run of the same process took it.
THEOREM KeepsPollingHolds == MonitorSpec => []KeepsPolling
PROOF
<1>1. MonitorInv => KeepsPolling
  BY DEF MonitorInv
<1> QED BY <1>1, MonitorInvariance, PTL
=============================================================================
