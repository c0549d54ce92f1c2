----------------------------- MODULE RunMonitor -----------------------------
(***************************************************************************)
(* modelingRunMonitor.js: one browser tab keeps the runs its user started, *)
(* polls the status of each, shows a toast when one ends, and saves the    *)
(* list in localStorage so that a reloaded page goes on.                   *)
(*                                                                         *)
(* Polls overlap: a timer starts one every 10 s, a new run starts one, the *)
(* refresh button starts one, and none waits for another.                  *)
(***************************************************************************)
EXTENDS Naturals, FiniteSets

CONSTANTS
    Runs,         \* the runs the user may start
    Process,      \* Process[r]: the process type of r
    Polls,        \* bound: requests under way at a time
    MaxClears,    \* bound: how often a finished run is cleared
    MaxReloads    \* bound: how often the page is reloaded

ASSUME MonitorAssumption ==
    /\ IsFiniteSet(Runs) /\ "none" \notin Runs
    /\ Process \in [Runs -> STRING] /\ MaxClears \in Nat /\ MaxReloads \in Nat

VARIABLES
    server,      \* server[r]: the run's state, as the backend gives it
    clears,      \* how often runs were cleared
    page,        \* the page: "loading" until resumeStoredRuns, then "open"
    runs,        \* modelingRunMonitorState.runs: runs[r] is Untracked or an entry
    timers,      \* the runs with an interval timer
    poll,        \* poll[p]: the request p, and the answer on its way
    stored,      \* the list in localStorage
    reloads,     \* how often the page was reloaded
    told,        \* history: told[r] toasts were shown for r
    said,        \* history: what the last of them said
    superseded   \* history: those whose timer a newer run of the process took away

monitorVars == <<server, clears, page, runs, timers, poll, stored, reloads,
          told, said, superseded>>

Terminal  == {"success", "failed"}
Statuses  == {"queued", "running"} \cup Terminal
Untracked == [status |-> "untracked", notified |-> FALSE, error |-> "none", at |-> 0]
NoPoll    == [run |-> "none", answer |-> "none"]

Tracked == {r \in Runs : runs[r] # Untracked}

\* startedAt, of which only the order matters: a new entry is newer than all others.
Started == {r \in Runs : server[r] # "none"}
Now == Cardinality(Started) + 1

Free == {p \in Polls : poll[p] = NoPoll}

MonitorInit ==
    /\ server = [r \in Runs |-> "none"]
    /\ clears = 0 /\ reloads = 0
    /\ page = "open"
    /\ runs = [r \in Runs |-> Untracked] /\ stored = runs
    /\ timers = {}
    /\ poll = [p \in Polls |-> NoPoll]
    /\ told = [r \in Runs |-> 0] /\ said = [r \in Runs |-> "none"] /\ superseded = {}

-----------------------------------------------------------------------------
(* The runs, behind the backend.                                           *)

Becomes(r, s) ==
    /\ server' = [server EXCEPT ![r] = s]
    /\ UNCHANGED <<page, runs, timers, poll, stored, reloads, told, said,
                   superseded>>

Proceed(r) ==
    /\ \/ server[r] = "queued" /\ Becomes(r, "running")
       \/ server[r] = "running" /\ \E s \in Terminal : Becomes(r, s)
    /\ UNCHANGED clears

ClearRun(r) ==
    /\ server[r] \in Terminal /\ clears < MaxClears
    /\ clears' = clears + 1
    /\ Becomes(r, "running")

\* Airflow was reset: the run is gone.
Vanish(r) ==
    /\ server[r] \in Statuses
    /\ Becomes(r, "missing")
    /\ UNCHANGED clears

-----------------------------------------------------------------------------
(* The monitor.                                                            *)

Ask(r) == [run |-> r, answer |-> "none"]

\* Mutant of Track: the timer of the new run is not set.
TrackMutant(r) ==
    /\ page = "open" /\ server[r] = "none"
    /\ server' = [server EXCEPT ![r] = "queued"]
    /\ runs' = [runs EXCEPT ![r] = [status |-> "queued", notified |-> FALSE,
                                    error |-> "none", at |-> Now]]
    /\ stored' = runs'
    /\ timers' = {q \in timers : Process[q] # Process[r]}
    /\ superseded' = superseded \cup {q \in timers : Process[q] = Process[r]}
    /\ \E p, q \in Free : p # q /\ poll' = [poll EXCEPT ![p] = Ask(r), ![q] = Ask(r)]
    /\ UNCHANGED <<clears, page, reloads, told, said>>

\* The user starts run r: the modal and the page that gets its event each call
\* trackModelingRun, so r is polled twice; older runs of the process lose their timer.
Track(r) ==
    /\ page = "open" /\ server[r] = "none"
    /\ server' = [server EXCEPT ![r] = "queued"]
    /\ runs' = [runs EXCEPT ![r] = [status |-> "queued", notified |-> FALSE,
                                    error |-> "none", at |-> Now]]
    /\ stored' = runs'
    /\ timers' = {q \in timers : Process[q] # Process[r]} \cup {r}
    /\ superseded' = superseded \cup {q \in timers : Process[q] = Process[r]}
    /\ \E p, q \in Free : p # q /\ poll' = [poll EXCEPT ![p] = Ask(r), ![q] = Ask(r)]
    /\ UNCHANGED <<clears, page, reloads, told, said>>

\* A timer fires, or the user presses the refresh button.
StartPoll(r) ==
    /\ page = "open" /\ r \in Tracked
    /\ r \in timers \/ \A q \in Tracked : Process[q] = Process[r] => runs[q].at <= runs[r].at
    /\ \E p \in Free : poll' = [poll EXCEPT ![p] = Ask(r)]
    /\ UNCHANGED <<server, clears, page, runs, timers, stored, reloads, told, said,
                   superseded>>

\* The backend answers.
Answer(p) ==
    /\ poll[p] # NoPoll /\ poll[p].answer = "none"
    /\ LET r == poll[p].run
       IN  poll' = [poll EXCEPT ![p].answer = server[r]]
    /\ UNCHANGED <<server, clears, page, runs, timers, stored, reloads, told, said,
                   superseded>>

\* The request fails: the session is over, or some other error.
AnswerError(p) ==
    /\ poll[p] # NoPoll /\ poll[p].answer = "none"
    /\ \E e \in {"auth", "error"} : poll' = [poll EXCEPT ![p].answer = e]
    /\ UNCHANGED <<server, clears, page, runs, timers, stored, reloads, told, said,
                   superseded>>

\* Mutant of Toast: whether the user was told already is not asked.
ToastMutant(r, what) ==
    /\ told' = [told EXCEPT ![r] = @ + 1]
    /\ said' = [said EXCEPT ![r] = what]

\* A toast, unless there was one: the flag does not tell what that one said.
Toast(r, what) ==
    IF runs[r].notified
      THEN UNCHANGED <<told, said>>
      ELSE /\ told' = [told EXCEPT ![r] = @ + 1]
           /\ said' = [said EXCEPT ![r] = what]

Save(r, entry) ==
    /\ runs' = [runs EXCEPT ![r] = entry]
    /\ stored' = runs'

Arrives(p) == poll' = [poll EXCEPT ![p] = NoPoll]

\* A status comes in.
OnStatus(p) ==
    LET r == poll[p].run
        s == poll[p].answer
    IN  /\ s \in Statuses /\ r \in Tracked
        /\ Save(r, [runs[r] EXCEPT !.status = s, !.error = "none",
                                   !.notified = @ \/ s \in Terminal])
        /\ IF s \in Terminal
             THEN timers' = timers \ {r} /\ Toast(r, s)
             ELSE UNCHANGED <<timers, told, said>>
        /\ Arrives(p)
        /\ UNCHANGED <<server, clears, page, reloads, superseded>>

\* A 404: the run is dropped.
OnMissing(p) ==
    LET r == poll[p].run
    IN  /\ poll[p].answer = "missing" /\ r \in Tracked
        /\ Save(r, Untracked)
        /\ timers' = timers \ {r}
        /\ Toast(r, "missing")
        /\ Arrives(p)
        /\ UNCHANGED <<server, clears, page, reloads, superseded>>

\* 401 or 403: the run is no longer polled.
OnAuthError(p) ==
    LET r == poll[p].run
    IN  /\ poll[p].answer = "auth" /\ r \in Tracked
        /\ Save(r, [runs[r] EXCEPT !.error = "auth", !.notified = TRUE])
        /\ timers' = timers \ {r}
        /\ Toast(r, "auth")
        /\ Arrives(p)
        /\ UNCHANGED <<server, clears, page, reloads, superseded>>

\* Any other error is noted, and the timer goes on.
OnOtherError(p) ==
    LET r == poll[p].run
    IN  /\ poll[p].answer = "error" /\ r \in Tracked
        /\ Save(r, [runs[r] EXCEPT !.error = "error"])
        /\ Arrives(p)
        /\ UNCHANGED <<server, clears, page, timers, reloads, told, said,
                   superseded>>

\* An answer for a run that was dropped meanwhile: the entry it fills is in no list,
\* and was notified when it was dropped.
OnDropped(p) ==
    /\ poll[p] # NoPoll /\ poll[p].answer # "none" /\ poll[p].run \notin Tracked
    /\ Arrives(p)
    /\ UNCHANGED <<server, clears, page, runs, timers, stored, reloads, told, said,
                   superseded>>

\* The page is reloaded: timers and requests are gone, the list is read back.
Reload ==
    /\ reloads < MaxReloads
    /\ reloads' = reloads + 1
    /\ page' = "loading"
    /\ runs' = stored
    /\ timers' = {}
    /\ poll' = [p \in Polls |-> NoPoll]
    /\ UNCHANGED <<server, clears, stored, told, said, superseded>>

\* Mutant of Resumed: a run with an error is not taken up again.
ResumedMutant == {r \in Tracked : runs[r].status \notin Terminal /\ runs[r].error = "none"}

\* The runs resumeStoredRuns takes up again.
Resumed == {r \in Tracked : runs[r].status \notin Terminal}

\* resumeStoredRuns; each run it takes up is polled at once, where the bound allows.
Resume ==
    /\ page = "loading"
    /\ page' = "open"
    /\ timers' = Resumed
    /\ superseded' = superseded \ Resumed
    /\ \E q \in [Polls -> Resumed \cup {"none"}] :
          /\ \A r \in Resumed : Cardinality({p \in Polls : q[p] = r}) = 1
          /\ poll' = [p \in Polls |-> IF q[p] = "none" THEN NoPoll ELSE Ask(q[p])]
    /\ UNCHANGED <<server, clears, runs, stored, reloads, told, said>>

-----------------------------------------------------------------------------
OnAnswer(p) ==
    OnStatus(p) \/ OnMissing(p) \/ OnAuthError(p) \/ OnOtherError(p) \/ OnDropped(p)

MonitorNext ==
    \/ \E r \in Runs : Proceed(r) \/ ClearRun(r) \/ Vanish(r) \/ Track(r) \/ StartPoll(r)
    \/ \E p \in Polls : Answer(p) \/ AnswerError(p) \/ OnAnswer(p)
    \/ Reload \/ Resume

MonitorSpec == MonitorInit /\ [][MonitorNext]_monitorVars

\* Timers fire, requests end one way or the other, and an answer gets through now
\* and then.
MonitorFairness ==
    /\ WF_monitorVars(Resume)
    /\ \A r \in Runs : SF_monitorVars(r \in timers /\ StartPoll(r))
    /\ \A p \in Polls :
          /\ WF_monitorVars(OnAnswer(p))
          /\ \A r \in Runs : SF_monitorVars(poll[p].run = r /\ Answer(p))

MonitorFairSpec == MonitorSpec /\ MonitorFairness

-----------------------------------------------------------------------------
(* Properties.                                                             *)

Entries == [status : Statuses, notified : BOOLEAN, error : {"none", "auth", "error"},
            at : 1..Cardinality(Runs)] \cup {Untracked}

\* The values the variables take.
MonitorTypeOK ==
    /\ server \in [Runs -> Statuses \cup {"none", "missing"}]
    /\ clears \in 0..MaxClears /\ reloads \in 0..MaxReloads
    /\ page \in {"loading", "open"}
    /\ runs \in [Runs -> Entries] /\ stored \in [Runs -> Entries]
    /\ timers \subseteq Runs
    /\ poll \in [Polls -> [run : Runs \cup {"none"},
                           answer : Statuses \cup {"none", "missing", "auth", "error"}]]
    /\ told \in [Runs -> Nat]
    /\ said \in [Runs -> Terminal \cup {"none", "missing", "auth"}]
    /\ superseded \subseteq Runs

\* The user is told once of a run, however many polls see its end, whatever
\* order they arrive in, and whether the page was reloaded in between.
ToldOnce == \A r \in Runs : told[r] <= 1

\* A run whose end the user has not been told of goes on being polled, through
\* failed requests and reloads; the newest run of its process only, as a newer one
\* takes the timer of the older away.
KeepsPolling ==
    page = "open" => \A r \in Tracked \ superseded : told[r] = 0 => r \in timers

\* If a run stays finished, and the tab stays, the user is told how it ended, whatever
\* reloads and errors came before.  There is one toast only, and two things use it up:
\* an answer that the session is over (after which the monitor gives the run up), and an
\* end that was the run's before somebody cleared it.
EndIsTold ==
    \A r \in Runs :
        <>[](server[r] \in Terminal /\ r \notin superseded) =>
            <>(\/ said[r] = "auth"
               \/ said[r] \in Terminal /\ (said[r] = server[r] \/ clears > 0))
=============================================================================
