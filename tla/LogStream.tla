----------------------------- MODULE LogStream -----------------------------
(***************************************************************************)
(* The backend's live log of one Airflow task: event_stream of the SSE     *)
(* endpoint pages through the log with Airflow's continuation token, and   *)
(* asks for the task's state (AirflowService.get_task_instance, which      *)
(* caches it) whenever there is no token, to know whether to go on.        *)
(*                                                                         *)
(* The task, its tries and their logs belong to Airflow.  A line is its    *)
(* number; a page is everything from the token's position on, with a new   *)
(* token as long as the try runs.  No token is the position 0: both make   *)
(* the next page start at the first line.                                  *)
(***************************************************************************)
EXTENDS Naturals, FiniteSets

CONSTANTS
    Streams,    \* bound: the SSE connections open at a time
    MaxTries,   \* bound: tries of the task
    MaxLines    \* bound: lines one try writes

ASSUME StreamAssumption == MaxTries \in Nat \ {0} /\ MaxLines \in Nat

Tries == 1..MaxTries

VARIABLES
    task,     \* the task instance in Airflow: its state and try_number
    log,      \* log[t]: how many lines try t has written
    cache,    \* AirflowService._task_cache: the instance, Nothing if absent or too old
    conn      \* conn[s]: the event_stream behind SSE connection s

streamVars == <<task, log, cache, conn>>

TaskStates == {"queued", "running", "up_for_retry", "success", "failed"}
Finished   == {"success", "failed"}
Instances  == [state : TaskStates, try : Tries]
Nothing    == [state |-> "none", try |-> 0]

\* got: the lines yielded so far.
Closed == [pc |-> "closed", try |-> 0, token |-> 0, got |-> {}]

Open(t) == [Closed EXCEPT !.pc = "page", !.try = t]

StreamInit ==
    /\ task = [state |-> "queued", try |-> 1]
    /\ log = [t \in Tries |-> 0]
    /\ cache = Nothing
    /\ conn = [s \in Streams |-> Closed]

-----------------------------------------------------------------------------
(* Airflow.                                                                *)

Begin ==
    /\ task.state = "queued"
    /\ task' = [task EXCEPT !.state = "running"]
    /\ UNCHANGED <<log, cache, conn>>

WriteLine ==
    /\ task.state = "running" /\ log[task.try] < MaxLines
    /\ log' = [log EXCEPT ![task.try] = @ + 1]
    /\ UNCHANGED <<task, cache, conn>>

End ==
    /\ task.state = "running"
    /\ \E how \in Finished \cup {"up_for_retry"} :
          /\ how = "up_for_retry" => task.try < MaxTries
          /\ task' = [task EXCEPT !.state = how]
    /\ UNCHANGED <<log, cache, conn>>

\* The next try is queued: by Airflow, or because somebody clears the task, with
\* this backend (clear_task_instance drops the cached instance) or in Airflow.
Requeue ==
    /\ task.state \in Finished \cup {"up_for_retry"} /\ task.try < MaxTries
    /\ task' = [state |-> "queued", try |-> task.try + 1]
    /\ cache' \in {cache, Nothing}
    /\ UNCHANGED <<log, conn>>

Active(t) == task.try = t /\ task.state = "running"

Over(t) == t < task.try \/ (t = task.try /\ task.state \in Finished \cup {"up_for_retry"})

-----------------------------------------------------------------------------
(* The task's state, as get_task_instance returns it.                      *)

Known == IF cache = Nothing THEN task ELSE cache

Look == cache' = Known

\* An entry is no longer served: 5 s after the fetch, an hour for a terminal state.
CacheExpires ==
    /\ cache # Nothing
    /\ cache' = Nothing
    /\ UNCHANGED <<task, log, conn>>

-----------------------------------------------------------------------------
(* event_stream.                                                           *)

Page(t, token) == (token + 1)..log[t]

NextToken(t) == IF Active(t) THEN log[t] ELSE 0

\* One page of the log is fetched and its lines, if any, are yielded.
SendPage(s) ==
    LET c == conn[s]
        p == Page(c.try, c.token)
    IN  /\ c.pc = "page"
        /\ conn' = [conn EXCEPT ![s] =
              [c EXCEPT !.token = NextToken(c.try),
                        !.pc = IF Active(c.try) THEN "page" ELSE "check",
                        !.got = @ \cup p]]
        /\ UNCHANGED <<task, log, cache>>

\* The task has not finished: a pause of 2 s, perhaps a heartbeat, and the next page.
Carry(s) ==
    /\ conn[s].pc = "check" /\ Known.state \notin Finished
    /\ Look
    /\ conn' = [conn EXCEPT ![s].pc = "page"]
    /\ UNCHANGED <<task, log>>

\* Airflow does not tell the task's state: the same, without an answer.
CarryBlindly(s) ==
    /\ conn[s].pc = "check" /\ cache = Nothing
    /\ conn' = [conn EXCEPT ![s].pc = "page"]
    /\ UNCHANGED <<task, log, cache>>

\* Mutant of SendEnd: a task that failed is not known to have finished.
SendEndMutant(s) ==
    /\ conn[s].pc = "check" /\ Known.state = "success"
    /\ Look
    /\ conn' = [conn EXCEPT ![s] = Closed]
    /\ UNCHANGED <<task, log>>

\* `end`, task_finished.
SendEnd(s) ==
    /\ conn[s].pc = "check" /\ Known.state \in Finished
    /\ Look
    /\ conn' = [conn EXCEPT ![s] = Closed]
    /\ UNCHANGED <<task, log>>

Drop(s) ==
    /\ conn[s].pc # "closed"
    /\ conn' = [conn EXCEPT ![s] = Closed]
    /\ UNCHANGED <<task, log, cache>>

\* `error`, because the page could not be had; or the connection breaks.
Break(s) == Drop(s)

\* The server stops and cancels the generator, wherever it waits: its last event is
\* `end`, user_disconnect, which the client receives unless the cancellation overtakes
\* it.  (What the server caches it loses as well: CacheExpires.)
Cancel(s) == Drop(s)

Airflow == Begin \/ WriteLine \/ End \/ Requeue

-----------------------------------------------------------------------------
(* Properties.                                                             *)

\* The values the variables take.
StreamTypeOK ==
    /\ task \in Instances
    /\ log \in [Tries -> 0..MaxLines]
    /\ cache \in Instances \cup {Nothing}
    /\ conn \in [Streams -> [pc : {"closed", "page", "check"}, try : {0} \cup Tries,
                             token : 0..MaxLines, got : SUBSET (1..MaxLines)]]

\* A stream does not outlive the task for ever: if the task stays finished, so that
\* nothing more comes, the connection is closed.
StreamCloses ==
    \A s \in Streams :
        (conn[s].pc # "closed" /\ task.state \in Finished)
            ~> (conn[s].pc = "closed" \/ task.state \notin Finished)
=============================================================================
