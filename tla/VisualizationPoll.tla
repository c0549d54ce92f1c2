------------------------- MODULE VisualizationPoll -------------------------
(***************************************************************************)
(* The page of a dataset: useDatasetVisualizationPoll and the widget that  *)
(* shows what it learns.  An interval asks for the status every 3 s,       *)
(* whether or not the last answer has come, and the answers are applied in *)
(* the order in which they arrive, those that arrive after the polling     *)
(* has stopped or been restarted included.                                 *)
(*                                                                         *)
(* isPolling and the interval begin and end together: one variable.        *)
(***************************************************************************)
EXTENDS Visualization

CONSTANTS
    MaxNotFound,   \* MAX_NOT_FOUND_POLLS (40)
    MaxPipeline    \* MAX_PIPELINE_POLLS (120)

ASSUME PollAssumption == MaxNotFound \in Nat \ {0} /\ MaxPipeline \in Nat \ {0}

VARIABLES
    mounted,        \* the widget's life: "before", "mounted", "after"
    polling,        \* isPolling, and the interval runs
    status,         \* the status shown, "null" before the first
    notFoundPolls,  \* not_found in a row
    pipelinePolls,  \* answers that the run is under way
    pollTimedOut, pipelineTimedOut, pollError,
    late            \* history: an answer was applied after the polling stopped

pollVars == <<mounted, polling, status, notFoundPolls, pipelinePolls,
              pollTimedOut, pipelineTimedOut, pollError, late>>
vars == <<vizVars, pollVars>>

Init ==
    /\ VizInit
    /\ mounted = "before" /\ polling = FALSE /\ status = "null"
    /\ notFoundPolls = 0 /\ pipelinePolls = 0
    /\ pollTimedOut = FALSE /\ pipelineTimedOut = FALSE /\ pollError = FALSE
    /\ late = FALSE

-----------------------------------------------------------------------------
(* What the widget shows.                                                  *)

TerminalStatuses == {"success", "failed", "unsupported_schema", "unavailable"}

ShowResults == status = "success"

ShowLoading ==
    /\ polling /\ ~pollTimedOut /\ ~pipelineTimedOut
    /\ status \notin TerminalStatuses

ShowRetry ==
    /\ ~ShowResults
    /\ \/ pollTimedOut \/ pipelineTimedOut \/ pollError
       \/ status \in {"failed", "unavailable", "not_found"}

-----------------------------------------------------------------------------
(* Polling.                                                                *)

Sent(q) == req' = [req EXCEPT ![q] = [NoRequest EXCEPT !.pc = "list"]]

\* startPolling: the counters are reset and the first request goes out at once.
StartPolling ==
    /\ polling' = TRUE
    /\ notFoundPolls' = 0 /\ pipelinePolls' = 0
    /\ pollTimedOut' = FALSE /\ pipelineTimedOut' = FALSE
    /\ late' = FALSE
    /\ \E q \in Requests : req[q].pc = "none" /\ Sent(q)

Mount ==
    /\ mounted = "before" /\ mounted' = "mounted"
    /\ StartPolling
    /\ UNCHANGED <<fits, runs, summary, errorFile, launch, status, pollError>>

Unmount ==
    /\ mounted = "mounted" /\ mounted' = "after"
    /\ polling' = FALSE
    /\ UNCHANGED <<vizVars, status, notFoundPolls, pipelinePolls, pollTimedOut,
                   pipelineTimedOut, pollError, late>>

\* The interval fires.
Tick ==
    /\ polling
    /\ \E q \in Requests : req[q].pc = "none" /\ Sent(q)
    /\ UNCHANGED <<fits, runs, summary, errorFile, launch, pollVars>>

\* Mutant of CountPoll: the end of the patience with a run is not noted.
CountPollMutant(s) ==
    /\ notFoundPolls' = IF s = "not_found" THEN notFoundPolls + 1 ELSE 0
    /\ pipelinePolls' = IF s = "running" THEN pipelinePolls + 1 ELSE pipelinePolls
    /\ pollTimedOut' = (pollTimedOut \/ notFoundPolls' >= MaxNotFound)
    /\ UNCHANGED pipelineTimedOut
    /\ polling' = (polling /\ notFoundPolls' < MaxNotFound /\ pipelinePolls' < MaxPipeline)

\* Mutant of CountPoll: the answers that the run is under way are not counted.
CountPollMutant2(s) ==
    /\ notFoundPolls' = IF s = "not_found" THEN notFoundPolls + 1 ELSE 0
    /\ pollTimedOut' = (pollTimedOut \/ notFoundPolls' >= MaxNotFound)
    /\ UNCHANGED <<pipelinePolls, pipelineTimedOut>>
    /\ polling' = (polling /\ notFoundPolls' < MaxNotFound)

\* shouldContinuePolling of a status that is not terminal.
CountPoll(s) ==
    LET nf == IF s = "not_found" THEN notFoundPolls + 1 ELSE 0
        pp == IF s = "not_found" THEN pipelinePolls ELSE pipelinePolls + 1
        lost == s = "not_found" /\ nf >= MaxNotFound
        slow == s # "not_found" /\ pp >= MaxPipeline
    IN  /\ notFoundPolls' = nf /\ pipelinePolls' = pp
        /\ pollTimedOut' = (pollTimedOut \/ lost)
        /\ pipelineTimedOut' = (pipelineTimedOut \/ slow)
        /\ polling' = (polling /\ ~lost /\ ~slow)

Done(q) == req' = [req EXCEPT ![q] = NoRequest]

Receive(q) ==
    LET s == req[q].answer
    IN  /\ req[q].pc = "answered" /\ s # "error"
        /\ Done(q)
        /\ status' = s /\ pollError' = FALSE
        /\ late' = (late \/ ~polling)
        /\ \/ /\ s \in TerminalStatuses
              /\ polling' = FALSE
              /\ UNCHANGED <<notFoundPolls, pipelinePolls, pollTimedOut, pipelineTimedOut>>
           \/ /\ s \notin TerminalStatuses
              /\ CountPoll(s)
        /\ UNCHANGED <<fits, runs, summary, errorFile, launch, mounted>>

ReceiveError(q) ==
    /\ req[q].pc = "answered" /\ req[q].answer = "error"
    /\ Done(q)
    /\ pollError' = TRUE /\ polling' = FALSE
    /\ UNCHANGED <<fits, runs, summary, errorFile, launch, mounted, status, notFoundPolls,
                   pipelinePolls, pollTimedOut, pipelineTimedOut, late>>

-----------------------------------------------------------------------------
(* Retry visualization, Re-run visualization.                              *)

Retry ==
    /\ mounted = "mounted" /\ launch["page"] = "idle"
    /\ (ShowRetry /\ ~ShowLoading) \/ ShowResults
    /\ launch' = [launch EXCEPT !["page"] = "start"]
    /\ UNCHANGED <<fits, runs, summary, errorFile, req, pollVars>>

\* The polling begins again, even if the widget is gone by now.
Retried ==
    /\ launch["page"] = "ok"
    /\ launch' = [launch EXCEPT !["page"] = "idle"]
    /\ status' = "null"
    /\ StartPolling
    /\ UNCHANGED <<fits, runs, summary, errorFile, mounted, pollError>>

\* retryError is shown beside what was there.
RetryFails ==
    /\ launch["page"] = "error"
    /\ launch' = [launch EXCEPT !["page"] = "idle"]
    /\ UNCHANGED <<fits, runs, summary, errorFile, req, pollVars>>

-----------------------------------------------------------------------------
Server == (Airflow \/ Trigger \/ \E q \in Requests : StatusStep(q)) /\ UNCHANGED pollVars

Next ==
    \/ Server
    \/ Mount
    \/ Unmount
    \/ Tick
    \/ \E q \in Requests : Receive(q) \/ ReceiveError(q)
    \/ Retry
    \/ Retried
    \/ RetryFails

Spec == Init /\ [][Next]_vars

\* Some request ends, by the browser's 30 s if by nothing else, and intervals fire.
Fairness ==
    /\ WF_vars(\E q \in Requests : StatusStep(q) /\ UNCHANGED pollVars)
    /\ WF_vars(\E q \in Requests : Receive(q) \/ ReceiveError(q))
    /\ WF_vars(Tick)

FairSpec == Spec /\ Fairness

-----------------------------------------------------------------------------
TypeOK ==
    /\ VizTypeOK
    /\ mounted \in {"before", "mounted", "after"}
    /\ polling \in BOOLEAN
    /\ status \in (Answers \ {"error"}) \cup {"null"}
    /\ notFoundPolls \in Nat /\ pipelinePolls \in Nat
    /\ pollTimedOut \in BOOLEAN /\ pipelineTimedOut \in BOOLEAN /\ pollError \in BOOLEAN
    /\ late \in BOOLEAN

\* The page never comes to a dead end: it shows results, or that it is loading, or
\* something to press.  What can take the way out from it is an answer that arrives
\* after the polling stopped, with an older state than the one shown.
NoDeadEnd == mounted = "mounted" => ShowResults \/ ShowLoading \/ ShowRetry \/ late

\* The polling ends, whatever Airflow answers and in whichever order: the two counters
\* and the terminal states stop every interval, that of a widget that is gone included.
PollingEnds == polling ~> ~polling
=============================================================================
