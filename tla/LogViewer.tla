----------------------------- MODULE LogViewer -----------------------------
(***************************************************************************)
(* LogViewer.vue, the browser's window on LogStream.  Every startStream    *)
(* aborts the stream, empties the window, fetches the log over REST page   *)
(* by page, and then, if the task was active when it began, opens an SSE   *)
(* stream for the rest.  startStream is a coroutine nobody cancels: a      *)
(* second one may begin while the first still fetches.                     *)
(*                                                                         *)
(* The window is a list of lines.  The model keeps the set of the lines in *)
(* it and the set of those in it more than once: pages ascend, so that a   *)
(* list without a hole shows its lines, the first time, in order.  The     *)
(* filters only hide lines and are left out.                               *)
(***************************************************************************)
EXTENDS LogStream

CONSTANTS
    Starts,     \* bound: the startStream coroutines under way at a time
    NoStream,   \* abortController is null
    MaxPages,   \* pages fetchHistorical asks for (50)
    MaxWipes    \* bound: how often the user empties the window

ASSUME ViewerAssumption ==
    /\ MaxPages \in Nat \ {0} /\ MaxWipes \in Nat /\ NoStream \notin Streams

VARIABLES
    mounted,      \* the component's life: "before", "mounted", "after"
    props,        \* the task instance the component was given
    selectedTry,  \* the try the user looks at
    starts,       \* starts[i]: a startStream awaiting its history
    controller,   \* the stream abortController can abort
    streamState,  \* the badge
    lines,        \* the lines in the window, each with its try
    again,        \* those that are in it more than once
    wipes,        \* how often the user emptied it
    overlapped,   \* history: a startStream began while another was fetching
    cut           \* history: the server cut the stream on display short: "no", "told"
                  \*   (by an `end`) or "silent"

viewerVars == <<mounted, props, selectedTry, starts, controller, streamState,
                lines, again, wipes, overlapped, cut>>
vars == <<streamVars, viewerVars>>

NotStarted == [on |-> FALSE, try |-> 0, follow |-> FALSE, token |-> 0, pages |-> 0]

Init ==
    /\ StreamInit
    /\ mounted = "before" /\ props = Nothing /\ selectedTry = 0
    /\ starts = [i \in Starts |-> NotStarted]
    /\ controller = NoStream
    /\ streamState = "idle" /\ lines = {} /\ again = {} /\ wipes = 0
    /\ overlapped = FALSE /\ cut = "no"

-----------------------------------------------------------------------------
(* startStream.                                                            *)

Aborted == IF controller = NoStream THEN conn ELSE [conn EXCEPT ![controller] = Closed]

\* Mutant of CloseStream: the controller is forgotten, the stream is not aborted.
CloseStreamMutant ==
    /\ conn' = conn
    /\ controller' = NoStream

CloseStream ==
    /\ conn' = Aborted
    /\ controller' = NoStream

\* The window is emptied and the history of try t called for, under the props p;
\* not if t is still queued.
LoadHistory(p, t) ==
    LET latest == t = p.try
        active == p.state \in {"running", "queued"}
    IN  /\ lines' = {} /\ again' = {}
        /\ cut' = "no"
        /\ overlapped' = (overlapped \/ \E i \in Starts : starts[i].on)
        /\ \/ /\ latest /\ p.state = "queued"
              /\ streamState' = "idle"
              /\ UNCHANGED starts
           \/ /\ ~(latest /\ p.state = "queued")
              /\ streamState' = IF latest /\ active THEN "live" ELSE "idle"
              /\ \E i \in Starts :
                    /\ ~starts[i].on
                    /\ starts' = [starts EXCEPT ![i] =
                          [NotStarted EXCEPT !.on = TRUE, !.try = t, !.follow = latest /\ active]]

StartStream(p, t) == CloseStream /\ LoadHistory(p, t)

\* appendLines concatenates: a line that is there already is there again.
AppendLines(t, p) ==
    LET new == {<<t, n>> : n \in p}
    IN  /\ lines' = lines \cup new
        /\ again' = again \cup (new \cap lines)

\* fetchHistorical: a page arrives and there are more.
HistoryPage(i) ==
    LET h == starts[i]
    IN  /\ h.on /\ Active(h.try) /\ h.pages + 1 < MaxPages
        /\ AppendLines(h.try, Page(h.try, h.token))
        /\ starts' = [starts EXCEPT ![i].token = NextToken(h.try), ![i].pages = @ + 1]
        /\ UNCHANGED <<streamVars, mounted, props, selectedTry, controller, streamState,
                       wipes, overlapped, cut>>

\* Mutant of LastPage: the loop is left before the page's lines are appended.
LastPageMutant(i) ==
    LET h == starts[i]
    IN  /\ h.on /\ (Active(h.try) => h.pages + 1 = MaxPages)
        /\ starts' = [starts EXCEPT ![i] = NotStarted]
        /\ UNCHANGED <<lines, again>>

\* It arrives and is the last one.
LastPage(i) ==
    LET h == starts[i]
    IN  /\ h.on /\ (Active(h.try) => h.pages + 1 = MaxPages)
        /\ AppendLines(h.try, Page(h.try, h.token))
        /\ starts' = [starts EXCEPT ![i] = NotStarted]

\* The last page, and no stream is called for.
ShowOnly(i) ==
    /\ ~starts[i].follow
    /\ LastPage(i)
    /\ streamState' = "done"
    /\ UNCHANGED <<streamVars, mounted, props, selectedTry, controller, wipes, overlapped,
                   cut>>

\* The last page; the stream is opened for the try that is selected by now.
Follow(i) ==
    /\ starts[i].follow
    /\ LastPage(i)
    /\ streamState' = "live"
    /\ \E s \in Streams :
          /\ conn[s].pc = "closed"
          /\ conn' = [conn EXCEPT ![s] = Open(selectedTry)]
          /\ controller' = s
    /\ UNCHANGED <<task, log, cache, mounted, props, selectedTry, wipes, overlapped, cut>>

\* Mutant of HistoryFails: the error is swallowed.
HistoryFailsMutant(i) ==
    /\ starts[i].on
    /\ starts' = [starts EXCEPT ![i] = NotStarted]
    /\ UNCHANGED <<streamVars, mounted, props, selectedTry, controller, streamState, lines,
                   again, wipes, overlapped, cut>>

HistoryFails(i) ==
    /\ starts[i].on
    /\ starts' = [starts EXCEPT ![i] = NotStarted]
    /\ streamState' = "error"
    /\ UNCHANGED <<streamVars, mounted, props, selectedTry, controller, lines,
                   again, wipes, overlapped, cut>>

-----------------------------------------------------------------------------
(* The component.                                                          *)

\* The parent fetches the task instance and mounts the viewer on its try.
Mount ==
    /\ mounted = "before"
    /\ mounted' = "mounted"
    /\ Look /\ props' = Known
    /\ selectedTry' = Known.try
    /\ StartStream(Known, Known.try)
    /\ UNCHANGED <<task, log, wipes>>

Unmount ==
    /\ mounted = "mounted"
    /\ mounted' = "after"
    /\ CloseStream
    /\ UNCHANGED <<task, log, cache, props, selectedTry, starts, streamState,
                   lines, again, wipes, overlapped, cut>>

\* The user selects a try of the list, which is fetched apart from the props.
SelectTry(t) ==
    /\ mounted = "mounted" /\ t \in 1..task.try /\ t # selectedTry
    /\ selectedTry' = t
    /\ StartStream(props, t)
    /\ UNCHANGED <<task, log, cache, mounted, props, wipes>>

BeginsToRun(p, q) == p.state = "queued" /\ q.state = "running"
StopsRunning(p, q) == p.state = "running" /\ q.state \in Finished \cup {"up_for_retry"}

\* The watcher of taskStatus.
Restarts(p, q) == BeginsToRun(p, q) \/ StopsRunning(p, q)

\* The parent's query is answered, every 10 s: new props, and the watcher.
Refresh ==
    /\ mounted = "mounted" /\ Known # props
    /\ Look /\ props' = Known
    /\ \/ /\ Restarts(props, Known)
          /\ StartStream(Known, selectedTry)
          /\ UNCHANGED <<task, log>>
       \/ /\ ~Restarts(props, Known)
          /\ UNCHANGED <<task, log, conn, starts, controller, streamState,
                         lines, again, overlapped, cut>>
    /\ UNCHANGED <<mounted, selectedTry, wipes>>

\* onClear.
Wipe ==
    /\ mounted = "mounted" /\ lines # {} /\ wipes < MaxWipes
    /\ lines' = {} /\ again' = {}
    /\ wipes' = wipes + 1
    /\ UNCHANGED <<streamVars, mounted, props, selectedTry, starts, controller, streamState,
                   overlapped, cut>>

-----------------------------------------------------------------------------
(* onSseEvent: the events of a stream nobody has aborted.                  *)

OnChunk(s) ==
    /\ SendPage(s)
    /\ AppendLines(conn[s].try, Page(conn[s].try, conn[s].token))
    /\ UNCHANGED <<mounted, props, selectedTry, starts, controller, streamState, wipes,
                   overlapped, cut>>

OnNothing(s) ==
    /\ Carry(s) \/ CarryBlindly(s)
    /\ UNCHANGED viewerVars

OnEnd(s) ==
    /\ SendEnd(s)
    /\ streamState' = "done"
    /\ UNCHANGED <<mounted, props, selectedTry, starts, controller, lines, again, wipes,
                   overlapped, cut>>

\* An `error` event, or the reader throws.
OnError(s) ==
    /\ Break(s)
    /\ streamState' = "error"
    /\ UNCHANGED <<mounted, props, selectedTry, starts, controller, lines, again, wipes,
                   overlapped, cut>>

\* `end`, user_disconnect: to the viewer every reason but max_duration is the end.
OnCancelled(s) ==
    /\ Cancel(s)
    /\ streamState' = "done" /\ cut' = "told"
    /\ UNCHANGED <<mounted, props, selectedTry, starts, controller, lines, again, wipes, overlapped>>

\* The body ends and no event has said so: consumeLogStream returns, the badge stays.
OnSilence(s) ==
    /\ Cancel(s)
    /\ cut' = "silent"
    /\ UNCHANGED <<mounted, props, selectedTry, starts, controller, streamState, lines, again,
                   wipes, overlapped>>

\* `end`, max_duration: startStream, which aborts the controller's stream too.
OnLimit(s) ==
    /\ conn[s].pc = "page"
    /\ conn' = [Aborted EXCEPT ![s] = Closed]
    /\ controller' = NoStream
    /\ LoadHistory(props, selectedTry)
    /\ UNCHANGED <<task, log, cache, mounted, props, selectedTry, wipes>>

-----------------------------------------------------------------------------
Fetching(i) == HistoryPage(i) \/ ShowOnly(i) \/ Follow(i) \/ HistoryFails(i)

Next ==
    \/ (Airflow \/ CacheExpires) /\ UNCHANGED viewerVars
    \/ Mount \/ Unmount \/ Refresh \/ Wipe
    \/ \E t \in Tries : SelectTry(t)
    \/ \E i \in Starts : Fetching(i)
    \/ \E s \in Streams :
          \/ OnChunk(s) \/ OnNothing(s) \/ OnEnd(s) \/ OnError(s)
          \/ OnCancelled(s) \/ OnSilence(s) \/ OnLimit(s)

Spec == Init /\ [][Next]_vars

\* Requests are answered or fail; the generator's loop goes on, an entry's TTL passes,
\* and Airflow answers the question for the task's state now and then.  The parent
\* goes on asking for the task, whatever the user does meanwhile: only the bound on
\* Starts ever holds it up, hence strong fairness.
Fairness ==
    /\ WF_vars(CacheExpires /\ UNCHANGED viewerVars)
    /\ SF_vars(Refresh)
    /\ \A i \in Starts : WF_vars(Fetching(i))
    /\ \A s \in Streams :
          WF_vars(OnChunk(s)) /\ WF_vars(OnNothing(s) \/ OnEnd(s)) /\ SF_vars(OnEnd(s))

FairSpec == Spec /\ Fairness

-----------------------------------------------------------------------------
(* Properties.                                                             *)

\* The values the variables take.
TypeOK ==
    /\ StreamTypeOK
    /\ mounted \in {"before", "mounted", "after"}
    /\ props \in Instances \cup {Nothing}
    /\ selectedTry \in {0} \cup Tries
    /\ starts \in [Starts -> [on : BOOLEAN, try : {0} \cup Tries, follow : BOOLEAN,
                             token : 0..MaxLines, pages : 0..(MaxPages - 1)]]
    /\ controller \in Streams \cup {NoStream}
    /\ streamState \in {"idle", "live", "done", "error"}
    /\ lines \subseteq Tries \X (1..MaxLines)
    /\ again \subseteq lines
    /\ wipes \in 0..MaxWipes
    /\ overlapped \in BOOLEAN
    /\ cut \in {"no", "told", "silent"}

Log(t) == {t} \X (1..log[t])

OpenStreams == {s \in Streams : conn[s].pc # "closed"}

\* "Done" tells the truth: as long as no two startStreams overlapped and the user did
\* not empty the window, it then holds the whole log of the try on display and nothing
\* else, a stream that said `end` left nothing behind, and what the history alone has
\* filled (no stream ends in the step) shows no line twice.  The one exception is the
\* server that stops: its `end` is displayed like any other.
EndOfLog ==
    [][(streamState # "done" /\ streamState' = "done" /\ ~overlapped /\ wipes = 0 /\ cut' # "told") =>
           /\ lines' = Log(selectedTry)
           /\ \A s \in OpenStreams : conn'[s].pc = "closed" => Over(conn[s].try)
           /\ conn' = conn => again' = {}]_vars

\* What the window holds of the selected try is the beginning of its log, even
\* while pages of the history and chunks of the stream come in.
NoHole ==
    (~overlapped /\ wipes = 0) => \A t \in Tries, m, n \in 1..MaxLines :
        (<<t, n>> \in lines /\ m < n) => <<t, m>> \in lines

\* The badge does not say "live" for ever once the task has finished for good, except
\* over a stream that the server has cut without a word while another try was queued:
\* then neither an event nor a transition that the watcher acts on ever comes.
LiveEnds ==
    <>[](mounted = "mounted" /\ task.state \in Finished) =>
        []<>(streamState # "live" \/ (cut = "silent" /\ task.try > 1))

\* The component's promise: "On try change or component unmount, the previous
\* stream is aborted".
Aborts ==
    /\ Cardinality(OpenStreams) <= 1
    /\ mounted = "after" => OpenStreams = {}
=============================================================================
