--------------------------- MODULE DatasetUpload ---------------------------
(***************************************************************************)
(* The multipart upload of a dataset: S3.vue in the browser, the dataset   *)
(* endpoints of api/v1/s3.py, and the bucket.  The browser sends one       *)
(* request at a time per coroutine, but there are several coroutines: an   *)
(* upload outlives the page that began it, a resumed one may overlap it,   *)
(* and a cancellation runs beside both.  All of them share one slot of     *)
(* localStorage.                                                           *)
(*                                                                         *)
(* A request is answered, refused (nothing was done), or lost: the browser *)
(* gives up, and the server may still do what it was asked at any later    *)
(* time, or never.                                                         *)
(***************************************************************************)
EXTENDS Integers, FiniteSets

CONSTANTS
    Datasets,  \* bound: the ids of the rows that can be created
    Loops,     \* bound: the coroutines under way at a time
    Chunks,    \* the parts of the file
    Nothing,   \* localStorage is empty, pendingResumeState is null
    MaxLost    \* bound: how often the browser gives up or is reloaded

ASSUME UploadAssumption ==
    /\ Chunks \in Nat \ {0} /\ MaxLost \in Nat
    /\ Nothing \notin Datasets

VARIABLES
    row,       \* row[d].status in the table of datasets
    upload,    \* the multipart upload of dataset d
    parts,     \* the parts the bucket holds for it
    object,    \* the object under the dataset's key
    triggers,  \* how often a visualization was started by the confirmation
    stray,     \* requests the browser no longer waits for
    lost,      \* how often it gave up
    saved,     \* the slot of localStorage
    pending,   \* pendingResumeState of the page
    modal,     \* the resume dialog is open
    page,      \* the page is mounted
    loops      \* loops[l]: a coroutine, waiting for the answer to request pc

server == <<row, upload, parts, object, triggers>>
client == <<saved, pending, modal, page, loops>>
vars == <<server, stray, lost, client>>

Parts == 1..Chunks

Idle == [pc |-> "idle", ds |-> Nothing, list |-> {}, by |-> Nothing, here |-> FALSE]

Init ==
    /\ row = [d \in Datasets |-> "none"]
    /\ upload = [d \in Datasets |-> "none"]
    /\ parts = [d \in Datasets |-> {}]
    /\ object = [d \in Datasets |-> "none"]
    /\ triggers = [d \in Datasets |-> 0]
    /\ stray = {} /\ lost = 0
    /\ saved = Nothing /\ pending = Nothing /\ modal = FALSE /\ page = TRUE
    /\ loops = [l \in Loops |-> Idle]

-----------------------------------------------------------------------------
(* The server: what a request does, when it is not refused.                *)

HasRow(d) == row[d] \notin {"none", "deleted"}

\* The id the database gives to the next row.
NewId == CHOOSE d \in Datasets : row[d] = "none"

CreateRow ==
    /\ \E d \in Datasets : row[d] = "none"
    /\ row' = [row EXCEPT ![NewId] = "PENDING"]
    /\ UNCHANGED <<upload, parts, object, triggers>>

InitiateMultipart(d) ==
    /\ HasRow(d)
    /\ upload' = [upload EXCEPT ![d] = "open"]
    /\ UNCHANGED <<row, parts, object, triggers>>

PartUrl(d) == HasRow(d) /\ UNCHANGED server

\* A presigned URL goes to the bucket, which knows nothing of the row.
PutPart(d, n) ==
    /\ upload[d] = "open"
    /\ parts' = [parts EXCEPT ![d] = @ \cup {n}]
    /\ UNCHANGED <<row, upload, object, triggers>>

CompleteMultipart(d, list) ==
    /\ HasRow(d) /\ upload[d] = "open" /\ list # {} /\ list \subseteq parts[d]
    /\ upload' = [upload EXCEPT ![d] = "done"]
    /\ object' = [object EXCEPT ![d] = IF list = Parts THEN "whole" ELSE "partial"]
    /\ UNCHANGED <<row, parts, triggers>>

AbortMultipart(d) ==
    /\ HasRow(d) /\ upload[d] = "open"
    /\ upload' = [upload EXCEPT ![d] = "aborted"]
    /\ parts' = [parts EXCEPT ![d] = {}]
    /\ UNCHANGED <<row, object, triggers>>

\* No transition is forbidden; the first COMPLETED starts a visualization, whose
\* errors are logged and dropped.
UpdateStatus(d, status) ==
    /\ HasRow(d)
    /\ row' = [row EXCEPT ![d] = status]
    /\ triggers' = IF status = "COMPLETED" /\ row[d] # "COMPLETED"
                   THEN [triggers EXCEPT ![d] = @ + 1] ELSE triggers
    /\ UNCHANGED <<upload, parts, object>>

Handle(r) ==
    \/ r.op = "create"   /\ CreateRow
    \/ r.op = "initiate" /\ InitiateMultipart(r.ds)
    \/ r.op = "url"      /\ PartUrl(r.ds)
    \/ r.op = "put"      /\ PutPart(r.ds, r.part)
    \/ r.op = "complete" /\ CompleteMultipart(r.ds, r.list)
    \/ r.op = "confirm"  /\ UpdateStatus(r.ds, "COMPLETED")
    \/ r.op = "resume"   /\ UpdateStatus(r.ds, "UPLOADING")
    \/ r.op \in {"fail", "mark"} /\ UpdateStatus(r.ds, "FAILED")
    \/ r.op = "abort"    /\ AbortMultipart(r.ds)

\* The object goes first, then the row; the user may keep the object, and the
\* commit may fail after the object is gone.
DeleteDataset(d) ==
    /\ HasRow(d)
    /\ \E alsoObject, committed \in BOOLEAN :
          /\ alsoObject \/ committed
          /\ object' = IF alsoObject /\ object[d] # "none"
                       THEN [object EXCEPT ![d] = "removed"] ELSE object
          /\ row' = IF committed THEN [row EXCEPT ![d] = "deleted"] ELSE row
    /\ UNCHANGED <<upload, parts, triggers, stray, lost, client>>

-----------------------------------------------------------------------------
(* The browser: one answer at a time.                                      *)

NextPart(list) ==
    CHOOSE n \in Parts \ list : \A m \in Parts \ list : n <= m

Request(l) ==
    LET c == loops[l]
    IN  [op   |-> c.pc,
         ds   |-> c.ds,
         part |-> IF c.pc = "put" THEN NextPart(c.list) ELSE 0,
         list |-> IF c.pc = "complete" THEN c.list ELSE {}]

\* Mutant of Grown: the part after the one that was put is listed.
GrownMutant(list) == list \cup {NextPart(list) + 1}

\* The list of a loop that has just put a part.
Grown(list) == list \cup {NextPart(list)}

\* Mutant of AfterPart: the loop stops one part early.
AfterPartMutant(list) == IF Cardinality(list) >= Chunks - 1 THEN "complete" ELSE "url"

\* Mutant of AfterPart: the status is confirmed without completing the upload.
AfterPartMutant2(list) == IF list = Parts THEN "confirm" ELSE "url"

\* What a loop asks for next, given the parts it has listed.
AfterPart(list) == IF list = Parts THEN "complete" ELSE "url"

Goes(l, pc) == loops' = [loops EXCEPT ![l].pc = pc]
Ends(l) == loops' = [loops EXCEPT ![l] = Idle]
KeepPage == UNCHANGED <<pending, modal, page>>

\* cancelResumeUpload ends: the slot is emptied, whoever it belongs to.
Cancelled(l) ==
    /\ saved' = Nothing
    /\ Ends(l)
    /\ pending' = IF loops[l].here THEN Nothing ELSE pending
    /\ modal' = (modal /\ ~loops[l].here)
    /\ UNCHANGED page

\* The answer to the request of loop l: what the browser does with it.
Proceed(l) ==
    LET c == loops[l]
    IN  \/ /\ c.pc = "create"
           /\ loops' = [loops EXCEPT ![l].pc = "initiate", ![l].ds = NewId]
           /\ UNCHANGED saved /\ KeepPage
        \/ /\ c.pc = "initiate"
           /\ saved' = [ds |-> c.ds, list |-> {}]
           /\ Goes(l, AfterPart({})) /\ KeepPage
        \/ /\ c.pc = "url"
           /\ Goes(l, "put") /\ UNCHANGED saved /\ KeepPage
        \/ /\ c.pc = "put"
           /\ saved' = [ds |-> c.ds, list |-> Grown(c.list)]
           /\ loops' = [loops EXCEPT ![l].list = Grown(@), ![l].pc = AfterPart(Grown(c.list))]
           /\ KeepPage
        \/ /\ c.pc = "complete"
           /\ Goes(l, "confirm") /\ UNCHANGED saved /\ KeepPage
        \/ /\ c.pc = "confirm"
           /\ saved' = Nothing
           /\ Ends(l) /\ KeepPage
        \/ /\ c.pc = "fail"
           /\ Ends(l) /\ UNCHANGED saved /\ KeepPage
        \/ /\ c.pc = "resume"
           /\ IF c.here /\ pending = Nothing THEN Ends(l) ELSE Goes(l, AfterPart(c.list))
           /\ UNCHANGED saved /\ KeepPage
        \/ /\ c.pc = "abort"
           /\ Goes(l, "mark") /\ UNCHANGED saved /\ KeepPage
        \/ /\ c.pc = "mark"
           /\ Cancelled(l)

\* There was no answer, or an error.
GiveUp(l) ==
    LET c == loops[l]
    IN  \/ /\ c.pc \in {"create", "initiate", "resume", "fail"}
           /\ Ends(l) /\ UNCHANGED saved /\ KeepPage
        \/ /\ c.pc \in {"url", "put", "complete", "confirm"}
           /\ Goes(l, "fail") /\ UNCHANGED saved /\ KeepPage
        \/ /\ c.pc \in {"abort", "mark"}
           /\ Cancelled(l)

Answered(l) ==
    /\ loops[l].pc # "idle"
    /\ Handle(Request(l)) /\ Proceed(l)
    /\ UNCHANGED <<stray, lost>>

Refused(l) ==
    /\ loops[l].pc # "idle"
    /\ GiveUp(l)
    /\ UNCHANGED <<server, stray, lost>>

Lost(l) ==
    /\ loops[l].pc \notin {"idle", "url"} /\ lost < MaxLost
    /\ GiveUp(l)
    /\ stray' = stray \cup {Request(l)}
    /\ lost' = lost + 1
    /\ UNCHANGED server

Late ==
    \E r \in stray :
        /\ Handle(r)
        /\ stray' = stray \ {r}
        /\ UNCHANGED <<lost, client>>

-----------------------------------------------------------------------------
(* The user.                                                               *)

\* isPreparing of the page that is mounted.
Preparing == \E l \in Loops : loops[l].by = "submit" /\ loops[l].here

Begin(c) == \E l \in Loops : loops[l].pc = "idle" /\ loops' = [loops EXCEPT ![l] = c]

SubmitDataset ==
    /\ page /\ ~Preparing
    /\ Begin([Idle EXCEPT !.pc = "create", !.by = "submit", !.here = TRUE])
    /\ UNCHANGED <<server, stray, lost, saved, pending, modal, page>>

ConfirmResume ==
    /\ modal
    /\ Begin([pc |-> "resume", ds |-> pending.ds, list |-> pending.list,
              by |-> "resume", here |-> TRUE])
    /\ modal' = FALSE
    /\ UNCHANGED <<server, stray, lost, saved, pending, page>>

CancelResumeUpload ==
    /\ modal
    /\ Begin([Idle EXCEPT !.pc = "abort", !.ds = pending.ds, !.by = "cancel", !.here = TRUE])
    /\ UNCHANGED <<server, stray, lost, saved, pending, modal, page>>

\* The user goes to another page of the application: the loops go on.
Leave ==
    /\ page
    /\ page' = FALSE /\ modal' = FALSE /\ pending' = Nothing
    /\ loops' = [l \in Loops |-> [loops[l] EXCEPT !.here = FALSE]]
    /\ UNCHANGED <<server, stray, lost, saved>>

Mount ==
    /\ ~page
    /\ page' = TRUE /\ pending' = saved /\ modal' = (saved # Nothing)
    /\ UNCHANGED <<server, stray, lost, saved, loops>>

\* The browser is reloaded or killed: the loops die, their requests do not.
Reload ==
    /\ lost < MaxLost
    /\ stray' = stray \cup {Request(l) : l \in {k \in Loops : loops[k].pc \notin {"idle", "url"}}}
    /\ lost' = lost + 1
    /\ loops' = [l \in Loops |-> Idle]
    /\ page' = TRUE /\ pending' = saved /\ modal' = (saved # Nothing)
    /\ UNCHANGED <<server, saved>>

Next ==
    \/ \E l \in Loops : Answered(l) \/ Refused(l) \/ Lost(l)
    \/ \E d \in Datasets : DeleteDataset(d)
    \/ Late \/ SubmitDataset \/ ConfirmResume \/ CancelResumeUpload
    \/ Leave \/ Mount \/ Reload

Spec == Init /\ [][Next]_vars

-----------------------------------------------------------------------------
(* Properties.                                                             *)

Ops == {"create", "initiate", "url", "put", "complete", "confirm", "fail", "resume",
        "abort", "mark"}
Requests == [op   : Ops \ {"url"},
             ds   : Datasets \cup {Nothing},
             part : 0..Chunks,
             list : SUBSET Parts]
Slots == [ds : Datasets, list : SUBSET Parts]
Coroutines == [pc   : {"idle"} \cup Ops,
               ds   : Datasets \cup {Nothing},
               list : SUBSET Parts,
               by   : {Nothing, "submit", "resume", "cancel"},
               here : BOOLEAN]

\* Every variable has its type; in particular no part beyond the last is ever
\* put, listed or remembered (the loop of processUploadLoop).
TypeOK ==
    /\ row \in [Datasets -> {"none", "PENDING", "UPLOADING", "COMPLETED", "FAILED", "deleted"}]
    /\ upload \in [Datasets -> {"none", "open", "done", "aborted"}]
    /\ parts \in [Datasets -> SUBSET Parts]
    /\ object \in [Datasets -> {"none", "partial", "whole", "removed"}]
    /\ triggers \in [Datasets -> Nat]
    /\ stray \subseteq Requests /\ lost \in 0..MaxLost
    /\ saved \in Slots \cup {Nothing} /\ pending \in Slots \cup {Nothing}
    /\ modal \in BOOLEAN /\ page \in BOOLEAN
    /\ loops \in [Loops -> Coroutines]

\* A dataset that users see as COMPLETED has its object, whole, in the bucket,
\* unless a deletion took the object and then failed to delete the row: whatever
\* was lost, resumed twice, cancelled meanwhile or answered late
\* (processUploadLoop, confirm_s3_dataset).
CompletedIsWhole ==
    \A d \in Datasets : row[d] = "COMPLETED" => object[d] \in {"whole", "removed"}

\* Every part a loop, the dialog or localStorage lists, and would therefore skip,
\* is in the bucket as long as the upload can be completed (persistUploadState is
\* called after the part was put, never before).
Remembered ==
    {c \in {saved, pending} : c # Nothing} \cup {loops[l] : l \in {k \in Loops : loops[k].ds # Nothing}}

ListedIsStored ==
    \A c \in Remembered : upload[c.ds] = "open" => c.list \subseteq parts[c.ds]

\* Once the bucket accepted the user's cancellation no loop that is still running,
\* and no late request, makes the dataset COMPLETED (cancelResumeUpload beside
\* processUploadLoop).
CancelHolds ==
    \A d \in Datasets : upload[d] = "aborted" => row[d] # "COMPLETED" /\ object[d] = "none"

\* The confirmation of a dataset starts its visualization at most once, and never
\* before the object is there, however often the upload was resumed
\* (confirm_s3_dataset, was_completed).
VisualizedOnce ==
    \A d \in Datasets : triggers[d] <= 1 /\ (triggers[d] = 1 => upload[d] = "done")
=============================================================================
