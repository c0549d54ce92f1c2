------------------------ MODULE DatasetUploadProofs ------------------------
(***************************************************************************)
(* Theorems about DatasetUpload, for every set of datasets, every number   *)
(* of coroutines and of parts, and any number of lost requests.            *)
(*                                                                         *)
(* What the properties say of the rows follows from what the requests under*)
(* way may still do.  IInv says that, of the loops and of the stray        *)
(* requests alike: which of them can still exist, given what the bucket    *)
(* already did.                                                            *)
(***************************************************************************)
EXTENDS DatasetUpload, WellFoundedInduction, NaturalsInduction, TLAPS

\* A stray request still asks op of dataset d.
AskedByStray(op, d) == \E r \in stray : r.op = op /\ r.ds = d

\* No two of them ask it.
OnceAtMost(op) ==
    /\ \A l, k \in Loops :
          loops[l].pc = op /\ loops[k].pc = op /\ loops[l].ds = loops[k].ds => l = k
    /\ \A l \in Loops : loops[l].pc = op => ~AskedByStray(op, loops[l].ds)
    /\ \A r, q \in stray : r.op = op /\ q.op = op /\ r.ds = q.ds => r = q

\* Who knows a dataset: nobody before its row exists, only the loop that
\* initiates before the upload does.
KnownInv ==
    /\ \A d \in Datasets : row[d] = "none" => upload[d] = "none"
    /\ \A l \in Loops :
          /\ loops[l].pc \in {"idle", "create"} => loops[l].ds = Nothing
          /\ loops[l].pc \notin {"idle", "create"} =>
                loops[l].ds \in Datasets /\ row[loops[l].ds] # "none"
          /\ loops[l].pc \in {"create", "initiate"} => loops[l].list = {}
          /\ loops[l].pc \notin {"idle", "create"} =>
                (loops[l].pc = "initiate" <=> upload[loops[l].ds] = "none")
    /\ \A r \in stray : r.op # "create" =>
          /\ r.ds \in Datasets /\ row[r.ds] # "none"
          /\ r.op = "initiate" <=> upload[r.ds] = "none"
          /\ r.op = "put" => r.part \in Parts
    /\ saved # Nothing => row[saved.ds] # "none" /\ upload[saved.ds] # "none"
    /\ pending # Nothing => row[pending.ds] # "none" /\ upload[pending.ds] # "none"
    /\ modal => pending # Nothing
    /\ OnceAtMost("initiate")

\* What the bucket did, and which requests that allows.
ObjectInv ==
    /\ \A d \in Datasets :
          /\ upload[d] = "none" => parts[d] = {}
          /\ upload[d] = "done" <=> object[d] \in {"whole", "removed"}
          /\ upload[d] # "done" <=> object[d] = "none"
          /\ row[d] = "COMPLETED" => upload[d] = "done"
          /\ triggers[d] <= 1 /\ (triggers[d] = 1 => upload[d] = "done")
    /\ \A l \in Loops :
          /\ loops[l].pc = "complete" => loops[l].list = Parts
          /\ loops[l].pc \in {"url", "put"} => loops[l].list # Parts
          /\ loops[l].pc = "confirm" => upload[loops[l].ds] = "done" /\ triggers[loops[l].ds] = 0
    /\ \A r \in stray :
          /\ r.op = "complete" => r.list = Parts
          /\ r.op = "confirm" => upload[r.ds] = "done" /\ triggers[r.ds] = 0
    /\ OnceAtMost("confirm")

IInv == TypeOK /\ KnownInv /\ ObjectInv /\ ListedIsStored

-----------------------------------------------------------------------------
\* A set of part numbers that is not empty has a least one.
LEMMA LeastPart ==
    ASSUME NEW S \in SUBSET Nat, S # {}
    PROVE  \E n \in S : \A m \in S : n <= m
PROOF
<1>1. IsWellFoundedOn(OpToRel(<, Nat), Nat)
  BY NatLessThanWellFounded
<1>2. PICK n \in S : \A m \in S : ~ (<<m, n>> \in OpToRel(<, Nat))
  BY <1>1, WFMin
<1>3. \A m \in S : ~ (m < n)
  BY <1>2 DEF OpToRel
<1> QED BY <1>3

\* A list that is not complete has a next part.
LEMMA NextPartType ==
    ASSUME NEW list \in SUBSET Parts, list # Parts
    PROVE  NextPart(list) \in Parts \ list
PROOF
<1>1. Parts \ list \in SUBSET Nat
  BY UploadAssumption DEF Parts
<1>2. Parts \ list # {}
  OBVIOUS
<1>3. \E n \in Parts \ list : \A m \in Parts \ list : n <= m
  BY <1>1, <1>2, LeastPart
<1> QED BY <1>3 DEF NextPart

\* The ids are opaque: a new one is one that no row has.
LEMMA NewIdFresh ==
    ASSUME \E d \in Datasets : row[d] = "none"
    PROVE  NewId \in Datasets /\ row[NewId] = "none"
BY DEF NewId

\* The request a loop waits for.
LEMMA RequestType ==
    ASSUME IInv, NEW l \in Loops, loops[l].pc \notin {"idle", "url"}
    PROVE  Request(l) \in Requests
PROOF
<1>1. loops[l].list \in SUBSET Parts /\ loops[l].ds \in Datasets \cup {Nothing} /\ loops[l].pc \in Ops \ {"url"}
  BY DEF IInv, TypeOK, Coroutines
<1>2. loops[l].pc = "put" => NextPart(loops[l].list) \in 0..Chunks
  BY <1>1, NextPartType, UploadAssumption DEF IInv, ObjectInv, Parts
<1> QED BY <1>1, <1>2, UploadAssumption DEF Request, Requests, Parts


\* What a loop does after a part depends on whether the list is complete.
LEMMA AfterPartCases ==
    ASSUME NEW list
    PROVE  \/ list = Parts /\ AfterPart(list) = "complete"
           \/ list # Parts /\ AfterPart(list) = "url"
BY DEF AfterPart

\* A coroutine that ended.
LEMMA IdleType ==
    /\ Idle \in Coroutines
    /\ Idle.pc = "idle" /\ Idle.ds = Nothing /\ Idle.list = {}
PROOF
<1>1. "idle" \in {"idle"} \cup Ops /\ {} \in SUBSET Parts
  OBVIOUS
<1> QED BY <1>1 DEF Idle, Coroutines

\* The file has parts.
LEMMA PartsType == Parts # {} /\ {} \in SUBSET Parts /\ Parts \in SUBSET Parts
BY UploadAssumption DEF Parts

-----------------------------------------------------------------------------
(* An answer: the request was handled, and its loop goes on.               *)

\* The row is created: only this loop knows it.
LEMMA Answered_create ==
    ASSUME IInv, NEW l \in Loops, loops[l].pc = "create", Answered(l)
    PROVE  IInv'
PROOF
<1> DEFINE d == loops[l].ds
<1> DEFINE list == loops[l].list
<1> DEFINE c == [loops[l] EXCEPT !.pc = "initiate", !.ds = NewId]
<1>1. /\ \E e \in Datasets : row[e] = "none"
      /\ row' = [row EXCEPT ![NewId] = "PENDING"]
      /\ UNCHANGED <<upload, parts, object, triggers, stray, lost>>
  BY DEF Answered, Handle, Request, CreateRow
<1>2. /\ loops' = [loops EXCEPT ![l] = c]
      /\ UNCHANGED <<saved, pending, modal, page>>
  BY DEF Answered, Proceed, KeepPage
<1>3. NewId \in Datasets /\ row[NewId] = "none"
  BY <1>1, NewIdFresh
<1>4. c \in Coroutines /\ c.pc = "initiate" /\ c.ds = NewId /\ c.list = {}
  BY ZenonT(30), <1>3, AfterPartCases, PartsType DEF IInv, TypeOK, KnownInv, Coroutines, Ops
<1> HIDE DEF c
<1>5. TypeOK'
  BY <1>1, <1>2, <1>3, <1>4, UploadAssumption DEF IInv, TypeOK, Slots
<1>6. KnownInv'
  BY <1>1, <1>2, <1>3, <1>4 DEF IInv, TypeOK, KnownInv, ObjectInv, OnceAtMost, AskedByStray
<1>7. ObjectInv'
  BY <1>1, <1>2, <1>3, <1>4 DEF IInv, TypeOK, KnownInv, ObjectInv, OnceAtMost, AskedByStray
<1>8. ListedIsStored'
  BY <1>1, <1>2, <1>3, <1>4 DEF IInv, TypeOK, KnownInv, ObjectInv, OnceAtMost, AskedByStray, ListedIsStored, Remembered
<1> QED BY <1>5, <1>6, <1>7, <1>8 DEF IInv

\* The upload is initiated, and the slot names it.
LEMMA Answered_initiate ==
    ASSUME IInv, NEW l \in Loops, loops[l].pc = "initiate", Answered(l)
    PROVE  IInv'
PROOF
<1> DEFINE d == loops[l].ds
<1> DEFINE list == loops[l].list
<1> DEFINE c == [loops[l] EXCEPT !.pc = AfterPart({})]
<1>1. /\ row[d] # "none"
      /\ upload' = [upload EXCEPT ![d] = "open"]
      /\ UNCHANGED <<row, parts, object, triggers, stray, lost>>
  BY DEF Answered, Handle, Request, InitiateMultipart, HasRow
<1>2. /\ loops' = [loops EXCEPT ![l] = c]
      /\ saved' = [ds |-> d, list |-> {}]
      /\ UNCHANGED <<pending, modal, page>>
  BY DEF Answered, Proceed, KeepPage, Goes
<1>3. d \in Datasets /\ list \in SUBSET Parts
  BY DEF IInv, TypeOK, Coroutines, KnownInv
<1>4. c \in Coroutines /\ c.pc = AfterPart({}) /\ c.ds = d /\ c.list = {}
  BY <1>3, AfterPartCases, PartsType DEF IInv, TypeOK, KnownInv, Coroutines, Ops
<1> HIDE DEF c
<1>5. TypeOK'
  BY <1>1, <1>2, <1>3, <1>4, AfterPartCases, PartsType, UploadAssumption DEF IInv, TypeOK, Slots
<1>6. KnownInv'
  BY <1>1, <1>2, <1>3, <1>4, AfterPartCases, PartsType DEF IInv, TypeOK, KnownInv, ObjectInv, OnceAtMost, AskedByStray
<1>7. ObjectInv'
  BY <1>1, <1>2, <1>3, <1>4, AfterPartCases, PartsType DEF IInv, TypeOK, KnownInv, ObjectInv, OnceAtMost, AskedByStray
<1>8. ListedIsStored'
  BY <1>1, <1>2, <1>3, <1>4, AfterPartCases, PartsType DEF IInv, TypeOK, KnownInv, ObjectInv, OnceAtMost, AskedByStray, ListedIsStored, Remembered
<1> QED BY <1>5, <1>6, <1>7, <1>8 DEF IInv

\* A URL was presigned.
LEMMA Answered_url ==
    ASSUME IInv, NEW l \in Loops, loops[l].pc = "url", Answered(l)
    PROVE  IInv'
PROOF
<1> DEFINE d == loops[l].ds
<1> DEFINE list == loops[l].list
<1> DEFINE c == [loops[l] EXCEPT !.pc = "put"]
<1>1. /\ UNCHANGED <<row, upload, parts, object, triggers, stray, lost>>
  BY DEF Answered, Handle, Request, PartUrl, server
<1>2. /\ loops' = [loops EXCEPT ![l] = c]
      /\ UNCHANGED <<saved, pending, modal, page>>
  BY DEF Answered, Proceed, KeepPage, Goes
<1>3. d \in Datasets /\ list \in SUBSET Parts
  BY DEF IInv, TypeOK, Coroutines, KnownInv
<1>4. c \in Coroutines /\ c.pc = "put" /\ c.ds = d /\ c.list = list
  BY <1>3, AfterPartCases, PartsType DEF IInv, TypeOK, KnownInv, Coroutines, Ops
<1> HIDE DEF c
<1>5. TypeOK'
  BY <1>1, <1>2, <1>3, <1>4, UploadAssumption DEF IInv, TypeOK, Slots
<1>6. KnownInv'
  BY <1>1, <1>2, <1>3, <1>4 DEF IInv, TypeOK, KnownInv, ObjectInv, OnceAtMost, AskedByStray
<1>7. ObjectInv'
  BY <1>1, <1>2, <1>3, <1>4 DEF IInv, TypeOK, KnownInv, ObjectInv, OnceAtMost, AskedByStray
<1>8. ListedIsStored'
  BY <1>1, <1>2, <1>3, <1>4 DEF IInv, TypeOK, KnownInv, ObjectInv, OnceAtMost, AskedByStray, ListedIsStored, Remembered
<1> QED BY <1>5, <1>6, <1>7, <1>8 DEF IInv

\* The part is in the bucket, then in the list, then in the slot.
LEMMA Answered_put ==
    ASSUME IInv, NEW l \in Loops, loops[l].pc = "put", Answered(l)
    PROVE  IInv'
PROOF
<1> DEFINE d == loops[l].ds
<1> DEFINE list == loops[l].list
<1> DEFINE n == NextPart(list)
<1> DEFINE grown == list \cup {n}
<1> DEFINE c == [loops[l] EXCEPT !.list = grown, !.pc = AfterPart(grown)]
<1>1. /\ upload[d] = "open"
      /\ parts' = [parts EXCEPT ![d] = @ \cup {n}]
      /\ UNCHANGED <<row, upload, object, triggers, stray, lost>>
  BY DEF Answered, Handle, Request, PutPart
<1>2. /\ loops' = [loops EXCEPT ![l] = c]
      /\ saved' = [ds |-> d, list |-> grown]
      /\ UNCHANGED <<pending, modal, page>>
  BY DEF Answered, Proceed, KeepPage, Grown
<1>3. d \in Datasets /\ n \in Parts /\ grown \in SUBSET Parts
  BY NextPartType DEF IInv, TypeOK, Coroutines, KnownInv, ObjectInv
<1>a. AfterPart(grown) \in Ops
  BY AfterPartCases DEF Ops
<1>4. c \in Coroutines /\ c.pc = AfterPart(grown) /\ c.ds = d /\ c.list = grown
  BY <1>3, <1>a DEF IInv, TypeOK, Coroutines
<1>b. grown \subseteq parts'[d] /\ \A e \in Datasets : parts[e] \subseteq parts'[e]
  <2>1. list \subseteq parts[d]
    BY <1>1, <1>3, UploadAssumption DEF IInv, ListedIsStored, Remembered
  <2> QED BY <2>1, <1>1, <1>3 DEF IInv, TypeOK
<1> HIDE DEF c, n, grown
<1>5. TypeOK'
  BY <1>1, <1>2, <1>3, <1>4, AfterPartCases, UploadAssumption DEF IInv, TypeOK, Slots
<1>6. KnownInv'
  BY <1>1, <1>2, <1>3, <1>4, AfterPartCases DEF IInv, TypeOK, KnownInv, ObjectInv, OnceAtMost, AskedByStray
<1>7. ObjectInv'
  BY <1>1, <1>2, <1>3, <1>4, AfterPartCases DEF IInv, TypeOK, KnownInv, ObjectInv, OnceAtMost, AskedByStray
<1>8. ListedIsStored'
  BY <1>1, <1>2, <1>3, <1>4, <1>b DEF IInv, TypeOK, Slots, Coroutines, ListedIsStored, Remembered
<1> QED BY <1>5, <1>6, <1>7, <1>8 DEF IInv

\* The bucket made the object of all the parts; this loop alone will confirm it.
LEMMA Answered_complete ==
    ASSUME IInv, NEW l \in Loops, loops[l].pc = "complete", Answered(l)
    PROVE  IInv'
PROOF
<1> DEFINE d == loops[l].ds
<1> DEFINE list == loops[l].list
<1> DEFINE c == [loops[l] EXCEPT !.pc = "confirm"]
<1>1. /\ upload[d] = "open"
      /\ upload' = [upload EXCEPT ![d] = "done"]
      /\ object' = [object EXCEPT ![d] = IF list = Parts THEN "whole" ELSE "partial"]
      /\ UNCHANGED <<row, parts, triggers, stray, lost>>
  BY DEF Answered, Handle, Request, CompleteMultipart
<1>2. /\ loops' = [loops EXCEPT ![l] = c]
      /\ UNCHANGED <<saved, pending, modal, page>>
  BY DEF Answered, Proceed, KeepPage, Goes
<1>3. d \in Datasets /\ list \in SUBSET Parts
  BY DEF IInv, TypeOK, Coroutines, KnownInv
<1>4. c \in Coroutines /\ c.pc = "confirm" /\ c.ds = d /\ c.list = list
  BY <1>3, AfterPartCases, PartsType DEF IInv, TypeOK, KnownInv, Coroutines, Ops
<1>a. triggers[d] = 0 /\ list = Parts
  BY <1>1, <1>3 DEF IInv, TypeOK, ObjectInv
<1> HIDE DEF c
<1>5. TypeOK'
  BY <1>1, <1>2, <1>3, <1>4, PartsType, UploadAssumption DEF IInv, TypeOK, Slots
<1>6. KnownInv'
  BY <1>1, <1>2, <1>3, <1>4, PartsType DEF IInv, TypeOK, KnownInv, ObjectInv, OnceAtMost, AskedByStray
<1>7. ObjectInv'
  BY <1>1, <1>2, <1>3, <1>4, <1>a DEF IInv, TypeOK, KnownInv, ObjectInv, OnceAtMost, AskedByStray
<1>8. ListedIsStored'
  BY <1>1, <1>2, <1>3, <1>4, PartsType DEF IInv, TypeOK, KnownInv, ObjectInv, OnceAtMost, AskedByStray, ListedIsStored, Remembered
<1> QED BY <1>5, <1>6, <1>7, <1>8 DEF IInv

\* The dataset is COMPLETED, and the slot is emptied.
LEMMA Answered_confirm ==
    ASSUME IInv, NEW l \in Loops, loops[l].pc = "confirm", Answered(l)
    PROVE  IInv'
PROOF
<1> DEFINE d == loops[l].ds
<1> DEFINE list == loops[l].list
<1> DEFINE c == Idle
<1>1. /\ row[d] # "none"
      /\ row' = [row EXCEPT ![d] = "COMPLETED"]
      /\ triggers' = IF row[d] # "COMPLETED" THEN [triggers EXCEPT ![d] = @ + 1] ELSE triggers
      /\ UNCHANGED <<upload, parts, object, stray, lost>>
  BY DEF Answered, Handle, Request, UpdateStatus, HasRow
<1>2. /\ loops' = [loops EXCEPT ![l] = c]
      /\ saved' = Nothing
      /\ UNCHANGED <<pending, modal, page>>
  BY DEF Answered, Proceed, KeepPage, Ends
<1>3. d \in Datasets /\ list \in SUBSET Parts
  BY DEF IInv, TypeOK, Coroutines, KnownInv
<1>4. c \in Coroutines /\ c.pc = "idle" /\ c.ds = Nothing /\ c.list = {}
  BY <1>3, AfterPartCases, PartsType DEF IInv, TypeOK, KnownInv, Coroutines, Ops, Idle
<1> HIDE DEF c
<1>5. TypeOK'
  BY <1>1, <1>2, <1>3, <1>4, UploadAssumption DEF IInv, TypeOK, Slots
<1>6. KnownInv'
  BY <1>1, <1>2, <1>3, <1>4 DEF IInv, TypeOK, KnownInv, ObjectInv, OnceAtMost, AskedByStray
<1>7. ObjectInv'
  BY <1>1, <1>2, <1>3, <1>4 DEF IInv, TypeOK, KnownInv, ObjectInv, OnceAtMost, AskedByStray
<1>8. ListedIsStored'
  BY <1>1, <1>2, <1>3, <1>4 DEF IInv, TypeOK, KnownInv, ObjectInv, OnceAtMost, AskedByStray, ListedIsStored, Remembered
<1> QED BY <1>5, <1>6, <1>7, <1>8 DEF IInv

\* The row is UPLOADING again, and the loop goes on, unless the dialog was cancelled.
LEMMA Answered_resume ==
    ASSUME IInv, NEW l \in Loops, loops[l].pc = "resume", Answered(l)
    PROVE  IInv'
PROOF
<1> DEFINE d == loops[l].ds
<1> DEFINE list == loops[l].list
<1> DEFINE c == IF loops[l].here /\ pending = Nothing THEN Idle ELSE [loops[l] EXCEPT !.pc = AfterPart(loops[l].list)]
<1>1. /\ row' = [row EXCEPT ![d] = "UPLOADING"]
      /\ UNCHANGED <<upload, parts, object, triggers, stray, lost>>
  BY DEF Answered, Handle, Request, UpdateStatus
<1>2. /\ loops' = [loops EXCEPT ![l] = c]
      /\ UNCHANGED <<saved, pending, modal, page>>
  BY DEF Answered, Proceed, KeepPage, Goes, Ends
<1>3. d \in Datasets /\ list \in SUBSET Parts
  BY DEF IInv, TypeOK, Coroutines, KnownInv
<1>a. AfterPart(list) \in Ops
  BY AfterPartCases DEF Ops
<1>b. c = Idle \/ c = [loops[l] EXCEPT !.pc = AfterPart(list)]
  OBVIOUS
<1> HIDE DEF c
<1>4. /\ c \in Coroutines
      /\ \/ c.pc = "idle" /\ c.ds = Nothing /\ c.list = {}
         \/ c.pc = AfterPart(list) /\ c.ds = d /\ c.list = list
  <2>1. CASE c = Idle
    BY <2>1, IdleType
  <2>2. CASE c = [loops[l] EXCEPT !.pc = AfterPart(list)]
    BY <2>2, <1>3, <1>a DEF IInv, TypeOK, Coroutines
  <2> QED BY <1>b, <2>1, <2>2
<1>5. TypeOK'
  BY <1>1, <1>2, <1>3, <1>4, AfterPartCases, UploadAssumption DEF IInv, TypeOK, Slots
<1>6. KnownInv'
  BY <1>1, <1>2, <1>3, <1>4, AfterPartCases DEF IInv, TypeOK, KnownInv, ObjectInv, OnceAtMost, AskedByStray
<1>7. ObjectInv'
  BY <1>1, <1>2, <1>3, <1>4, AfterPartCases DEF IInv, TypeOK, KnownInv, ObjectInv, OnceAtMost, AskedByStray
<1>8. ListedIsStored'
  BY <1>1, <1>2, <1>3, <1>4, AfterPartCases DEF IInv, TypeOK, KnownInv, ObjectInv, OnceAtMost, AskedByStray, ListedIsStored, Remembered
<1> QED BY <1>5, <1>6, <1>7, <1>8 DEF IInv

\* The row is FAILED, and the loop ends.
LEMMA Answered_fail ==
    ASSUME IInv, NEW l \in Loops, loops[l].pc = "fail", Answered(l)
    PROVE  IInv'
PROOF
<1> DEFINE d == loops[l].ds
<1> DEFINE list == loops[l].list
<1> DEFINE c == Idle
<1>1. /\ row' = [row EXCEPT ![d] = "FAILED"]
      /\ UNCHANGED <<upload, parts, object, triggers, stray, lost>>
  BY DEF Answered, Handle, Request, UpdateStatus
<1>2. /\ loops' = [loops EXCEPT ![l] = c]
      /\ UNCHANGED <<saved, pending, modal, page>>
  BY DEF Answered, Proceed, KeepPage, Ends
<1>3. d \in Datasets /\ list \in SUBSET Parts
  BY DEF IInv, TypeOK, Coroutines, KnownInv
<1>4. c \in Coroutines /\ c.pc = "idle" /\ c.ds = Nothing /\ c.list = {}
  BY <1>3, AfterPartCases, PartsType DEF IInv, TypeOK, KnownInv, Coroutines, Ops, Idle
<1> HIDE DEF c
<1>5. TypeOK'
  BY <1>1, <1>2, <1>3, <1>4, UploadAssumption DEF IInv, TypeOK, Slots
<1>6. KnownInv'
  BY <1>1, <1>2, <1>3, <1>4 DEF IInv, TypeOK, KnownInv, ObjectInv, OnceAtMost, AskedByStray
<1>7. ObjectInv'
  BY <1>1, <1>2, <1>3, <1>4 DEF IInv, TypeOK, KnownInv, ObjectInv, OnceAtMost, AskedByStray
<1>8. ListedIsStored'
  BY <1>1, <1>2, <1>3, <1>4 DEF IInv, TypeOK, KnownInv, ObjectInv, OnceAtMost, AskedByStray, ListedIsStored, Remembered
<1> QED BY <1>5, <1>6, <1>7, <1>8 DEF IInv

\* The bucket dropped the upload.
LEMMA Answered_abort ==
    ASSUME IInv, NEW l \in Loops, loops[l].pc = "abort", Answered(l)
    PROVE  IInv'
PROOF
<1> DEFINE d == loops[l].ds
<1> DEFINE list == loops[l].list
<1> DEFINE c == [loops[l] EXCEPT !.pc = "mark"]
<1>1. /\ upload[d] = "open"
      /\ upload' = [upload EXCEPT ![d] = "aborted"]
      /\ parts' = [parts EXCEPT ![d] = {}]
      /\ UNCHANGED <<row, object, triggers, stray, lost>>
  BY DEF Answered, Handle, Request, AbortMultipart
<1>2. /\ loops' = [loops EXCEPT ![l] = c]
      /\ UNCHANGED <<saved, pending, modal, page>>
  BY DEF Answered, Proceed, KeepPage, Goes
<1>3. d \in Datasets /\ list \in SUBSET Parts
  BY DEF IInv, TypeOK, Coroutines, KnownInv
<1>4. c \in Coroutines /\ c.pc = "mark" /\ c.ds = d /\ c.list = list
  BY <1>3, AfterPartCases, PartsType DEF IInv, TypeOK, KnownInv, Coroutines, Ops
<1> HIDE DEF c
<1>5. TypeOK'
  BY <1>1, <1>2, <1>3, <1>4, UploadAssumption DEF IInv, TypeOK, Slots
<1>6. KnownInv'
  BY <1>1, <1>2, <1>3, <1>4 DEF IInv, TypeOK, KnownInv, ObjectInv, OnceAtMost, AskedByStray
<1>7. ObjectInv'
  BY <1>1, <1>2, <1>3, <1>4 DEF IInv, TypeOK, KnownInv, ObjectInv, OnceAtMost, AskedByStray
<1>8. ListedIsStored'
  BY <1>1, <1>2, <1>3, <1>4 DEF IInv, TypeOK, KnownInv, ObjectInv, OnceAtMost, AskedByStray, ListedIsStored, Remembered
<1> QED BY <1>5, <1>6, <1>7, <1>8 DEF IInv

\* The row is FAILED, and the cancellation ends.
LEMMA Answered_mark ==
    ASSUME IInv, NEW l \in Loops, loops[l].pc = "mark", Answered(l)
    PROVE  IInv'
PROOF
<1> DEFINE d == loops[l].ds
<1> DEFINE list == loops[l].list
<1> DEFINE c == Idle
<1>1. /\ row' = [row EXCEPT ![d] = "FAILED"]
      /\ UNCHANGED <<upload, parts, object, triggers, stray, lost>>
  BY DEF Answered, Handle, Request, UpdateStatus
<1>2. /\ loops' = [loops EXCEPT ![l] = c]
      /\ saved' = Nothing
      /\ \/ UNCHANGED <<pending, modal>>
         \/ pending' = Nothing /\ modal' = FALSE
      /\ UNCHANGED <<page>>
  <2>1. Cancelled(l) /\ modal \in BOOLEAN /\ loops[l].here \in BOOLEAN
    BY DEF Answered, Proceed, IInv, TypeOK, Coroutines
  <2> QED BY <2>1 DEF Cancelled, Ends
<1>3. d \in Datasets /\ list \in SUBSET Parts
  BY DEF IInv, TypeOK, Coroutines, KnownInv
<1>4. c \in Coroutines /\ c.pc = "idle" /\ c.ds = Nothing /\ c.list = {}
  BY <1>3, AfterPartCases, PartsType DEF IInv, TypeOK, KnownInv, Coroutines, Ops, Idle
<1> HIDE DEF c
<1>5. TypeOK'
  BY <1>1, <1>2, <1>3, <1>4, UploadAssumption DEF IInv, TypeOK, Slots
<1>6. KnownInv'
  BY <1>1, <1>2, <1>3, <1>4 DEF IInv, TypeOK, KnownInv, ObjectInv, OnceAtMost, AskedByStray
<1>7. ObjectInv'
  BY <1>1, <1>2, <1>3, <1>4 DEF IInv, TypeOK, KnownInv, ObjectInv, OnceAtMost, AskedByStray
<1>8. ListedIsStored'
  BY <1>1, <1>2, <1>3, <1>4 DEF IInv, TypeOK, KnownInv, ObjectInv, OnceAtMost, AskedByStray, ListedIsStored, Remembered
<1> QED BY <1>5, <1>6, <1>7, <1>8 DEF IInv




-----------------------------------------------------------------------------
(* No answer.                                                              *)

\* What the browser does without one: the loop reports the failure or ends; the
\* slot and the dialog stay, or a cancellation clears them.
GivenUp(l, c) ==
    /\ loops' = [loops EXCEPT ![l] = c]
    /\ \/ c.pc = "idle" /\ c.ds = Nothing /\ c.list = {}
       \/ /\ c.pc = "fail" /\ c.ds = loops[l].ds /\ c.list = loops[l].list
          /\ loops[l].pc \in {"url", "put", "complete", "confirm"}
    /\ saved' = saved \/ saved' = Nothing
    /\ (pending' = pending /\ modal' = modal) \/ (pending' = Nothing /\ modal' = FALSE)
    /\ page' = page

\* What GiveUp does, in these terms.
LEMMA GiveUpStep ==
    ASSUME IInv, NEW l \in Loops, GiveUp(l)
    PROVE  \E c \in Coroutines : GivenUp(l, c)
PROOF
<1>1. ASSUME Ends(l), UNCHANGED saved, KeepPage
      PROVE  GivenUp(l, Idle)
  BY <1>1, IdleType DEF Ends, KeepPage, GivenUp
<1>2. ASSUME Goes(l, "fail"), UNCHANGED saved, KeepPage,
             loops[l].pc \in {"url", "put", "complete", "confirm"}
      PROVE  \E c \in Coroutines : GivenUp(l, c)
  <2> DEFINE c == [loops[l] EXCEPT !.pc = "fail"]
  <2>1. c \in Coroutines /\ c.pc = "fail" /\ c.ds = loops[l].ds /\ c.list = loops[l].list
    BY DEF IInv, TypeOK, Coroutines, Ops
  <2>2. loops' = [loops EXCEPT ![l] = c]
    BY <1>2 DEF Goes
  <2> HIDE DEF c
  <2> QED BY <1>2, <2>1, <2>2 DEF GivenUp, KeepPage
<1>3. ASSUME Cancelled(l)
      PROVE  GivenUp(l, Idle)
  <2>1. modal \in BOOLEAN /\ loops[l].here \in BOOLEAN
    BY DEF IInv, TypeOK, Coroutines
  <2> QED BY <1>3, <2>1, IdleType DEF Cancelled, Ends, GivenUp
<1> QED BY <1>1, <1>2, <1>3, IdleType DEF GiveUp

\* A refused request changes nothing in the server.
LEMMA RefusedStep ==
    ASSUME IInv, NEW l \in Loops, Refused(l)
    PROVE  IInv'
PROOF
<1>1. PICK c \in Coroutines : GivenUp(l, c)
  BY GiveUpStep DEF Refused
<1>2. UNCHANGED <<row, upload, parts, object, triggers, stray, lost>>
  BY DEF Refused, server
<1> USE DEF GivenUp
<1>3. TypeOK'
  BY <1>1, <1>2, UploadAssumption DEF IInv, TypeOK, Slots
<1>4. KnownInv'
  BY <1>1, <1>2 DEF IInv, TypeOK, KnownInv, ObjectInv, OnceAtMost, AskedByStray, Slots
<1>5. ObjectInv'
  BY <1>1, <1>2 DEF IInv, TypeOK, KnownInv, ObjectInv, OnceAtMost, AskedByStray
<1>6. ListedIsStored'
  BY <1>1, <1>2 DEF IInv, TypeOK, KnownInv, ObjectInv, OnceAtMost, AskedByStray, ListedIsStored, Remembered, Slots
<1> QED BY <1>3, <1>4, <1>5, <1>6 DEF IInv

\* The request of a loop, as the server may still find it.
LEMMA RequestFacts ==
    ASSUME IInv, NEW l \in Loops
    PROVE  /\ Request(l).op = loops[l].pc /\ Request(l).ds = loops[l].ds
           /\ loops[l].pc = "complete" => Request(l).list = loops[l].list
           /\ loops[l].pc = "put" => Request(l).part \in Parts
           /\ loops[l].pc = "initiate" => Request(l).part = 0 /\ Request(l).list = {}
           /\ loops[l].pc = "confirm" => Request(l).part = 0 /\ Request(l).list = {}
PROOF
<1>1. loops[l].pc = "put" => NextPart(loops[l].list) \in Parts
  BY NextPartType DEF IInv, TypeOK, Coroutines, ObjectInv
<1> QED BY <1>1 DEF Request

\* A lost request becomes a stray one.
LEMMA LostStep ==
    ASSUME IInv, NEW l \in Loops, Lost(l)
    PROVE  IInv'
PROOF
<1>1. PICK c \in Coroutines : GivenUp(l, c)
  BY GiveUpStep DEF Lost
<1> DEFINE q == Request(l)
<1>2. /\ q \in Requests /\ q.op = loops[l].pc /\ q.ds = loops[l].ds
      /\ q.op = "complete" => q.list = loops[l].list
      /\ q.op = "put" => q.part \in Parts
  BY RequestType, RequestFacts DEF Lost
<1>3. /\ loops[l].pc \notin {"idle", "url"} /\ lost < MaxLost
      /\ stray' = stray \cup {q} /\ lost' = lost + 1
      /\ UNCHANGED <<row, upload, parts, object, triggers>>
  BY DEF Lost, server
<1>a. lost' \in 0..MaxLost
  BY <1>3, UploadAssumption DEF IInv, TypeOK
<1>b. stray' \subseteq Requests
  BY <1>2, <1>3 DEF IInv, TypeOK
<1> HIDE DEF q
<1> USE DEF GivenUp
<1>4. TypeOK'
  BY <1>1, <1>2, <1>3, <1>a, <1>b, UploadAssumption DEF IInv, TypeOK, Slots
<1>5. KnownInv'
  BY <1>1, <1>2, <1>3, <1>a, <1>b DEF IInv, TypeOK, KnownInv, ObjectInv, OnceAtMost, AskedByStray, Slots
<1>6. ObjectInv'
  BY <1>1, <1>2, <1>3, <1>a, <1>b DEF IInv, TypeOK, KnownInv, ObjectInv, OnceAtMost, AskedByStray
<1>7. ListedIsStored'
  BY <1>1, <1>2, <1>3, <1>a, <1>b DEF IInv, TypeOK, KnownInv, ObjectInv, OnceAtMost, AskedByStray, ListedIsStored, Remembered, Slots
<1> QED BY <1>4, <1>5, <1>6, <1>7 DEF IInv

\* A reload: every loop dies, and its request becomes a stray one.
LEMMA ReloadStep ==
    ASSUME IInv, Reload
    PROVE  IInv'
PROOF
<1> DEFINE active == {k \in Loops : loops[k].pc \notin {"idle", "url"}}
<1>1. /\ \A r \in stray' : r \in stray \/ \E k \in active : r = Request(k)
      /\ lost < MaxLost /\ lost' = lost + 1
      /\ loops' = [k \in Loops |-> Idle]
      /\ pending' = saved /\ page' = TRUE
      /\ modal' \in BOOLEAN /\ (modal' => saved # Nothing)
      /\ UNCHANGED <<row, upload, parts, object, triggers, saved>>
  BY DEF Reload, server
<1>2. \A k \in active :
         /\ Request(k) \in Requests
         /\ Request(k).op = loops[k].pc /\ Request(k).ds = loops[k].ds
         /\ Request(k).op = "complete" => Request(k).list = loops[k].list
         /\ Request(k).op = "put" => Request(k).part \in Parts
  BY RequestType, RequestFacts
<1> USE IdleType
<1>3. TypeOK'
  BY <1>1, <1>2, UploadAssumption DEF IInv, TypeOK, Slots
<1>4. KnownInv'
  BY <1>1, <1>2 DEF IInv, TypeOK, KnownInv, ObjectInv, OnceAtMost, AskedByStray, Slots
<1>5. ObjectInv'
  BY <1>1, <1>2 DEF IInv, TypeOK, KnownInv, ObjectInv, OnceAtMost, AskedByStray
<1>6. ListedIsStored'
  BY <1>1, <1>2 DEF IInv, TypeOK, KnownInv, ObjectInv, OnceAtMost, AskedByStray, ListedIsStored, Remembered, Slots
<1> QED BY <1>3, <1>4, <1>5, <1>6 DEF IInv

-----------------------------------------------------------------------------
(* A request that arrives late: the server changes, the browser does not.  *)

\* A row nobody knows.
LEMMA Late_create ==
    ASSUME IInv, NEW r \in stray, r.op = "create", Handle(r),
           stray' = stray \ {r}, UNCHANGED <<lost, client>>
    PROVE  IInv'
PROOF
<1> DEFINE d == r.ds
<1>1. /\ \E e \in Datasets : row[e] = "none"
      /\ row' = [row EXCEPT ![NewId] = "PENDING"]
      /\ UNCHANGED <<upload, parts, object, triggers>>
  BY DEF Handle, CreateRow
<1>2. UNCHANGED <<lost, saved, pending, modal, page, loops>>
  BY DEF client
<1>3. NewId \in Datasets /\ row[NewId] = "none"
  BY <1>1, NewIdFresh
<1>5. TypeOK'
  BY <1>1, <1>2, <1>3, UploadAssumption DEF IInv, TypeOK, Slots
<1>6. KnownInv'
  BY <1>1, <1>2, <1>3 DEF IInv, TypeOK, KnownInv, ObjectInv, OnceAtMost, AskedByStray, Slots
<1>7. ObjectInv'
  BY <1>1, <1>2, <1>3 DEF IInv, TypeOK, KnownInv, ObjectInv, OnceAtMost, AskedByStray
<1>8. ListedIsStored'
  BY <1>1, <1>2, <1>3 DEF IInv, TypeOK, KnownInv, ObjectInv, OnceAtMost, AskedByStray, ListedIsStored, Remembered, Slots
<1> QED BY <1>5, <1>6, <1>7, <1>8 DEF IInv

\* An upload whose id nobody knows.
LEMMA Late_initiate ==
    ASSUME IInv, NEW r \in stray, r.op = "initiate", Handle(r),
           stray' = stray \ {r}, UNCHANGED <<lost, client>>
    PROVE  IInv'
PROOF
<1> DEFINE d == r.ds
<1>1. /\ row[d] # "none"
      /\ upload' = [upload EXCEPT ![d] = "open"]
      /\ UNCHANGED <<row, parts, object, triggers>>
  BY DEF Handle, InitiateMultipart, HasRow
<1>2. UNCHANGED <<lost, saved, pending, modal, page, loops>>
  BY DEF client
<1>3. d \in Datasets
  BY DEF IInv, KnownInv
<1>5. TypeOK'
  BY <1>1, <1>2, <1>3, UploadAssumption DEF IInv, TypeOK, Slots
<1>6. KnownInv'
  BY <1>1, <1>2, <1>3 DEF IInv, TypeOK, KnownInv, ObjectInv, OnceAtMost, AskedByStray, Slots
<1>7. ObjectInv'
  BY <1>1, <1>2, <1>3 DEF IInv, TypeOK, KnownInv, ObjectInv, OnceAtMost, AskedByStray
<1>8. ListedIsStored'
  BY <1>1, <1>2, <1>3 DEF IInv, TypeOK, KnownInv, ObjectInv, OnceAtMost, AskedByStray, ListedIsStored, Remembered, Slots
<1> QED BY <1>5, <1>6, <1>7, <1>8 DEF IInv

\* A part the loop does not list.
LEMMA Late_put ==
    ASSUME IInv, NEW r \in stray, r.op = "put", Handle(r),
           stray' = stray \ {r}, UNCHANGED <<lost, client>>
    PROVE  IInv'
PROOF
<1> DEFINE d == r.ds
<1>1. /\ upload[d] = "open"
      /\ parts' = [parts EXCEPT ![d] = @ \cup {r.part}]
      /\ UNCHANGED <<row, upload, object, triggers>>
  BY DEF Handle, PutPart
<1>2. UNCHANGED <<lost, saved, pending, modal, page, loops>>
  BY DEF client
<1>3. d \in Datasets /\ r.part \in Parts
  BY DEF IInv, KnownInv, TypeOK, Requests
<1>5. TypeOK'
  BY <1>1, <1>2, <1>3, UploadAssumption DEF IInv, TypeOK, Slots
<1>6. KnownInv'
  BY <1>1, <1>2, <1>3 DEF IInv, TypeOK, KnownInv, ObjectInv, OnceAtMost, AskedByStray, Slots
<1>7. ObjectInv'
  BY <1>1, <1>2, <1>3 DEF IInv, TypeOK, KnownInv, ObjectInv, OnceAtMost, AskedByStray
<1>8. ListedIsStored'
  BY <1>1, <1>2, <1>3 DEF IInv, TypeOK, KnownInv, ObjectInv, OnceAtMost, AskedByStray, ListedIsStored, Remembered, Slots
<1> QED BY <1>5, <1>6, <1>7, <1>8 DEF IInv

\* The object is made; nobody confirms it.
LEMMA Late_complete ==
    ASSUME IInv, NEW r \in stray, r.op = "complete", Handle(r),
           stray' = stray \ {r}, UNCHANGED <<lost, client>>
    PROVE  IInv'
PROOF
<1> DEFINE d == r.ds
<1>1. /\ upload[d] = "open"
      /\ upload' = [upload EXCEPT ![d] = "done"]
      /\ object' = [object EXCEPT ![d] = IF r.list = Parts THEN "whole" ELSE "partial"]
      /\ UNCHANGED <<row, parts, triggers>>
  BY DEF Handle, CompleteMultipart
<1>2. UNCHANGED <<lost, saved, pending, modal, page, loops>>
  BY DEF client
<1>3. d \in Datasets
  BY DEF IInv, KnownInv
<1>4. triggers[d] = 0 /\ r.list = Parts
  BY <1>1, <1>3 DEF IInv, TypeOK, ObjectInv
<1>5. TypeOK'
  BY <1>1, <1>2, <1>3, <1>4, UploadAssumption DEF IInv, TypeOK, Slots
<1>6. KnownInv'
  BY <1>1, <1>2, <1>3, <1>4 DEF IInv, TypeOK, KnownInv, ObjectInv, OnceAtMost, AskedByStray, Slots
<1>7. ObjectInv'
  BY <1>1, <1>2, <1>3, <1>4 DEF IInv, TypeOK, KnownInv, ObjectInv, OnceAtMost, AskedByStray
<1>8. ListedIsStored'
  BY <1>1, <1>2, <1>3, <1>4 DEF IInv, TypeOK, KnownInv, ObjectInv, OnceAtMost, AskedByStray, ListedIsStored, Remembered, Slots
<1> QED BY <1>5, <1>6, <1>7, <1>8 DEF IInv

\* The confirmation arrives after the loop gave up on it.
LEMMA Late_confirm ==
    ASSUME IInv, NEW r \in stray, r.op = "confirm", Handle(r),
           stray' = stray \ {r}, UNCHANGED <<lost, client>>
    PROVE  IInv'
PROOF
<1> DEFINE d == r.ds
<1>1. /\ row[d] # "none"
      /\ row' = [row EXCEPT ![d] = "COMPLETED"]
      /\ triggers' = IF row[d] # "COMPLETED" THEN [triggers EXCEPT ![d] = @ + 1] ELSE triggers
      /\ UNCHANGED <<upload, parts, object>>
  BY DEF Handle, UpdateStatus, HasRow
<1>2. UNCHANGED <<lost, saved, pending, modal, page, loops>>
  BY DEF client
<1>3. d \in Datasets
  BY DEF IInv, KnownInv
<1>5. TypeOK'
  BY <1>1, <1>2, <1>3, UploadAssumption DEF IInv, TypeOK, Slots
<1>6. KnownInv'
  BY <1>1, <1>2, <1>3 DEF IInv, TypeOK, KnownInv, ObjectInv, OnceAtMost, AskedByStray, Slots
<1>7. ObjectInv'
  BY <1>1, <1>2, <1>3 DEF IInv, TypeOK, KnownInv, ObjectInv, OnceAtMost, AskedByStray
<1>8. ListedIsStored'
  BY <1>1, <1>2, <1>3 DEF IInv, TypeOK, KnownInv, ObjectInv, OnceAtMost, AskedByStray, ListedIsStored, Remembered, Slots
<1> QED BY <1>5, <1>6, <1>7, <1>8 DEF IInv

\* The row is UPLOADING, with no loop.
LEMMA Late_resume ==
    ASSUME IInv, NEW r \in stray, r.op = "resume", Handle(r),
           stray' = stray \ {r}, UNCHANGED <<lost, client>>
    PROVE  IInv'
PROOF
<1> DEFINE d == r.ds
<1>1. /\ row' = [row EXCEPT ![d] = "UPLOADING"]
      /\ UNCHANGED <<upload, parts, object, triggers>>
  BY DEF Handle, UpdateStatus
<1>2. UNCHANGED <<lost, saved, pending, modal, page, loops>>
  BY DEF client
<1>3. d \in Datasets
  BY DEF IInv, KnownInv
<1>5. TypeOK'
  BY <1>1, <1>2, <1>3, UploadAssumption DEF IInv, TypeOK, Slots
<1>6. KnownInv'
  BY <1>1, <1>2, <1>3 DEF IInv, TypeOK, KnownInv, ObjectInv, OnceAtMost, AskedByStray, Slots
<1>7. ObjectInv'
  BY <1>1, <1>2, <1>3 DEF IInv, TypeOK, KnownInv, ObjectInv, OnceAtMost, AskedByStray
<1>8. ListedIsStored'
  BY <1>1, <1>2, <1>3 DEF IInv, TypeOK, KnownInv, ObjectInv, OnceAtMost, AskedByStray, ListedIsStored, Remembered, Slots
<1> QED BY <1>5, <1>6, <1>7, <1>8 DEF IInv

\* The row is FAILED, late.
LEMMA Late_fail ==
    ASSUME IInv, NEW r \in stray, r.op \in {"fail", "mark"}, Handle(r),
           stray' = stray \ {r}, UNCHANGED <<lost, client>>
    PROVE  IInv'
PROOF
<1> DEFINE d == r.ds
<1>1. /\ row' = [row EXCEPT ![d] = "FAILED"]
      /\ UNCHANGED <<upload, parts, object, triggers>>
  BY DEF Handle, UpdateStatus
<1>2. UNCHANGED <<lost, saved, pending, modal, page, loops>>
  BY DEF client
<1>3. d \in Datasets
  BY DEF IInv, KnownInv
<1>5. TypeOK'
  BY <1>1, <1>2, <1>3, UploadAssumption DEF IInv, TypeOK, Slots
<1>6. KnownInv'
  BY <1>1, <1>2, <1>3 DEF IInv, TypeOK, KnownInv, ObjectInv, OnceAtMost, AskedByStray, Slots
<1>7. ObjectInv'
  BY <1>1, <1>2, <1>3 DEF IInv, TypeOK, KnownInv, ObjectInv, OnceAtMost, AskedByStray
<1>8. ListedIsStored'
  BY <1>1, <1>2, <1>3 DEF IInv, TypeOK, KnownInv, ObjectInv, OnceAtMost, AskedByStray, ListedIsStored, Remembered, Slots
<1> QED BY <1>5, <1>6, <1>7, <1>8 DEF IInv

\* The upload is dropped, late.
LEMMA Late_abort ==
    ASSUME IInv, NEW r \in stray, r.op = "abort", Handle(r),
           stray' = stray \ {r}, UNCHANGED <<lost, client>>
    PROVE  IInv'
PROOF
<1> DEFINE d == r.ds
<1>1. /\ upload[d] = "open"
      /\ upload' = [upload EXCEPT ![d] = "aborted"]
      /\ parts' = [parts EXCEPT ![d] = {}]
      /\ UNCHANGED <<row, object, triggers>>
  BY DEF Handle, AbortMultipart
<1>2. UNCHANGED <<lost, saved, pending, modal, page, loops>>
  BY DEF client
<1>3. d \in Datasets
  BY DEF IInv, KnownInv
<1>5. TypeOK'
  BY <1>1, <1>2, <1>3, UploadAssumption DEF IInv, TypeOK, Slots
<1>6. KnownInv'
  BY <1>1, <1>2, <1>3 DEF IInv, TypeOK, KnownInv, ObjectInv, OnceAtMost, AskedByStray, Slots
<1>7. ObjectInv'
  BY <1>1, <1>2, <1>3 DEF IInv, TypeOK, KnownInv, ObjectInv, OnceAtMost, AskedByStray
<1>8. ListedIsStored'
  BY <1>1, <1>2, <1>3 DEF IInv, TypeOK, KnownInv, ObjectInv, OnceAtMost, AskedByStray, ListedIsStored, Remembered, Slots
<1> QED BY <1>5, <1>6, <1>7, <1>8 DEF IInv

\* Every late request is one of these.
LEMMA LateStep ==
    ASSUME IInv, Late
    PROVE  IInv'
PROOF
<1>1. PICK r \in stray : Handle(r) /\ stray' = stray \ {r} /\ UNCHANGED <<lost, client>>
  BY DEF Late
<1>2. r.op # "url"
  BY DEF IInv, TypeOK, Requests
<1>3. r.op \in {"create", "initiate", "put", "complete", "confirm", "resume", "fail", "mark", "abort"}
  BY <1>1, <1>2 DEF Handle
<1> QED
  BY <1>1, <1>3, Late_create, Late_initiate, Late_put, Late_complete, Late_confirm, Late_resume,
     Late_fail, Late_abort

-----------------------------------------------------------------------------
(* The user.                                                               *)

\* A deletion takes the row, the object, or both.
LEMMA DeleteStep ==
    ASSUME IInv, NEW d \in Datasets, DeleteDataset(d)
    PROVE  IInv'
PROOF
<1>1. /\ row[d] # "none"
      /\ row' = row \/ row' = [row EXCEPT ![d] = "deleted"]
      /\ object' = object \/ (object[d] # "none" /\ object' = [object EXCEPT ![d] = "removed"])
      /\ UNCHANGED <<upload, parts, triggers, stray, lost, saved, pending, modal, page, loops>>
  BY DEF DeleteDataset, HasRow, client
<1>2. TypeOK'
  BY <1>1, UploadAssumption DEF IInv, TypeOK, Slots
<1>3. KnownInv'
  BY <1>1 DEF IInv, TypeOK, KnownInv, ObjectInv, OnceAtMost, AskedByStray, Slots
<1>4. ObjectInv'
  BY <1>1 DEF IInv, TypeOK, KnownInv, ObjectInv, OnceAtMost, AskedByStray
<1>5. ListedIsStored'
  BY <1>1 DEF IInv, TypeOK, KnownInv, ObjectInv, OnceAtMost, AskedByStray, ListedIsStored, Remembered, Slots
<1> QED BY <1>2, <1>3, <1>4, <1>5 DEF IInv

\* A new coroutine, in a slot that was idle.
LEMMA BeginStep ==
    ASSUME IInv, NEW c \in Coroutines, Begin(c), c.pc \in {"create", "resume", "abort"},
           c.pc = "create" => c.ds = Nothing /\ c.list = {},
           c.pc # "create" => /\ pending # Nothing /\ c.ds = pending.ds
                              /\ c.list = pending.list \/ c.list = {},
           modal' \in BOOLEAN, modal' => modal,
           UNCHANGED <<server, stray, lost, saved, pending, page>>
    PROVE  IInv'
PROOF
<1>1. PICK l \in Loops : loops[l].pc = "idle" /\ loops' = [loops EXCEPT ![l] = c]
  BY DEF Begin
<1>2. UNCHANGED <<row, upload, parts, object, triggers>>
  BY DEF server
<1>3. pending # Nothing => pending \in Slots /\ pending.ds \in Datasets
  BY DEF IInv, TypeOK, KnownInv, Slots
<1>c. modal' => pending # Nothing
  BY DEF IInv, KnownInv
<1>a. c.pc # "create" => c.ds \in Datasets /\ row[c.ds] # "none" /\ upload[c.ds] # "none"
  BY <1>3 DEF IInv, KnownInv
<1>b. c.pc \notin {"idle", "initiate"} /\ pending' = pending
  OBVIOUS
<1>4. TypeOK'
  BY <1>1, <1>2, <1>3, <1>a, <1>b, <1>c, UploadAssumption DEF IInv, TypeOK, Slots
<1>5. KnownInv'
  BY <1>1, <1>2, <1>3, <1>a, <1>b, <1>c DEF IInv, TypeOK, KnownInv, ObjectInv, OnceAtMost, AskedByStray, Slots
<1>6. ObjectInv'
  BY <1>1, <1>2, <1>3, <1>a, <1>b, <1>c DEF IInv, TypeOK, KnownInv, ObjectInv, OnceAtMost, AskedByStray
<1>7. ListedIsStored'
  BY <1>1, <1>2, <1>3, <1>a, <1>b, <1>c DEF IInv, TypeOK, KnownInv, ObjectInv, OnceAtMost, AskedByStray, ListedIsStored, Remembered, Slots
<1> QED BY <1>4, <1>5, <1>6, <1>7 DEF IInv

\* A new upload begins.
LEMMA SubmitStep ==
    ASSUME IInv, SubmitDataset
    PROVE  IInv'
PROOF
<1> DEFINE c == [Idle EXCEPT !.pc = "create", !.by = "submit", !.here = TRUE]
<1>1. c \in Coroutines /\ c.pc = "create" /\ c.ds = Nothing /\ c.list = {}
  BY IdleType DEF Coroutines, Ops
<1>2. Begin(c) /\ modal' = modal /\ modal \in BOOLEAN /\ UNCHANGED <<server, stray, lost, saved, pending, page>>
  BY DEF SubmitDataset, IInv, TypeOK
<1> HIDE DEF c
<1> QED BY <1>1, <1>2, BeginStep

\* A resumed upload begins, with the list of the dialog.
LEMMA ConfirmResumeStep ==
    ASSUME IInv, ConfirmResume
    PROVE  IInv'
PROOF
<1> DEFINE c == [pc |-> "resume", ds |-> pending.ds, list |-> pending.list,
                 by |-> "resume", here |-> TRUE]
<1>1. pending # Nothing /\ pending \in Slots
  BY DEF ConfirmResume, IInv, KnownInv, TypeOK
<1>2. c \in Coroutines /\ c.pc = "resume" /\ c.ds = pending.ds /\ c.list = pending.list
  BY <1>1 DEF Coroutines, Ops, Slots
<1>3. Begin(c) /\ modal' = FALSE /\ UNCHANGED <<server, stray, lost, saved, pending, page>>
  BY DEF ConfirmResume
<1> HIDE DEF c
<1> QED BY <1>1, <1>2, <1>3, BeginStep

\* A cancellation begins.
LEMMA CancelResumeStep ==
    ASSUME IInv, CancelResumeUpload
    PROVE  IInv'
PROOF
<1> DEFINE c == [Idle EXCEPT !.pc = "abort", !.ds = pending.ds, !.by = "cancel", !.here = TRUE]
<1>1. pending # Nothing /\ pending \in Slots
  BY DEF CancelResumeUpload, IInv, KnownInv, TypeOK
<1>2. c \in Coroutines /\ c.pc = "abort" /\ c.ds = pending.ds /\ c.list = {}
  BY <1>1, IdleType DEF Coroutines, Ops, Slots
<1>3. Begin(c) /\ modal' = modal /\ modal \in BOOLEAN /\ UNCHANGED <<server, stray, lost, saved, pending, page>>
  BY DEF CancelResumeUpload, IInv, TypeOK
<1> HIDE DEF c
<1> QED BY <1>1, <1>2, <1>3, BeginStep

\* The loops go on without the page.
LEMMA LeaveStep ==
    ASSUME IInv, Leave
    PROVE  IInv'
PROOF
<1>1. /\ pending' = Nothing /\ modal' = FALSE /\ page' = FALSE
      /\ UNCHANGED <<row, upload, parts, object, triggers, stray, lost, saved>>
  BY DEF Leave, server
<1>2. /\ loops' \in [Loops -> Coroutines]
      /\ \A k \in Loops : /\ loops'[k].pc = loops[k].pc /\ loops'[k].ds = loops[k].ds
                          /\ loops'[k].list = loops[k].list
  BY ZenonT(30) DEF Leave, IInv, TypeOK, Coroutines
<1>3. TypeOK'
  BY <1>1, <1>2, UploadAssumption DEF IInv, TypeOK, Slots
<1>4. KnownInv'
  BY <1>1, <1>2 DEF IInv, TypeOK, KnownInv, ObjectInv, OnceAtMost, AskedByStray, Slots
<1>5. ObjectInv'
  BY <1>1, <1>2 DEF IInv, TypeOK, KnownInv, ObjectInv, OnceAtMost, AskedByStray
<1>6. ListedIsStored'
  BY <1>1, <1>2 DEF IInv, TypeOK, KnownInv, ObjectInv, OnceAtMost, AskedByStray, ListedIsStored, Remembered, Slots
<1> QED BY <1>3, <1>4, <1>5, <1>6 DEF IInv

\* The dialog shows what the slot holds.
LEMMA MountStep ==
    ASSUME IInv, Mount
    PROVE  IInv'
PROOF
<1>1. /\ pending' = saved /\ page' = TRUE
      /\ modal' \in BOOLEAN /\ (modal' => saved # Nothing)
      /\ UNCHANGED <<row, upload, parts, object, triggers, stray, lost, saved, loops>>
  BY DEF Mount, server
<1>2. TypeOK'
  BY <1>1, UploadAssumption DEF IInv, TypeOK, Slots
<1>3. KnownInv'
  BY <1>1 DEF IInv, TypeOK, KnownInv, ObjectInv, OnceAtMost, AskedByStray, Slots
<1>4. ObjectInv'
  BY <1>1 DEF IInv, TypeOK, KnownInv, ObjectInv, OnceAtMost, AskedByStray
<1>5. ListedIsStored'
  BY <1>1 DEF IInv, TypeOK, KnownInv, ObjectInv, OnceAtMost, AskedByStray, ListedIsStored, Remembered, Slots
<1> QED BY <1>2, <1>3, <1>4, <1>5 DEF IInv

-----------------------------------------------------------------------------
\* The initial state satisfies the invariant.
LEMMA InitInv == Init => IInv
PROOF
<1> SUFFICES ASSUME Init PROVE IInv
  OBVIOUS
<1> USE DEF Init
<1>1. TypeOK
  <2>1. loops \in [Loops -> Coroutines]
    BY IdleType
  <2>2. parts \in [Datasets -> SUBSET Parts] /\ triggers \in [Datasets -> Nat]
    OBVIOUS
  <2>3. lost \in 0..MaxLost /\ stray \subseteq Requests
    BY UploadAssumption
  <2> QED BY <2>1, <2>2, <2>3 DEF TypeOK
<1>2. KnownInv /\ ObjectInv
  BY IdleType DEF KnownInv, ObjectInv, OnceAtMost, AskedByStray
<1>3. ListedIsStored
  BY IdleType DEF ListedIsStored, Remembered
<1> QED BY <1>1, <1>2, <1>3 DEF IInv

\* Every answer is one of the ten.
LEMMA AnsweredStep ==
    ASSUME IInv, NEW l \in Loops, Answered(l)
    PROVE  IInv'
PROOF
<1>1. loops[l].pc \in Ops
  BY DEF Answered, IInv, TypeOK, Coroutines
<1> QED
  BY <1>1, Answered_create, Answered_initiate, Answered_url, Answered_put, Answered_complete,
     Answered_confirm, Answered_resume, Answered_fail, Answered_abort, Answered_mark DEF Ops

\* The invariant is inductive: one case for each action.
THEOREM Inductive == Spec => []IInv
PROOF
<1>1. IInv /\ [Next]_vars => IInv'
  <2> SUFFICES ASSUME IInv, [Next]_vars PROVE IInv'
    OBVIOUS
  <2>1. CASE UNCHANGED vars
    BY <2>1 DEF vars, server, client, IInv, TypeOK, KnownInv, ObjectInv, ListedIsStored, Remembered,
       OnceAtMost, AskedByStray
  <2>2. ASSUME NEW l \in Loops, Answered(l) \/ Refused(l) \/ Lost(l) PROVE IInv'
    BY <2>2, AnsweredStep, RefusedStep, LostStep
  <2>3. ASSUME NEW d \in Datasets, DeleteDataset(d) PROVE IInv'
    BY <2>3, DeleteStep
  <2>4. CASE Late
    BY <2>4, LateStep
  <2>5. CASE SubmitDataset \/ ConfirmResume \/ CancelResumeUpload
    BY <2>5, SubmitStep, ConfirmResumeStep, CancelResumeStep
  <2>6. CASE Leave \/ Mount \/ Reload
    BY <2>6, LeaveStep, MountStep, ReloadStep
  <2> QED BY <2>1, <2>2, <2>3, <2>4, <2>5, <2>6 DEF Next
<1> QED BY InitInv, <1>1, PTL DEF Spec

\* Every variable keeps its type; no part beyond the last is put or listed.
THEOREM TypeCorrect == Spec => []TypeOK
BY Inductive, PTL DEF IInv

\* A COMPLETED dataset has its whole object, whatever requests are lost, late or
\* refused, and however many coroutines upload it (processUploadLoop).
THEOREM CompletedIsWholeHolds == Spec => []CompletedIsWhole
PROOF
<1>1. IInv => CompletedIsWhole
  BY DEF IInv, ObjectInv, CompletedIsWhole
<1> QED BY Inductive, <1>1, PTL

\* What is listed, and would be skipped on a resume, is in the bucket
\* (persistUploadState).
THEOREM ListedIsStoredHolds == Spec => []ListedIsStored
BY Inductive, PTL DEF IInv

\* An accepted cancellation is final (cancelResumeUpload).
THEOREM CancelHoldsAlways == Spec => []CancelHolds
PROOF
<1>1. IInv => CancelHolds
  BY DEF IInv, ObjectInv, CancelHolds
<1> QED BY Inductive, <1>1, PTL

\* The confirmation starts one visualization at most (confirm_s3_dataset).
THEOREM VisualizedOnceHolds == Spec => []VisualizedOnce
PROOF
<1>1. IInv => VisualizedOnce
  BY DEF IInv, ObjectInv, VisualizedOnce
<1> QED BY Inductive, <1>1, PTL
=============================================================================
