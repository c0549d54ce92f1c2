------------------------- MODULE AirflowCallsProofs -------------------------
(***************************************************************************)
(* Theorems about AirflowCalls, for any number of coroutines, attempts,    *)
(* tokens, calls and losses of Airflow's secret.                           *)
(***************************************************************************)
EXTENDS AirflowCalls, TLAPS

\* A token that is on its way from Airflow is new: nobody else has it in hand, the
\* cache does not hold it, and nobody got a 401 for it.
MintedInv ==
    \A c \in Callers : pc[c] = "minted" =>
        /\ tok[c] \in 1..minted /\ tok[c] # cached
        /\ \A d \in Callers : tok[c] \notin refused[d] /\ (d # c => tok[d] # tok[c])

\* A token that was refused to c is in the cache only while c is about to discard it.
CacheInv ==
    \A c \in Callers : cached \in refused[c] => pc[c] = "invalidating"

\* Tokens are minted before they are kept, presented or refused.
KnownInv ==
    /\ cached \in 0..minted
    /\ \A c \in Callers :
          /\ tok[c] \in 0..minted /\ refused[c] \subseteq 1..minted
          /\ pc[c] \in {"sending", "replied"} => tok[c] # NoToken

\* From the first attempt on, a call whose DAG run exists and that is still to be sent
\* is at a later attempt; only a later attempt meets a conflict.
AttemptInv ==
    \A c \in Callers :
        /\ pc[c] # "idle" => tries[c] >= 1 /\ result[c] = "none"
        /\ landed[c] /\ pc[c] \notin {"idle", "replied", "invalidating"} => tries[c] > 1
        /\ reply[c] = "conflict" => tries[c] > 1
        /\ reply[c] = "none" <=> pc[c] \notin {"replied", "invalidating"}

IInv ==
    TypeOK /\ MintedInv /\ CacheInv /\ KnownInv /\ NeverTwice /\ AttemptInv /\ ConflictIsOwn

-----------------------------------------------------------------------------
\* Initially IInv holds.
LEMMA InitIInv == Init => IInv
PROOF
<1> SUFFICES ASSUME Init PROVE IInv
  OBVIOUS
<1> USE CallsAssumption DEF Init, NoToken
<1>1. TypeOK
  BY DEF TypeOK
<1>2. MintedInv /\ CacheInv /\ KnownInv /\ NeverTwice
  BY DEF MintedInv, CacheInv, KnownInv, NeverTwice
<1>3. AttemptInv /\ ConflictIsOwn
  BY DEF AttemptInv, ConflictIsOwn
<1> QED BY <1>1, <1>2, <1>3 DEF IInv

\* Who waits for the lock is a coroutine.
LEMMA QueueType ==
    ASSUME TypeOK, NEW c \in Callers
    PROVE  Append(queue, c) \in Seq(Callers) /\ (queue # <<>> => Tail(queue) \in Seq(Callers))
PROOF BY DEF TypeOK

\* Before a call is sent it is at its first attempt or at a later one.
LEMMA CallKeeps ==
    ASSUME IInv, NEW c \in Callers, Call(c)
    PROVE  IInv'
PROOF
<1> USE DEF Call, IInv
<1>1. TypeOK'
  BY CallsAssumption DEF TypeOK, authVars, tokenVars
<1>2. MintedInv' /\ CacheInv' /\ KnownInv' /\ NeverTwice'
  BY DEF MintedInv, CacheInv, KnownInv, NeverTwice, TypeOK, authVars, tokenVars
<1>3. AttemptInv' /\ ConflictIsOwn'
  BY DEF AttemptInv, ConflictIsOwn, TypeOK
<1> QED BY <1>1, <1>2, <1>3

\* A coroutine takes the token of the cache, which it has not seen refused.
LEMMA TakeKeeps ==
    ASSUME IInv, NEW c \in Callers, UseCached(c) \/ Reuse(c)
    PROVE  IInv'
PROOF
<1>1. /\ pc[c] \in {"token", "locking"} /\ cached # NoToken
      /\ tok' = [tok EXCEPT ![c] = cached] /\ pc' = [pc EXCEPT ![c] = "sending"]
      /\ ample' \in {ample, ample \cup {c}} /\ queue' \in {queue, Tail(queue)}
      /\ (queue' = Tail(queue) => queue' = queue \/ queue # <<>>)
      /\ UNCHANGED <<cached, lock, tries, reply, result, calls, tokenVars, landed, refused, lost>>
  BY DEF UseCached, Reuse, Send, Fresh, MyTurn, authVars
<1>2. TypeOK'
  <2>1. queue' \in Seq(Callers)
    BY QueueType DEF UseCached, Reuse, MyTurn, authVars, IInv, TypeOK
  <2> QED BY <1>1, <2>1 DEF IInv, TypeOK, tokenVars
<1>3. cached \notin refused[c]
  BY <1>1 DEF IInv, CacheInv
<1>4. MintedInv' /\ CacheInv' /\ KnownInv'
  BY <1>1 DEF IInv, MintedInv, CacheInv, KnownInv, TypeOK, tokenVars, NoToken
<1>5. NeverTwice'
  BY <1>1, <1>3 DEF IInv, NeverTwice, TypeOK
<1>6. AttemptInv' /\ ConflictIsOwn'
  BY <1>1 DEF IInv, AttemptInv, ConflictIsOwn, TypeOK
<1> QED BY <1>2, <1>4, <1>5, <1>6 DEF IInv

\* To wait for the lock, and to get it, changes nobody's token.
LEMMA LockKeeps ==
    ASSUME IInv, NEW c \in Callers, AwaitLock(c) \/ BeginExchange(c)
    PROVE  IInv'
PROOF
<1>1. /\ pc[c] \in {"token", "locking"}
      /\ \E p \in {"locking", "exchanging"} : pc' = [pc EXCEPT ![c] = p]
      /\ lock' \in {lock, c}
      /\ UNCHANGED <<cached, tok, ample, tries, reply, result, calls, tokenVars, landed,
                     refused, lost>>
  BY DEF AwaitLock, BeginExchange
<1>2. TypeOK'
  <2>1. queue' \in Seq(Callers)
    BY QueueType DEF AwaitLock, BeginExchange, MyTurn, IInv
  <2> QED BY <1>1, <2>1 DEF IInv, TypeOK, tokenVars
<1>3. MintedInv' /\ CacheInv' /\ KnownInv' /\ NeverTwice'
  BY <1>1 DEF IInv, MintedInv, CacheInv, KnownInv, NeverTwice, TypeOK, tokenVars
<1>4. AttemptInv' /\ ConflictIsOwn'
  BY <1>1 DEF IInv, AttemptInv, ConflictIsOwn, TypeOK
<1> QED BY <1>2, <1>3, <1>4 DEF IInv

\* A token is minted once, and kept and presented after that.
LEMMA MintKeeps ==
    ASSUME IInv, NEW c \in Callers, Mint(c)
    PROVE  IInv'
PROOF
<1>1. /\ pc[c] = "exchanging" /\ minted < MaxTokens /\ minted' = minted + 1
      /\ tok' = [tok EXCEPT ![c] = minted + 1]
      /\ pc' = [pc EXCEPT ![c] = "minted"] /\ ample' = ample \cup {c}
      /\ UNCHANGED <<cached, lock, queue, tries, reply, result, calls, aged, dead,
                     revocations, landed, refused, lost>>
  BY DEF Mint, authVars
<1>2. TypeOK'
  BY <1>1, CallsAssumption DEF IInv, TypeOK, Tokens
<1>3. MintedInv'
  BY SMTT(30), <1>1 DEF IInv, MintedInv, KnownInv, TypeOK
<1>4. CacheInv' /\ KnownInv' /\ NeverTwice'
  BY <1>1 DEF IInv, CacheInv, KnownInv, NeverTwice, TypeOK
<1>5. AttemptInv' /\ ConflictIsOwn'
  BY <1>1 DEF IInv, AttemptInv, ConflictIsOwn, TypeOK
<1> QED BY <1>2, <1>3, <1>4, <1>5 DEF IInv

LEMMA StoreKeeps ==
    ASSUME IInv, NEW c \in Callers, Store(c)
    PROVE  IInv'
PROOF
<1>1. /\ pc[c] = "minted" /\ cached' = tok[c] /\ lock' = Nobody
      /\ pc' = [pc EXCEPT ![c] = "sending"]
      /\ UNCHANGED <<queue, tok, ample, tries, reply, result, calls, tokenVars, landed,
                     refused, lost>>
  BY DEF Store
<1>2. TypeOK'
  BY <1>1 DEF IInv, TypeOK, tokenVars
<1>3. tok[c] \in 1..minted /\ tok[c] # NoToken /\ \A d \in Callers : tok[c] \notin refused[d]
  BY <1>1 DEF IInv, MintedInv, NoToken
<1>4. MintedInv'
  BY <1>1 DEF IInv, MintedInv, TypeOK, tokenVars
<1>5. CacheInv' /\ NeverTwice'
  BY <1>1, <1>3 DEF IInv, CacheInv, NeverTwice, TypeOK
<1>6. KnownInv'
  BY <1>1, <1>3 DEF IInv, KnownInv, TypeOK, tokenVars
<1>7. AttemptInv' /\ ConflictIsOwn'
  BY <1>1 DEF IInv, AttemptInv, ConflictIsOwn, TypeOK
<1> QED BY <1>2, <1>4, <1>5, <1>6, <1>7 DEF IInv

\* However an attempt ends, its coroutine holds no token and no answer, and is either
\* at its next attempt or done.
LEMMA EndsKeep ==
    ASSUME IInv, NEW c \in Callers, pc[c] # "idle", TypeOK',
           \/ Retry(c)
           \/ \E how \in {"bad_login", "refused", "ok", "client_error"} : Finish(c, how)
           \/ Finish(c, "conflict") /\ reply[c] = "conflict",
           cached' \in {cached, NoToken},
           \A d \in Callers : cached' \in refused[d] /\ d = c => FALSE,
           UNCHANGED <<calls, tokenVars, landed, refused>>
    PROVE  IInv'
PROOF
<1>1. /\ tok' = [tok EXCEPT ![c] = NoToken] /\ reply' = [reply EXCEPT ![c] = "none"]
      /\ \E p \in {"idle", "token"} : pc' = [pc EXCEPT ![c] = p]
  BY DEF Retry, Finish, Forget
<1>2. MintedInv' /\ CacheInv' /\ KnownInv' /\ NeverTwice'
  <2>1. MintedInv'
    BY <1>1 DEF IInv, MintedInv, KnownInv, TypeOK, tokenVars, NoToken
  <2>2. CacheInv'
    BY SMTT(30), <1>1 DEF IInv, CacheInv, KnownInv, TypeOK, NoToken
  <2>3. KnownInv' /\ NeverTwice'
    BY SMTT(30), <1>1 DEF IInv, KnownInv, NeverTwice, TypeOK, tokenVars, NoToken
  <2> QED BY <2>1, <2>2, <2>3
<1>3. AttemptInv' /\ ConflictIsOwn'
  <2>1. CASE Retry(c) /\ tries[c] < Attempts
    <3>1. /\ tries' = [tries EXCEPT ![c] = tries[c] + 1] /\ result' = result
          /\ pc' = [pc EXCEPT ![c] = "token"]
      BY SMTT(30), <2>1, CallsAssumption DEF Retry, Finish, IInv, TypeOK
    <3>2. tries[c] \in Nat /\ tries[c] >= 1 /\ tries[c] + 1 > 1
      BY DEF IInv, AttemptInv, TypeOK
    <3>3. AttemptInv'
      BY <1>1, <3>1, <3>2 DEF IInv, AttemptInv, TypeOK
    <3>4. ConflictIsOwn'
      BY <3>1, <3>2 DEF IInv, AttemptInv, ConflictIsOwn, TypeOK
    <3> QED BY <3>3, <3>4
  <2>2. CASE ~(Retry(c) /\ tries[c] < Attempts)
    <3>1. \E how \in {"unavailable", "bad_login", "refused", "ok", "client_error", "conflict"} :
             /\ result' = [result EXCEPT ![c] = how]
             /\ how = "conflict" => reply[c] = "conflict"
      BY <2>2 DEF Retry, Finish
    <3>2. tries' = tries /\ pc' = [pc EXCEPT ![c] = "idle"]
      BY <2>2 DEF Retry, Finish
    <3>3. AttemptInv'
      BY <1>1, <3>1, <3>2 DEF IInv, AttemptInv, TypeOK
    <3>4. ConflictIsOwn'
      BY <3>1, <3>2 DEF IInv, AttemptInv, ConflictIsOwn, TypeOK
    <3> QED BY <3>3, <3>4
  <2> QED BY <2>1, <2>2
<1> QED BY <1>2, <1>3 DEF IInv

\* What a failed exchange, a network error, an answer and a discarded token are to the
\* types.
LEMMA EndsType ==
    ASSUME IInv, NEW c \in Callers,
           \/ ExchangeUnavailable(c) \/ ExchangeRejected(c) \/ NetworkError(c)
           \/ Deliver(c) \/ Invalidate(c)
    PROVE  TypeOK'
PROOF
<1>1. /\ tok' = [tok EXCEPT ![c] = NoToken] /\ reply' = [reply EXCEPT ![c] = "none"]
      /\ ample' = ample \ {c}
      /\ \E p \in {"idle", "token"} : pc' = [pc EXCEPT ![c] = p]
      /\ UNCHANGED <<calls, tokenVars, landed, refused>>
  BY DEF ExchangeUnavailable, ExchangeRejected, NetworkError, Deliver, Invalidate, Retry,
         Finish, Forget
<1>2. tries' \in [Callers -> 0..Attempts]
  <2>1. \/ tries' = tries
        \/ tries[c] < Attempts /\ tries' = [tries EXCEPT ![c] = tries[c] + 1]
    BY DEF ExchangeUnavailable, ExchangeRejected, NetworkError, Deliver, Invalidate, Retry,
       Finish
  <2>2. tries[c] < Attempts => tries[c] + 1 \in 0..Attempts
    BY CallsAssumption DEF IInv, TypeOK
  <2> QED BY <2>1, <2>2 DEF IInv, TypeOK
<1>3. result' \in [Callers -> {"none", "ok", "conflict", "unavailable", "client_error",
                               "refused", "bad_login"}]
  <2>1. \/ result' = result
        \/ \E how \in {"unavailable", "bad_login", "refused"} :
              result' = [result EXCEPT ![c] = how]
        \/ Deliver(c) /\ result' = [result EXCEPT ![c] = reply[c]]
    BY DEF ExchangeUnavailable, ExchangeRejected, NetworkError, Deliver, Invalidate, Retry,
       Finish
  <2>2. reply[c] \in {"none", "ok", "conflict", "unavailable", "client_error", "refused"}
    BY DEF IInv, TypeOK
  <2> QED BY <2>1, <2>2 DEF IInv, TypeOK
<1>4. lost' \in SUBSET Tokens
  <2>1. tok[c] \in Tokens \/ pc[c] # "minted"
    BY DEF IInv, MintedInv, TypeOK, NoToken
  <2> QED BY <2>1 DEF ExchangeUnavailable, ExchangeRejected, NetworkError, Deliver,
          Invalidate, IInv, TypeOK
<1>5. queue' \in Seq(Callers) /\ lock' \in Callers \cup {Nobody} /\ cached' \in Tokens \cup {NoToken}
  BY QueueType DEF ExchangeUnavailable, ExchangeRejected, NetworkError, Deliver, Invalidate,
     MyTurn, authVars, IInv, TypeOK
<1> QED BY ZenonT(30), <1>1, <1>2, <1>3, <1>4, <1>5 DEF IInv, TypeOK, tokenVars, NoToken

\* An attempt that ends without Airflow's refusal leaves the cache alone.
LEMMA AttemptKeeps ==
    ASSUME IInv, NEW c \in Callers,
           ExchangeUnavailable(c) \/ ExchangeRejected(c) \/ NetworkError(c) \/ Deliver(c)
    PROVE  IInv'
PROOF
<1>1. TypeOK'
  BY EndsType
<1>2. pc[c] \notin {"idle", "invalidating"} /\ UNCHANGED <<cached, calls, tokenVars, landed, refused>>
  BY DEF ExchangeUnavailable, ExchangeRejected, NetworkError, Deliver, authVars
<1>3. cached \notin refused[c]
  BY <1>2 DEF IInv, CacheInv
<1>4. \/ Retry(c)
      \/ \E how \in {"bad_login", "refused", "ok", "client_error"} : Finish(c, how)
      \/ Finish(c, "conflict") /\ reply[c] = "conflict"
  <2>1. CASE Deliver(c)
    <3>1. reply[c] # "none"
      BY <2>1 DEF Deliver, IInv, AttemptInv
    <3>2. reply[c] \in {"none", "ok", "conflict", "unavailable", "client_error", "refused"}
      BY DEF IInv, TypeOK
    <3> QED BY <2>1, <3>1, <3>2 DEF Deliver
  <2>2. CASE ExchangeUnavailable(c) \/ ExchangeRejected(c) \/ NetworkError(c)
    BY <2>2 DEF ExchangeUnavailable, ExchangeRejected, NetworkError
  <2> QED BY <2>1, <2>2
<1> QED BY <1>1, <1>2, <1>3, <1>4, EndsKeep

\* invalidate empties the cache, whatever it holds by then.
LEMMA InvalidateKeeps ==
    ASSUME IInv, NEW c \in Callers, Invalidate(c)
    PROVE  IInv'
PROOF
<1>1. TypeOK'
  BY EndsType
<1>2. /\ pc[c] = "invalidating" /\ cached' = NoToken /\ Finish(c, "refused")
      /\ UNCHANGED <<calls, tokenVars, landed, refused>>
  BY DEF Invalidate
<1>3. NoToken \notin refused[c]
  BY DEF IInv, TypeOK, Tokens, NoToken
<1> QED BY <1>1, <1>2, <1>3, EndsKeep

\* Airflow answers.
LEMMA AnswerKeeps ==
    ASSUME IInv, NEW c \in Callers, Serve(c) \/ Refuse(c)
    PROVE  IInv'
PROOF
<1>1. PICK a \in {"ok", "conflict", "unavailable", "client_error", "refused"} :
         Answer(c, a) /\ (a = "conflict" => landed[c])
  BY DEF Serve, Refuse
<1>2. /\ UNCHANGED <<authVars, tok, ample, tries, result, calls, tokenVars, refused, lost>>
      /\ landed' \in {landed, [landed EXCEPT ![c] = TRUE]}
  BY DEF Serve, Refuse
<1>3. TypeOK'
  BY <1>1, <1>2 DEF Answer, IInv, TypeOK, authVars, tokenVars
<1>4. MintedInv' /\ CacheInv' /\ KnownInv' /\ NeverTwice'
  BY <1>1, <1>2 DEF Answer, IInv, MintedInv, CacheInv, KnownInv, NeverTwice, TypeOK,
     authVars, tokenVars
<1>5. AttemptInv' /\ ConflictIsOwn'
  BY <1>1, <1>2 DEF Answer, IInv, AttemptInv, ConflictIsOwn, TypeOK
<1> QED BY <1>3, <1>4, <1>5 DEF IInv

\* A 401 is noted: the token is nobody's that has just been minted.
LEMMA RejectedKeeps ==
    ASSUME IInv, NEW c \in Callers, Rejected(c)
    PROVE  IInv'
PROOF
<1>1. /\ pc[c] = "replied" /\ pc' = [pc EXCEPT ![c] = "invalidating"]
      /\ refused' = [refused EXCEPT ![c] = @ \cup {tok[c]}]
      /\ UNCHANGED <<cached, lock, tok, ample, tries, reply, result, calls, tokenVars, landed,
                     lost>>
  BY DEF Rejected
<1>2. TypeOK'
  <2>1. queue' \in Seq(Callers)
    <3>1. queue' = Append(queue, c)
      BY DEF Rejected
    <3> QED BY <3>1, QueueType DEF IInv
  <2>2. tok[c] \in Tokens
    BY <1>1 DEF IInv, KnownInv, TypeOK
  <2>3. refused' \in [Callers -> SUBSET Tokens]
    BY <1>1, <2>2 DEF IInv, TypeOK
  <2> QED BY <1>1, <2>1, <2>3 DEF IInv, TypeOK, tokenVars
<1>3. MintedInv' /\ CacheInv' /\ NeverTwice'
  BY <1>1 DEF IInv, MintedInv, CacheInv, NeverTwice, TypeOK, tokenVars
<1>4. KnownInv'
  <2>1. tok[c] \in 1..minted
    BY <1>1 DEF IInv, KnownInv, TypeOK, NoToken
  <2> QED BY <1>1, <2>1 DEF IInv, KnownInv, TypeOK, tokenVars
<1>5. AttemptInv' /\ ConflictIsOwn'
  BY <1>1 DEF IInv, AttemptInv, ConflictIsOwn, TypeOK
<1> QED BY <1>2, <1>3, <1>4, <1>5 DEF IInv

\* Time and Airflow's secret.
LEMMA TimeKeeps ==
    ASSUME IInv, (\E t \in Tokens : Age(t) \/ Expire(t)) \/ Revoke
    PROVE  IInv'
PROOF
<1>1. UNCHANGED <<authVars, callVars, minted, landed, refused, lost>>
  BY DEF Age, Expire, Revoke
<1>2. TypeOK'
  <2>1. aged' \in SUBSET Tokens /\ dead' \in SUBSET Tokens
    <3>1. 1..minted \subseteq Tokens
      BY CallsAssumption DEF IInv, TypeOK, Tokens
    <3> QED BY <3>1 DEF Age, Expire, Revoke, IInv, TypeOK
  <2>2. revocations' \in 0..MaxRevocations
    BY CallsAssumption DEF Age, Expire, Revoke, IInv, TypeOK
  <2> QED BY <1>1, <2>1, <2>2 DEF IInv, TypeOK, authVars, callVars
<1>3. MintedInv' /\ CacheInv' /\ KnownInv' /\ NeverTwice'
  BY <1>1 DEF IInv, MintedInv, CacheInv, KnownInv, NeverTwice, authVars, callVars
<1>4. AttemptInv' /\ ConflictIsOwn'
  BY <1>1 DEF IInv, AttemptInv, ConflictIsOwn, callVars
<1> QED BY <1>2, <1>3, <1>4 DEF IInv

\* Every step keeps IInv.
LEMMA NextKeeps == IInv /\ [Next]_vars => IInv'
PROOF
<1> SUFFICES ASSUME IInv, [Next]_vars PROVE IInv'
  OBVIOUS
<1>1. ASSUME NEW c \in Callers, GetToken(c) PROVE IInv'
  BY <1>1, TakeKeeps, LockKeeps, MintKeeps, StoreKeeps, AttemptKeeps DEF GetToken
<1>2. ASSUME NEW c \in Callers, Call(c) \/ Request(c) PROVE IInv'
  BY <1>2, CallKeeps, AnswerKeeps, AttemptKeeps, RejectedKeeps, InvalidateKeeps DEF Request
<1>3. ASSUME (\E t \in Tokens : Age(t) \/ Expire(t)) \/ Revoke PROVE IInv'
  BY <1>3, TimeKeeps
<1>4. ASSUME UNCHANGED vars PROVE IInv'
  BY <1>4 DEF IInv, vars, authVars, callVars, tokenVars, TypeOK, MintedInv, CacheInv,
     KnownInv, NeverTwice, AttemptInv, ConflictIsOwn
<1> QED BY <1>1, <1>2, <1>3, <1>4 DEF Next

LEMMA Invariance == Spec => []IInv
PROOF BY InitIInv, NextKeeps, PTL DEF Spec

\* The variables keep their types, for any number of coroutines, tokens and attempts.
THEOREM TypeCorrect == Spec => []TypeOK
PROOF
<1>1. IInv => TypeOK
  BY DEF IInv
<1> QED BY <1>1, Invariance, PTL

\* AirflowAuth: no coroutine presents a token again for which it got a 401, although
\* others fill and empty the cache meanwhile.
THEOREM NoTokenTwice == Spec => []NeverTwice
PROOF
<1>1. IInv => NeverTwice
  BY DEF IInv
<1> QED BY <1>1, Invariance, PTL

\* AirflowClient._request: a call that ends in a conflict is at a later attempt than
\* its first, so that the run it collides with is its own.
THEOREM ConflictsAreOwn == Spec => []ConflictIsOwn
PROOF
<1>1. IInv => ConflictIsOwn
  BY DEF IInv
<1> QED BY <1>1, Invariance, PTL

-----------------------------------------------------------------------------
(* One exchange serves all.                                                *)

\* A token is spent once it is near its end, or was discarded or never arrived.
Spent(t) == t \in aged \cup lost

\* The credentials are exchanged only when no token is left that would do: the coroutines
\* that find none together make one exchange, and those that come later none.
SingleFlight == [][minted' # minted => \A t \in 1..minted : Spent(t)]_vars

\* Whoever exchanges holds the lock, and nothing is kept meanwhile that would do.
LockInv ==
    /\ \A c \in Callers : pc[c] \in {"exchanging", "minted"} <=> lock = c
    /\ lock # Nobody => ~Fresh(cached)

\* No token is forgotten: one that is not spent is in the cache or on its way to it.
KeptInv ==
    \A t \in 1..minted :
        Spent(t) \/ t = cached \/ \E c \in Callers : pc[c] = "minted" /\ tok[c] = t

FlightInv == LockInv /\ KeptInv

\* A step of c that neither begins nor ends an exchange leaves the lock with its holder.
LEMMA FlightStays ==
    ASSUME TypeOK, FlightInv, NEW c \in Callers, pc[c] \notin {"exchanging", "minted"},
           pc'[c] \notin {"exchanging", "minted"},
           \A d \in Callers : d # c => pc'[d] = pc[d] /\ tok'[d] = tok[d],
           UNCHANGED <<cached, lock, minted, aged, lost>>
    PROVE  FlightInv'
PROOF
<1>1. LockInv'
  BY DEF FlightInv, LockInv, Fresh, NoToken
<1>2. KeptInv'
  <2> SUFFICES ASSUME NEW t \in 1..minted
               PROVE  Spent(t) \/ t = cached \/ \E d \in Callers : pc'[d] = "minted" /\ tok'[d] = t
    BY DEF KeptInv, Spent
  <2>1. CASE \E d \in Callers : pc[d] = "minted" /\ tok[d] = t
    <3>1. PICK d \in Callers : pc[d] = "minted" /\ tok[d] = t
      BY <2>1
    <3>2. d # c
      BY <3>1
    <3> QED BY <3>1, <3>2
  <2> QED BY <2>1 DEF FlightInv, KeptInv
<1> QED BY <1>1, <1>2 DEF FlightInv

LEMMA RetryIs ==
    ASSUME TypeOK, NEW c \in Callers, Retry(c)
    PROVE  /\ pc'[c] \in {"token", "idle"}
           /\ \A d \in Callers : d # c => pc'[d] = pc[d] /\ tok'[d] = tok[d]
PROOF BY DEF TypeOK, Retry, Finish, Forget

LEMMA FinishIs ==
    ASSUME TypeOK, NEW c \in Callers, NEW how, Finish(c, how)
    PROVE  /\ pc'[c] = "idle"
           /\ \A d \in Callers : d # c => pc'[d] = pc[d] /\ tok'[d] = tok[d]
PROOF BY DEF TypeOK, Finish, Forget

LEMMA FlightCalls ==
    ASSUME TypeOK, FlightInv, NEW c \in Callers,
           \/ Call(c) \/ UseCached(c) \/ AwaitLock(c) \/ Reuse(c) \/ Serve(c) \/ Refuse(c)
           \/ NetworkError(c) \/ Deliver(c) \/ Rejected(c)
    PROVE  FlightInv'
PROOF
<1>1. CASE Call(c) \/ AwaitLock(c) \/ Serve(c) \/ Refuse(c) \/ Rejected(c)
  <2>1. /\ pc[c] \in {"idle", "token", "sending", "replied"}
        /\ pc'[c] \in {"token", "locking", "replied", "invalidating"}
        /\ \A d \in Callers : d # c => pc'[d] = pc[d] /\ tok'[d] = tok[d]
        /\ UNCHANGED <<cached, lock, minted, aged, lost>>
    BY <1>1 DEF TypeOK, Call, AwaitLock, Serve, Refuse, Answer, Rejected, authVars, tokenVars
  <2> QED BY <2>1, FlightStays
<1>2. CASE UseCached(c) \/ Reuse(c)
  <2>1. /\ pc[c] \in {"token", "locking"} /\ pc'[c] = "sending"
        /\ \A d \in Callers : d # c => pc'[d] = pc[d] /\ tok'[d] = tok[d]
        /\ UNCHANGED <<cached, lock, minted, aged, lost>>
    BY <1>2 DEF TypeOK, UseCached, Reuse, Send, authVars, tokenVars
  <2> QED BY <2>1, FlightStays
<1>3. CASE NetworkError(c) \/ Deliver(c)
  <2>1. /\ pc[c] \in {"sending", "replied"} /\ (Retry(c) \/ Finish(c, reply[c]))
        /\ UNCHANGED <<cached, lock, minted, aged, lost>>
    BY <1>3 DEF NetworkError, Deliver, authVars, tokenVars
  <2>2. /\ pc'[c] \in {"token", "idle"}
        /\ \A d \in Callers : d # c => pc'[d] = pc[d] /\ tok'[d] = tok[d]
    BY <2>1, RetryIs, FinishIs
  <2> QED BY <2>1, <2>2, FlightStays
<1> QED BY <1>1, <1>2, <1>3

LEMMA FlightExchanges ==
    ASSUME IInv, FlightInv, NEW c \in Callers,
           \/ BeginExchange(c) \/ Mint(c) \/ Store(c) \/ ExchangeUnavailable(c)
           \/ ExchangeRejected(c) \/ Invalidate(c)
    PROVE  FlightInv'
PROOF
<1>0. TypeOK /\ LockInv /\ KeptInv /\ c # Nobody
  BY CallsAssumption DEF IInv, FlightInv
<1>1. CASE BeginExchange(c)
  <2>1. /\ lock = Nobody /\ ~Fresh(cached) /\ lock' = c /\ pc[c] = "locking"
        /\ pc'[c] = "exchanging" /\ \A d \in Callers : d # c => pc'[d] = pc[d]
        /\ UNCHANGED <<cached, tok, minted, aged, lost>>
    BY <1>0, <1>1 DEF TypeOK, BeginExchange, MyTurn, tokenVars
  <2>2. LockInv'
    BY <1>0, <2>1, CallsAssumption DEF LockInv, Fresh, NoToken
  <2>3. KeptInv'
    BY <1>0, <2>1 DEF KeptInv, Spent
  <2> QED BY <2>2, <2>3 DEF FlightInv
<1>2. CASE Mint(c)
  <2>1. /\ pc[c] = "exchanging" /\ pc'[c] = "minted" /\ tok'[c] = minted + 1 /\ minted' = minted + 1
        /\ \A d \in Callers : d # c => pc'[d] = pc[d] /\ tok'[d] = tok[d]
        /\ UNCHANGED <<cached, lock, aged, lost>> /\ minted \in Nat
    BY <1>0, <1>2 DEF TypeOK, Mint, authVars
  <2>2. LockInv'
    BY <1>0, <2>1 DEF LockInv, Fresh, NoToken
  <2>3. KeptInv'
    <3> SUFFICES ASSUME NEW t \in 1..(minted + 1)
                 PROVE  Spent(t) \/ t = cached \/ \E d \in Callers : pc'[d] = "minted" /\ tok'[d] = t
      BY <2>1 DEF KeptInv, Spent
    <3>1. CASE t = minted + 1
      BY <2>1, <3>1
    <3>2. CASE t # minted + 1
      <4>1. t \in 1..minted
        BY <2>1, <3>2
      <4> QED BY <1>0, <2>1, <4>1 DEF KeptInv
    <3> QED BY <3>1, <3>2
  <2> QED BY <2>2, <2>3 DEF FlightInv
<1>3. CASE Store(c)
  <2>1. /\ pc[c] = "minted" /\ pc'[c] = "sending" /\ cached' = tok[c] /\ lock' = Nobody
        /\ \A d \in Callers : d # c => pc'[d] = pc[d]
        /\ UNCHANGED <<tok, minted, aged, lost>>
    BY <1>0, <1>3 DEF TypeOK, Store, tokenVars
  <2>2. LockInv'
    BY <1>0, <2>1, CallsAssumption DEF LockInv
  <2>3. ~Fresh(cached)
    BY <1>0, <2>1, CallsAssumption DEF LockInv
  <2>4. KeptInv'
    <3> SUFFICES ASSUME NEW t \in 1..minted
                 PROVE  Spent(t) \/ t = cached' \/ \E d \in Callers : pc'[d] = "minted" /\ tok'[d] = t
      BY <2>1 DEF KeptInv, Spent
    <3>1. t = cached => Spent(t)
      BY <2>3 DEF Fresh, NoToken, Spent
    <3> QED BY <1>0, <2>1, <3>1 DEF KeptInv
  <2> QED BY <2>2, <2>4 DEF FlightInv
<1>4. CASE ExchangeUnavailable(c) \/ ExchangeRejected(c)
  <2>1. /\ pc[c] \in {"exchanging", "minted"} /\ lock' = Nobody /\ UNCHANGED <<cached, minted, aged>>
        /\ lost' = IF pc[c] = "minted" THEN lost \cup {tok[c]} ELSE lost
        /\ Retry(c) \/ Finish(c, "bad_login")
    BY <1>4 DEF ExchangeUnavailable, ExchangeRejected, tokenVars
  <2>2. /\ pc'[c] \in {"token", "idle"}
        /\ \A d \in Callers : d # c => pc'[d] = pc[d] /\ tok'[d] = tok[d]
    BY <1>0, <2>1, RetryIs, FinishIs
  <2>3. LockInv'
    BY <1>0, <2>1, <2>2, CallsAssumption DEF LockInv
  <2>4. KeptInv'
    <3> SUFFICES ASSUME NEW t \in 1..minted
                 PROVE  \/ t \in aged \cup lost' \/ t = cached
                        \/ \E d \in Callers : pc'[d] = "minted" /\ tok'[d] = t
      BY <2>1 DEF KeptInv, Spent
    <3>1. CASE pc[c] = "minted" /\ tok[c] = t
      BY <2>1, <3>1
    <3>2. CASE ~(pc[c] = "minted" /\ tok[c] = t)
      <4>1. \A d \in Callers : pc[d] = "minted" /\ tok[d] = t => pc'[d] = "minted" /\ tok'[d] = t
        BY <2>2, <3>2
      <4> QED BY <1>0, <2>1, <4>1 DEF KeptInv, Spent
    <3> QED BY <3>1, <3>2
  <2> QED BY <2>3, <2>4 DEF FlightInv
<1>5. CASE Invalidate(c)
  <2>1. /\ pc[c] = "invalidating" /\ lock = Nobody /\ UNCHANGED <<lock, minted, aged>>
        /\ cached' = NoToken /\ lost' = lost \cup ({cached} \ {NoToken})
        /\ Finish(c, "refused")
    BY <1>5 DEF Invalidate, MyTurn, tokenVars
  <2>2. pc'[c] = "idle" /\ \A d \in Callers : d # c => pc'[d] = pc[d] /\ tok'[d] = tok[d]
    BY <1>0, <2>1, FinishIs
  <2>3. LockInv'
    BY <1>0, <2>1, <2>2, CallsAssumption DEF LockInv
  <2>4. KeptInv'
    <3> SUFFICES ASSUME NEW t \in 1..minted
                 PROVE  t \in aged \cup lost' \/ \E d \in Callers : pc'[d] = "minted" /\ tok'[d] = t
      BY <2>1 DEF KeptInv, Spent
    <3>1. t = cached => t \in lost'
      BY <2>1 DEF NoToken
    <3>2. \A d \in Callers : pc[d] = "minted" /\ tok[d] = t => pc'[d] = "minted" /\ tok'[d] = t
      BY <2>1, <2>2
    <3> QED BY <1>0, <2>1, <3>1, <3>2 DEF KeptInv, Spent
  <2> QED BY <2>3, <2>4 DEF FlightInv
<1> QED BY <1>1, <1>2, <1>3, <1>4, <1>5

\* AirflowAuth.get_token: the second look under the lock keeps coroutines that waited for
\* it from exchanging the credentials again; so for any number of them, however refusals,
\* expiry and failed exchanges fall.
THEOREM OneExchangeServesAll == Spec => SingleFlight
PROOF
<1>1. Init => FlightInv
  BY CallsAssumption DEF Init, FlightInv, LockInv, KeptInv
<1>2. IInv /\ FlightInv /\ [Next]_vars => FlightInv'
  <2> SUFFICES ASSUME IInv, FlightInv, [Next]_vars PROVE FlightInv'
    OBVIOUS
  <2>1. TypeOK
    BY DEF IInv
  <2>2. ASSUME NEW c \in Callers, Call(c) \/ GetToken(c) \/ Request(c) PROVE FlightInv'
    BY <2>1, <2>2, FlightCalls, FlightExchanges DEF GetToken, Request
  <2>3. ASSUME (\E t \in Tokens : Age(t) \/ Expire(t)) \/ Revoke PROVE FlightInv'
    <3>1. UNCHANGED <<authVars, callVars, minted, lost>> /\ aged \subseteq aged'
      BY <2>3 DEF Age, Expire, Revoke
    <3> QED BY <3>1 DEF FlightInv, LockInv, KeptInv, Fresh, Spent, authVars, callVars
  <2>4. CASE UNCHANGED vars
    BY <2>4 DEF vars, authVars, callVars, tokenVars, FlightInv, LockInv, KeptInv, Fresh, Spent
  <2> QED BY <2>2, <2>3, <2>4 DEF Next
<1>3. FlightInv /\ [Next]_vars => [minted' # minted => \A t \in 1..minted : Spent(t)]_vars
  <2> SUFFICES ASSUME FlightInv, Next, minted' # minted, NEW t \in 1..minted PROVE Spent(t)
    OBVIOUS
  <2>1. PICK c \in Callers : Mint(c)
    BY DEF Next, Call, GetToken, Request, UseCached, AwaitLock, Reuse, BeginExchange, Store,
       ExchangeUnavailable, ExchangeRejected, Serve, Refuse, NetworkError, Deliver, Rejected,
       Invalidate, Age, Expire, Revoke, authVars, callVars, tokenVars
  <2>2. lock = c /\ pc[c] = "exchanging" /\ ~Fresh(cached)
    BY <2>1, CallsAssumption DEF Mint, FlightInv, LockInv
  <2>3. \A d \in Callers : pc[d] # "minted"
    BY <2>2 DEF FlightInv, LockInv
  <2>4. t = cached => Spent(t)
    BY <2>2 DEF Fresh, NoToken, Spent
  <2> QED BY <2>3, <2>4 DEF FlightInv, KeptInv
<1> QED BY <1>1, <1>2, <1>3, Invariance, PTL DEF Spec, SingleFlight
=============================================================================
