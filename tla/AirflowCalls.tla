---------------------------- MODULE AirflowCalls ----------------------------
(***************************************************************************)
(* How the backend's coroutines call Airflow: AirflowClient._request tries *)
(* a call up to three times, each try presents the service account's JWT   *)
(* from AirflowAuth, which keeps one token for all of them and exchanges   *)
(* the credentials for a new one under an asyncio.Lock.                    *)
(*                                                                         *)
(* A call here is the POST that creates a DAG run under a fresh run id, the *)
(* one call whose repetition Airflow can tell.  Airflow itself, the network *)
(* and the passing of time are external.                                   *)
(***************************************************************************)
EXTENDS Naturals, Sequences

CONSTANTS
    Callers,         \* the coroutines that call Airflow
    Nobody,          \* the lock is free
    Attempts,        \* stop_after_attempt
    MaxTokens,       \* bound: tokens Airflow may mint
    MaxRevocations,  \* bound: how often Airflow may forget the tokens it gave
    MaxCalls         \* bound: calls each coroutine may make

ASSUME CallsAssumption ==
    /\ Attempts \in Nat \ {0} /\ MaxTokens \in Nat
    /\ MaxRevocations \in Nat /\ MaxCalls \in Nat
    /\ Nobody \notin Callers

NoToken == 0
Tokens  == 1..MaxTokens

VARIABLES
    cached,       \* AirflowAuth._cached
    lock,         \* who holds AirflowAuth._lock
    queue,        \* who waits for it: an asyncio.Lock is first come, first served
    pc,           \* pc[c]: where c is in its call
    tok,          \* tok[c]: the token c presents
    ample,        \* the callers whose token had its leeway when they took it
    tries,        \* tries[c]: the attempt c is at
    reply,        \* reply[c]: what Airflow sends back
    result,       \* result[c]: how the call ended
    calls,        \* calls[c]: the calls c has made
    landed,       \* landed[c]: Airflow created the DAG run of c's call
    minted,       \* the tokens minted so far are 1..minted
    aged,         \* those within 60 s of their expiry
    dead,         \* those Airflow refuses
    revocations,  \* how often Airflow forgot its tokens
    refused,      \* history: refused[c] are the tokens for which c got a 401
    lost          \* history: tokens that were discarded, or never arrived

authVars  == <<cached, lock, queue>>
callVars  == <<pc, tok, ample, tries, reply, result, calls>>
tokenVars == <<minted, aged, dead, revocations>>
vars == <<authVars, callVars, tokenVars, landed, refused, lost>>

-----------------------------------------------------------------------------
\* _CachedToken.is_fresh.
Fresh(t) == t # NoToken /\ t \notin aged

Init ==
    /\ cached = NoToken /\ lock = Nobody /\ queue = <<>>
    /\ pc = [c \in Callers |-> "idle"]
    /\ tok = [c \in Callers |-> NoToken]
    /\ ample = {}
    /\ tries = [c \in Callers |-> 0]
    /\ reply = [c \in Callers |-> "none"]
    /\ result = [c \in Callers |-> "none"]
    /\ calls = [c \in Callers |-> 0]
    /\ landed = [c \in Callers |-> FALSE]
    /\ minted = 0 /\ aged = {} /\ dead = {} /\ revocations = 0
    /\ refused = [c \in Callers |-> {}]
    /\ lost = {}

\* Mutant of Call: the run id of the previous call is used again.
CallMutant(c) ==
    /\ pc[c] = "idle" /\ calls[c] < MaxCalls
    /\ pc' = [pc EXCEPT ![c] = "token"]
    /\ tries' = [tries EXCEPT ![c] = 1]
    /\ result' = [result EXCEPT ![c] = "none"]
    /\ calls' = [calls EXCEPT ![c] = @ + 1]
    /\ UNCHANGED <<authVars, tok, ample, reply, tokenVars, landed, refused, lost>>

\* A handler calls Airflow, with a run id of its own.
Call(c) ==
    /\ pc[c] = "idle" /\ calls[c] < MaxCalls
    /\ pc' = [pc EXCEPT ![c] = "token"]
    /\ tries' = [tries EXCEPT ![c] = 1]
    /\ result' = [result EXCEPT ![c] = "none"]
    /\ calls' = [calls EXCEPT ![c] = @ + 1]
    /\ landed' = [landed EXCEPT ![c] = FALSE]
    /\ UNCHANGED <<authVars, tok, ample, reply, tokenVars, refused, lost>>

Forget(c) ==
    /\ tok' = [tok EXCEPT ![c] = NoToken]
    /\ ample' = ample \ {c}
    /\ reply' = [reply EXCEPT ![c] = "none"]

Finish(c, how) ==
    /\ Forget(c)
    /\ pc' = [pc EXCEPT ![c] = "idle"]
    /\ result' = [result EXCEPT ![c] = how]
    /\ UNCHANGED tries

\* AirflowUnavailable: tenacity waits and tries again, or re-raises.
Retry(c) ==
    \/ /\ tries[c] < Attempts
       /\ tries' = [tries EXCEPT ![c] = @ + 1]
       /\ pc' = [pc EXCEPT ![c] = "token"]
       /\ Forget(c)
       /\ UNCHANGED result
    \/ /\ tries[c] = Attempts
       /\ Finish(c, "unavailable")

-----------------------------------------------------------------------------
(* AirflowAuth.get_token.                                                  *)

Send(c, t) ==
    /\ tok' = [tok EXCEPT ![c] = t]
    /\ ample' = IF t \in aged THEN ample ELSE ample \cup {c}
    /\ pc' = [pc EXCEPT ![c] = "sending"]

\* The token in memory will do: no lock is taken.
UseCached(c) ==
    /\ pc[c] = "token" /\ Fresh(cached)
    /\ Send(c, cached)
    /\ UNCHANGED <<authVars, tries, reply, result, calls, tokenVars, landed, refused, lost>>

AwaitLock(c) ==
    /\ pc[c] = "token" /\ ~Fresh(cached)
    /\ pc' = [pc EXCEPT ![c] = "locking"]
    /\ queue' = Append(queue, c)
    /\ UNCHANGED <<cached, lock, tok, ample, tries, reply, result, calls, tokenVars, landed, refused, lost>>

MyTurn(c) == lock = Nobody /\ queue # <<>> /\ Head(queue) = c

\* Somebody else has exchanged the credentials in the meantime.
Reuse(c) ==
    /\ pc[c] = "locking" /\ MyTurn(c) /\ Fresh(cached)
    /\ queue' = Tail(queue)
    /\ Send(c, cached)
    /\ UNCHANGED <<cached, lock, tries, reply, result, calls, tokenVars, landed, refused, lost>>

\* _exchange_credentials is awaited with the lock held.
BeginExchange(c) ==
    /\ pc[c] = "locking" /\ MyTurn(c) /\ ~Fresh(cached)
    /\ queue' = Tail(queue)
    /\ lock' = c
    /\ pc' = [pc EXCEPT ![c] = "exchanging"]
    /\ UNCHANGED <<cached, tok, ample, tries, reply, result, calls, tokenVars, landed, refused, lost>>

\* Airflow mints a token.
Mint(c) ==
    /\ pc[c] = "exchanging" /\ minted < MaxTokens
    /\ minted' = minted + 1
    /\ tok' = [tok EXCEPT ![c] = minted + 1]
    /\ ample' = ample \cup {c}
    /\ pc' = [pc EXCEPT ![c] = "minted"]
    /\ UNCHANGED <<authVars, tries, reply, result, calls, aged, dead, revocations, landed, refused, lost>>

\* The token arrives: it is kept for everybody, and used.
Store(c) ==
    /\ pc[c] = "minted"
    /\ cached' = tok[c]
    /\ lock' = Nobody
    /\ pc' = [pc EXCEPT ![c] = "sending"]
    /\ UNCHANGED <<queue, tok, ample, tries, reply, result, calls, tokenVars, landed, refused, lost>>

\* Mutant of ExchangeUnavailable: the lock is not released on an exception.
ExchangeUnavailableMutant(c) ==
    /\ pc[c] \in {"exchanging", "minted"}
    /\ lost' = IF pc[c] = "minted" THEN lost \cup {tok[c]} ELSE lost
    /\ Retry(c)
    /\ UNCHANGED <<authVars, calls, tokenVars, landed, refused>>

\* The auth endpoint cannot be reached, answers 5xx, or its answer is lost.
ExchangeUnavailable(c) ==
    /\ pc[c] \in {"exchanging", "minted"}
    /\ lock' = Nobody
    /\ lost' = IF pc[c] = "minted" THEN lost \cup {tok[c]} ELSE lost
    /\ Retry(c)
    /\ UNCHANGED <<cached, queue, calls, tokenVars, landed, refused>>

\* The auth endpoint rejects the credentials, or its answer makes no sense:
\* AirflowAuthFailed, which is not retried.
ExchangeRejected(c) ==
    /\ pc[c] = "exchanging"
    /\ lock' = Nobody
    /\ Finish(c, "bad_login")
    /\ UNCHANGED <<cached, queue, calls, tokenVars, landed, refused, lost>>

-----------------------------------------------------------------------------
(* The request itself.                                                     *)

Answer(c, a) ==
    /\ pc[c] = "sending"
    /\ pc' = [pc EXCEPT ![c] = "replied"]
    /\ reply' = [reply EXCEPT ![c] = a]

\* Airflow accepts the token and creates the run, or finds that it has it; an
\* error of its own may come before or after that.
Serve(c) ==
    /\ tok[c] \notin dead
    /\ \/ Answer(c, IF landed[c] THEN "conflict" ELSE "ok") /\ landed' = [landed EXCEPT ![c] = TRUE]
       \/ Answer(c, "unavailable") /\ landed' \in {landed, [landed EXCEPT ![c] = TRUE]}
       \/ Answer(c, "client_error") /\ UNCHANGED landed
    /\ UNCHANGED <<authVars, tok, ample, tries, result, calls, tokenVars, refused, lost>>

\* 401.
Refuse(c) ==
    /\ tok[c] \in dead
    /\ Answer(c, "refused")
    /\ UNCHANGED <<authVars, tok, ample, tries, result, calls, tokenVars, landed, refused, lost>>

\* httpx raises: the request or its answer is lost, or takes too long.
NetworkError(c) ==
    /\ pc[c] \in {"sending", "replied"}
    /\ Retry(c)
    /\ UNCHANGED <<authVars, calls, tokenVars, landed, refused, lost>>

\* _handle_response: 2xx, 404, 409 and the like end the call, 5xx is retried.
Deliver(c) ==
    /\ pc[c] = "replied" /\ reply[c] # "refused"
    /\ IF reply[c] = "unavailable" THEN Retry(c) ELSE Finish(c, reply[c])
    /\ UNCHANGED <<authVars, calls, tokenVars, landed, refused, lost>>

\* A 401 invalidates the token first, which takes the lock.
Rejected(c) ==
    /\ pc[c] = "replied" /\ reply[c] = "refused"
    /\ pc' = [pc EXCEPT ![c] = "invalidating"]
    /\ queue' = Append(queue, c)
    /\ refused' = [refused EXCEPT ![c] = @ \cup {tok[c]}]
    /\ UNCHANGED <<cached, lock, tok, ample, tries, reply, result, calls, tokenVars, landed, lost>>

\* Mutant of Invalidate: the cache keeps the token.
InvalidateMutant(c) ==
    /\ pc[c] = "invalidating" /\ MyTurn(c)
    /\ queue' = Tail(queue)
    /\ Finish(c, "refused")
    /\ UNCHANGED <<cached, lock, calls, tokenVars, landed, refused, lost>>

\* AirflowAuth.invalidate, whatever token is cached by now; then
\* AirflowAuthFailed, which is not retried.
Invalidate(c) ==
    /\ pc[c] = "invalidating" /\ MyTurn(c)
    /\ queue' = Tail(queue)
    /\ cached' = NoToken
    /\ lost' = lost \cup ({cached} \ {NoToken})
    /\ Finish(c, "refused")
    /\ UNCHANGED <<lock, calls, tokenVars, landed, refused>>

-----------------------------------------------------------------------------
(* Time, and Airflow.                                                      *)

\* A token comes within 60 s of its expiry.
Age(t) ==
    /\ t <= minted
    /\ aged' = aged \cup {t}
    /\ UNCHANGED <<authVars, callVars, minted, dead, revocations, landed, refused, lost>>

\* It expires.  A request that was sent with it while it was fresh, or with a
\* token just minted, has reached Airflow by then: 60 s are more than the
\* timeout of 15 s.
Expire(t) ==
    /\ t \in aged
    /\ \A c \in ample : pc[c] \in {"minted", "sending"} => tok[c] # t
    /\ dead' = dead \cup {t}
    /\ UNCHANGED <<authVars, callVars, minted, aged, revocations, landed, refused, lost>>

\* Airflow restarts with another secret: every token it gave is void.
Revoke ==
    /\ revocations < MaxRevocations
    /\ revocations' = revocations + 1
    /\ dead' = dead \cup 1..minted
    /\ UNCHANGED <<authVars, callVars, minted, aged, landed, refused, lost>>

-----------------------------------------------------------------------------
GetToken(c) ==
    \/ UseCached(c) \/ AwaitLock(c) \/ Reuse(c) \/ BeginExchange(c)
    \/ Mint(c) \/ Store(c) \/ ExchangeUnavailable(c) \/ ExchangeRejected(c)

Request(c) ==
    Serve(c) \/ Refuse(c) \/ NetworkError(c) \/ Deliver(c) \/ Rejected(c) \/ Invalidate(c)

Next ==
    \/ \E c \in Callers : Call(c) \/ GetToken(c) \/ Request(c)
    \/ \E t \in Tokens : Age(t) \/ Expire(t)
    \/ Revoke

Spec == Init /\ [][Next]_vars

\* Every await ends: with an answer, or with httpx's timeout.
Fairness == \A c \in Callers : WF_vars(GetToken(c) \/ Request(c))

FairSpec == Spec /\ Fairness

-----------------------------------------------------------------------------
(* Properties.                                                             *)

\* The values the variables take.
TypeOK ==
    /\ cached \in Tokens \cup {NoToken}
    /\ lock \in Callers \cup {Nobody}
    /\ queue \in Seq(Callers)
    /\ pc \in [Callers -> {"idle", "token", "locking", "exchanging", "minted",
                           "sending", "replied", "invalidating"}]
    /\ tok \in [Callers -> Tokens \cup {NoToken}]
    /\ ample \in SUBSET Callers
    /\ tries \in [Callers -> 0..Attempts]
    /\ reply \in [Callers -> {"none", "ok", "conflict", "unavailable", "client_error", "refused"}]
    /\ result \in [Callers -> {"none", "ok", "conflict", "unavailable", "client_error",
                               "refused", "bad_login"}]
    /\ calls \in [Callers -> 0..MaxCalls]
    /\ landed \in [Callers -> BOOLEAN]
    /\ minted \in 0..MaxTokens
    /\ aged \in SUBSET Tokens /\ dead \in SUBSET Tokens /\ lost \in SUBSET Tokens
    /\ revocations \in 0..MaxRevocations
    /\ refused \in [Callers -> SUBSET Tokens]

\* A coroutine that got a 401 never presents that token again, whatever
\* the others put into the cache meanwhile.
NeverTwice ==
    \A c \in Callers : pc[c] = "sending" => tok[c] \notin refused[c]

\* A 409 means that an earlier attempt of the same call created the run.
ConflictIsOwn ==
    \A c \in Callers : result[c] = "conflict" => tries[c] > 1

\* Every call comes to an end: no coroutine waits for the token's lock for ever.
CallsEnd ==
    \A c \in Callers : pc[c] # "idle" ~> pc[c] = "idle"
=============================================================================
