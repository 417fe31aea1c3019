----------------------------- MODULE RestRetry -----------------------------
(***************************************************************************)
(* One mutating REST call of AlorClient (clients/alor/AlorClient.py) from  *)
(* the order method to the last retry: X-REQID is drawn once, every        *)
(* attempt is signed and sent, and the retry wrapper around _create_rest_  *)
(* call sorts the outcome of each attempt.  The network loses and delays   *)
(* requests and answers; the broker executes each X-REQID once and answers *)
(* a repeated one with a copy of its first answer.                         *)
(*                                                                         *)
(* The shared REST session and the JWT are modules of their own.           *)
(***************************************************************************)
EXTENDS Integers

CONSTANTS
    MaxRetries,         \* MAX_RETRIES
    AuthRetryLimit      \* AUTH_RETRY_LIMIT

ASSUME RetriesAssumption ==
    /\ MaxRetries \in Nat
    /\ AuthRetryLimit \in Nat
    /\ AuthRetryLimit < MaxRetries

Attempts == 0..(MaxRetries - 1)

VARIABLES
    pc,             \* where the call is suspended
    attempt,        \* the loop variable of the retry wrapper
    lastExc,        \* last_exc
    result,         \* "pending", "ok" or the class of exception raised
    refreshed,      \* a 401 was answered by _refresh_jwt in this call
    inTransit,      \* attempts whose request the broker has not seen yet
    reply,          \* the answer on its way back to each attempt
    decided,        \* broker: the first answer it gave to each X-REQID
    executions      \* broker: how often it executed the order

client == <<pc, attempt, lastExc, result, refreshed>>
broker == <<decided, executions>>
vars == <<client, inTransit, reply, broker>>

Decision == {"ok", "rejected"}
\* Statuses that say nothing about the order: 401, 429, 5xx and any unknown.
Ambiguous == {"auth", "rate", "server", "other"}

TypeOK ==
    /\ pc \in {"ready", "signing", "awaiting", "refreshing", "backoff", "done"}
    /\ attempt \in Attempts
    /\ lastExc \in {"none", "rate", "server", "timeout"}
    /\ result \in {"pending", "none", "token", "timeout", "escaped", "cancelled"}
                    \cup Decision \cup Ambiguous
    /\ refreshed \in BOOLEAN
    /\ inTransit \subseteq Attempts
    /\ reply \in [Attempts -> Decision \cup Ambiguous \cup {"none"}]
    /\ decided \in [Attempts -> Decision \cup {"none"}]
    /\ executions \in Nat

Init ==
    /\ pc = "ready"
    /\ attempt = 0
    /\ lastExc = "none"
    /\ result = "pending"
    /\ refreshed = FALSE
    /\ inTransit = {}
    /\ reply = [a \in Attempts |-> "none"]
    /\ decided = [a \in Attempts |-> "none"]
    /\ executions = 0

\* Mutation: every attempt draws its own X-REQID.
FreshReqId(a) == a

\* The X-REQID header of an attempt: the order method draws it once, before
\* the retry loop, and every attempt sends the same headers.
ReqId(a) == 0

----------------------------------------------------------------------------
(* The retry wrapper                                                       *)

Raise(exception) ==
    /\ pc' = "done"
    /\ result' = exception
    /\ UNCHANGED <<attempt, lastExc, refreshed>>

\* `continue`: the next attempt, or `raise last_exc` after the loop.
Continue ==
    IF attempt + 1 < MaxRetries
    THEN pc' = "ready" /\ attempt' = attempt + 1 /\ UNCHANGED <<lastExc, result>>
    ELSE pc' = "done" /\ result' = lastExc /\ UNCHANGED <<attempt, lastExc>>

\* A retryable failure: remembered, then `await asyncio.sleep(wait)`, also
\* after the last attempt.
BackOff(exception) ==
    /\ pc' = "backoff"
    /\ lastExc' = exception
    /\ UNCHANGED <<attempt, result, refreshed>>

BeginAttempt ==
    /\ pc = "ready"
    /\ pc' = "signing"
    /\ UNCHANGED <<attempt, lastExc, result, refreshed, inTransit, reply, broker>>

\* _sign_payload has a token: the request leaves.
Send ==
    /\ pc = "signing"
    /\ pc' = "awaiting"
    /\ inTransit' = inTransit \cup {attempt}
    /\ UNCHANGED <<attempt, lastExc, result, refreshed, reply, broker>>

\* The token refresh inside _sign_payload fails: AlorGetTokenException and
\* errors in the token's data have no except clause; time-out, connection and
\* other client errors are retried.
SignFails ==
    /\ pc = "signing"
    /\ Raise("token") \/ Raise("escaped") \/ BackOff("timeout")
    /\ UNCHANGED <<inTransit, reply, broker>>

\* Mutation: one refresh too many.
HandleAuthOneMore ==
    IF attempt <= AuthRetryLimit
    THEN pc' = "refreshing" /\ UNCHANGED <<attempt, lastExc, result, refreshed>>
    ELSE Raise("auth")

\* 401: refreshed and retried, but only on the first attempts.
HandleAuth ==
    IF attempt < AuthRetryLimit
    THEN pc' = "refreshing" /\ UNCHANGED <<attempt, lastExc, result, refreshed>>
    ELSE Raise("auth")

\* Mutation: a 5xx is taken for a rejection.
HandleServerFinal(answer) ==
    \/ answer \in Decision /\ Raise(answer)
    \/ answer = "server" /\ Raise("rejected")
    \/ answer = "other" /\ Raise("other")
    \/ answer = "auth" /\ HandleAuth
    \/ answer = "rate" /\ BackOff(answer)

\* The status of the answer, sorted by _preprocess_rest_response and by the
\* except clauses.  A Retry-After that is not a number ends a 429 in a
\* ValueError that no clause catches.
Handle(answer) ==
    \/ answer \in Decision /\ Raise(answer)
    \/ answer = "other" /\ Raise("other")
    \/ answer = "auth" /\ HandleAuth
    \/ answer \in {"rate", "server"} /\ BackOff(answer)
    \/ answer = "rate" /\ Raise("escaped")

Answered ==
    /\ pc = "awaiting"
    /\ Handle(reply[attempt])
    /\ UNCHANGED <<inTransit, reply, broker>>

\* asyncio.timeout, a dead connection or a broken payload: the request may or
\* may not have reached the broker, and may still do so.  A text that cannot be
\* decoded raises what no clause catches.
RequestFails ==
    /\ pc = "awaiting"
    /\ BackOff("timeout") \/ Raise("escaped")
    /\ UNCHANGED <<inTransit, reply, broker>>

\* _refresh_jwt after a 401; what it raises leaves the wrapper.
Refreshed ==
    /\ pc = "refreshing"
    /\ refreshed' = TRUE
    /\ Continue
    /\ UNCHANGED <<inTransit, reply, broker>>

RefreshFails ==
    /\ pc = "refreshing"
    /\ Raise("token") \/ Raise("escaped")
    /\ UNCHANGED <<inTransit, reply, broker>>

BackoffOver ==
    /\ pc = "backoff"
    /\ Continue
    /\ UNCHANGED <<refreshed, inTransit, reply, broker>>

\* The user cancels the task that makes the call.
Cancel ==
    /\ pc # "done"
    /\ Raise("cancelled")
    /\ UNCHANGED <<inTransit, reply, broker>>

----------------------------------------------------------------------------
(* Network and broker                                                      *)

\* The request is lost.
Lose(a) ==
    /\ a \in inTransit
    /\ inTransit' = inTransit \ {a}
    /\ UNCHANGED <<client, reply, broker>>

\* The request is turned away before the order is looked at.
Refuse(a) ==
    /\ a \in inTransit
    /\ inTransit' = inTransit \ {a}
    /\ \E answer \in Ambiguous : reply' = [reply EXCEPT ![a] = answer]
    /\ UNCHANGED <<client, broker>>

\* The order is processed: executed or rejected when its X-REQID is new.  The
\* answer may be lost, or replaced by a 5xx of a proxy.
Process(a) ==
    /\ a \in inTransit
    /\ inTransit' = inTransit \ {a}
    /\ \E d \in Decision :
          /\ decided[ReqId(a)] \in {"none", d}
          /\ decided' = [decided EXCEPT ![ReqId(a)] = d]
          /\ executions' = IF d = "ok" /\ decided[ReqId(a)] = "none"
                           THEN executions + 1 ELSE executions
          /\ \E answer \in {d, "server", "none"} : reply' = [reply EXCEPT ![a] = answer]
    /\ UNCHANGED client

ClientStep ==
    \/ BeginAttempt \/ Send \/ SignFails \/ Answered \/ RequestFails
    \/ Refreshed \/ RefreshFails \/ BackoffOver

BrokerStep == \E a \in Attempts : Lose(a) \/ Refuse(a) \/ Process(a)

Next == ClientStep \/ Cancel \/ BrokerStep

\* Every await of the wrapper ends: asyncio.timeout bounds an attempt, aiohttp
\* bounds the refresh, sleeps are finite.
Spec == Init /\ [][Next]_vars /\ WF_vars(ClientStep)

----------------------------------------------------------------------------
(* Properties                                                              *)

\* However many attempts reach the broker, in whatever order and however
\* late, the order is executed at most once: all carry one X-REQID.
AtMostOnce == executions <= 1

\* A call that reports 400, 403 or 404 is never executed, neither by an
\* earlier attempt whose answer was lost nor by one that arrives later.
RejectedNeverExecutes == result = "rejected" => executions = 0

\* The wrapper never leaves the loop with last_exc unset (`raise None`).
RaisesAnException == result # "none"

\* A retryable error reaches the user only after the last attempt.
GivesUpOnlyExhausted ==
    result \in {"rate", "server", "timeout"} => attempt = MaxRetries - 1

\* Documented in exceptions.py and in the README: a 401 is retried once after
\* a refresh.  A 401 that follows another failed attempt is not.
AuthErrorMeansRefreshed == result = "auth" => refreshed

\* The parts of the inductive invariant.
OneId == \A i \in Attempts \ {0} : decided[i] = "none"

ExecutionsDecided == executions = IF decided[0] = "ok" THEN 1 ELSE 0

RepliesDecided ==
    \A a \in Attempts : reply[a] \in Decision => decided[0] = reply[a]

ResultDecided == result \in Decision => decided[0] = result

\* Only refreshes leave last_exc unset, and they are bounded.
LastExcKept ==
    /\ result # "none"
    /\ pc = "refreshing" => attempt < AuthRetryLimit
    /\ pc = "backoff" => lastExc # "none"
    /\ pc # "done" /\ lastExc = "none" => attempt <= AuthRetryLimit
    /\ result = "pending" <=> pc # "done"

IInv ==
    /\ TypeOK
    /\ OneId
    /\ ExecutionsDecided
    /\ RepliesDecided
    /\ ResultDecided
    /\ LastExcKept

\* Refinement: what the call tells its user.
UserResult ==
    IF result \in Decision \cup {"pending"} THEN result ELSE "unknown"

Call == INSTANCE OrderCall WITH result <- UserResult
OrderCallSpec == Call!Spec
============================================================================
