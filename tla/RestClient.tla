----------------------------- MODULE RestClient -----------------------------
(***************************************************************************)
(* Concurrent REST calls of one AlorClient and its close(): RestSession    *)
(* and JwtToken composed by the retry wrapper (AlorClient._create_rest_    *)
(* call) around MBClient._create_rest_call.  A step is one of the token,   *)
(* of the session, or of both when no await lies between them.             *)
(*                                                                         *)
(* The broker revokes, at some moment, all the tokens it has issued, and   *)
(* may then answer 401 to a request signed with one of them.               *)
(***************************************************************************)
EXTENDS Integers, Sequences, SequencesExt, FiniteSets

CONSTANTS
    Callers,            \* tasks that make one call each
    Closers,            \* tasks that leave `async with` or call close()
    RestSessions,       \* identities of the REST sessions
    JwtSessions,        \* identities of the sessions of the refreshes
    NoSession,          \* Python's None
    TTL,                \* jwt_token_ttl
    MaxRetries,         \* MAX_RETRIES
    AuthRetryLimit      \* AUTH_RETRY_LIMIT

ASSUME ProcsAssumption == Callers \cap Closers = {}
ASSUME NoSessionAssumption == NoSession \notin RestSessions \cup JwtSessions
ASSUME TTLAssumption == TTL \in Nat \ {0}
ASSUME RetriesAssumption ==
    /\ MaxRetries \in Nat
    /\ AuthRetryLimit \in Nat
    /\ AuthRetryLimit < MaxRetries

VARIABLES
    restSession, open, slock, spc, target,                      \* RestSession
    token, age, unlocked, jlock, jpc, jwtSession, jopen, using, \* JwtToken
    phase,      \* where each task is in its call, or in close()
    attempt,    \* the loop variable of the retry wrapper
    cause,      \* the exception the clean-up of the session is to re-raise
    revoked,    \* broker: the tokens issued so far are revoked
    cached,     \* when self.jwt_token was issued: "before" or "after" that
    signed,     \* the same for the token a request under way is signed with
    early,      \* a refresh under way was begun before that
    renewed,    \* history: the call has taken the branch that refreshes after a 401
    overtaken,  \* history: an older token was stored over a newer one
    quiet       \* history: no call was under way when this close() began

sessionVars == <<restSession, open, slock, spc, target>>
tokenVars == <<token, age, unlocked, jlock, jpc, jwtSession, jopen, using>>
callVars == <<phase, attempt, cause>>
issueVars == <<cached, early, overtaken>>
vars == <<sessionVars, tokenVars, callVars, revoked, issueVars, signed, renewed, quiet>>

Session == INSTANCE RestSession
    WITH Sessions <- RestSessions, lockQueue <- slock, pc <- spc
Jwt == INSTANCE JwtToken
    WITH Sessions <- JwtSessions, lockQueue <- jlock, pc <- jpc, open <- jopen

Procs == Callers \cup Closers

TypeOK ==
    /\ phase \in [Procs -> {"ready", "signing", "sent", "cleanup", "refreshing", "backoff",
                            "done", "denied", "idle", "rest", "jwt", "closed", "failed"}]
    /\ \A k \in Closers : phase[k] \in {"idle", "rest", "jwt", "closed", "failed"}
    /\ attempt \in [Callers -> 0..(MaxRetries - 1)]
    /\ cause \in [Callers -> {"none", "broken", "timeout", "cancelled"}]
    /\ revoked \in BOOLEAN
    /\ cached \in {"before", "after"}
    /\ early \in [Callers -> BOOLEAN]
    /\ signed \in [Callers -> {"no", "before", "after"}]
    /\ renewed \in [Callers -> BOOLEAN]
    /\ overtaken \in BOOLEAN
    /\ quiet \in [Closers -> BOOLEAN]

Init ==
    /\ Session!Init
    /\ Jwt!Init
    /\ phase = [p \in Procs |-> IF p \in Callers THEN "ready" ELSE "idle"]
    /\ attempt = [p \in Callers |-> 0]
    /\ cause = [p \in Callers |-> "none"]
    /\ revoked = FALSE
    /\ cached = "before"
    /\ early = [p \in Callers |-> FALSE]
    /\ signed = [p \in Callers |-> "no"]
    /\ renewed = [p \in Callers |-> FALSE]
    /\ overtaken = FALSE
    /\ quiet = [k \in Closers |-> FALSE]

----------------------------------------------------------------------------
(* The retry wrapper                                                       *)

GoTo(p, where) == phase' = [phase EXCEPT ![p] = where] /\ UNCHANGED attempt

\* The call returns or raises, a 401 ("denied") or anything else ("done"); its
\* loop variable is gone.
End(p, how) ==
    /\ phase' = [phase EXCEPT ![p] = how]
    /\ attempt' = [attempt EXCEPT ![p] = 0]

Over(p) == phase[p] \in {"done", "denied"}

\* Mutation: one attempt too many.
ContinueOneMore(p) ==
    IF attempt[p] < MaxRetries
    THEN /\ phase' = [phase EXCEPT ![p] = "ready"]
         /\ attempt' = [attempt EXCEPT ![p] = @ + 1]
    ELSE End(p, "done")

\* `continue`: the next attempt, or `raise last_exc` after the loop.
Continue(p) ==
    IF attempt[p] + 1 < MaxRetries
    THEN /\ phase' = [phase EXCEPT ![p] = "ready"]
         /\ attempt' = [attempt EXCEPT ![p] = @ + 1]
    ELSE End(p, "done")

\* The exception of the attempt reaches the wrapper.
Propagate(p, why) ==
    /\ cause' = [cause EXCEPT ![p] = "none"]
    /\ IF why = "cancelled" THEN End(p, "done") ELSE GoTo(p, "backoff")

----------------------------------------------------------------------------
(* Signing                                                                 *)

\* A refresh begins; the broker answers it at once or after a revocation.
Ask(p) == early' = [early EXCEPT ![p] = ~revoked]

\* The token of a refresh is stored, whatever is stored already.
Store(p) ==
    /\ cached' \in {IF early[p] THEN "before" ELSE "after",
                    IF revoked THEN "after" ELSE "before"}
    /\ overtaken' = (overtaken \/ (cached = "after" /\ cached' = "before"))
    /\ early' = [early EXCEPT ![p] = FALSE]

\* The refresh ends without a token.
Discard(p) ==
    /\ early' = [early EXCEPT ![p] = FALSE]
    /\ UNCHANGED <<cached, overtaken>>

\* The request leaves as soon as there is a token: no await lies between.
Send(p, when) ==
    /\ Session!StartRequest(p)
    /\ GoTo(p, "sent")
    /\ signed' = [signed EXCEPT ![p] = when]
    /\ UNCHANGED <<cause, revoked, quiet, renewed>>

SignCached(p) ==
    /\ \/ phase[p] = "ready" /\ Jwt!EnsureCached(p)
       \/ phase[p] = "signing" /\ Jwt!EnsureResumed(p) /\ jpc'[p] = "signed"
    /\ Send(p, cached)
    /\ UNCHANGED issueVars

SignRefreshed(p) ==
    /\ phase[p] = "signing"
    /\ Jwt!RefreshOk(p)
    /\ Store(p)
    /\ Send(p, cached')

\* The token is stale: refresh it, now or when the lock is free.
AwaitToken(p) ==
    /\ \/ phase[p] = "ready" /\ Jwt!EnsureStale(p)
       \/ phase[p] = "signing" /\ Jwt!EnsureResumed(p) /\ jpc'[p] # "signed"
    /\ GoTo(p, "signing")
    /\ IF jpc'[p] = "refreshing" THEN Ask(p) ELSE UNCHANGED early
    /\ UNCHANGED <<sessionVars, cause, revoked, quiet, cached, overtaken, signed, renewed>>

\* _sign_payload raises: what the token server and its token's data cause
\* leaves the wrapper, a time-out or a connection failure is retried.
SignFails(p) ==
    /\ phase[p] = "signing"
    /\ \/ Jwt!RefreshRefused(p) /\ Discard(p) /\ End(p, "done")
       \/ Jwt!RefreshUndecodable(p) /\ Store(p) /\ End(p, "done")
       \/ /\ Jwt!RefreshAborted(p) \/ Jwt!CancelWaiting(p)
          /\ Discard(p)
          /\ GoTo(p, "backoff") \/ End(p, "done")
    /\ UNCHANGED <<sessionVars, cause, revoked, quiet, signed, renewed>>

----------------------------------------------------------------------------
(* The request                                                             *)

\* The attempt has got its answer: the coroutine of the request returns.
RequestOver(p) ==
    /\ phase[p] = "sent"
    /\ Session!RequestDone(p)
    /\ signed' = [signed EXCEPT ![p] = "no"]
    /\ UNCHANGED <<cause, revoked, quiet, cached, overtaken>>

\* Any status but 401, or a text that cannot be decoded: final, or retried
\* after a pause (429, 5xx).
Answered(p) ==
    /\ RequestOver(p)
    /\ Jwt!Answered(p)
    /\ End(p, "done") \/ GoTo(p, "backoff")
    /\ UNCHANGED <<early, renewed>>

\* Mutation: the wrapper asks for a token as _sign_payload does, and gets the
\* cached one.
UnauthorizedEnsures(p) ==
    /\ revoked /\ signed[p] = "before"
    /\ RequestOver(p)
    /\ Jwt!Answered(p)
    /\ IF attempt[p] < AuthRetryLimit THEN Continue(p) ELSE End(p, "denied")
    /\ UNCHANGED early
    /\ renewed' = [renewed EXCEPT ![p] = TRUE]

\* 401: refreshed without the lock on the first attempts, raised on later ones.
Unauthorized(p) ==
    /\ revoked /\ signed[p] = "before"
    /\ RequestOver(p)
    /\ \/ /\ attempt[p] < AuthRetryLimit
          /\ Jwt!Unauthorized(p)
          /\ GoTo(p, "refreshing")
          /\ Ask(p)
          /\ renewed' = [renewed EXCEPT ![p] = TRUE]
       \/ /\ attempt[p] >= AuthRetryLimit
          /\ Jwt!Answered(p)
          /\ End(p, "denied")
          /\ UNCHANGED <<early, renewed>>

\* The connection breaks, the time-out of the attempt fires or the user
\* cancels: MBClient cleans the session up, which may take awaits of its own.
RequestFails(p) ==
    /\ phase[p] = "sent"
    /\ Session!RequestFails(p)
    /\ Jwt!Answered(p)
    /\ signed' = [signed EXCEPT ![p] = "no"]
    /\ \E why \in {"broken", "timeout", "cancelled"} :
          IF spc'[p] = "idle" THEN Propagate(p, why)
          ELSE cause' = [cause EXCEPT ![p] = why] /\ GoTo(p, "cleanup")
    /\ UNCHANGED <<revoked, quiet, issueVars, renewed>>

\* The clean-up goes on; a close() that raises is logged.
Cleanup(p) ==
    /\ phase[p] = "cleanup"
    /\ Session!ResumeRecreate(p) \/ Session!CloseDone(p) \/ Session!CloseInterrupted(p)
    /\ IF spc'[p] = "idle" THEN Propagate(p, cause[p])
       ELSE GoTo(p, "cleanup") /\ UNCHANGED cause
    /\ UNCHANGED <<tokenVars, revoked, quiet, issueVars, signed, renewed>>

\* The clean-up is cut short: by the time-out of the attempt, unless it has
\* fired already, or by the user.
CleanupCut(p) ==
    /\ phase[p] = "cleanup"
    /\ Session!CancelWaiting(p) \/ Session!CloseInterrupted(p)
    /\ Propagate(p, "cancelled") \/ (cause[p] = "broken" /\ Propagate(p, "timeout"))
    /\ UNCHANGED <<tokenVars, revoked, quiet, issueVars, signed, renewed>>

----------------------------------------------------------------------------
(* After the attempt                                                       *)

\* _refresh_jwt in the except clause for the 401.
Refreshed(p) ==
    /\ phase[p] = "refreshing"
    /\ Jwt!RefreshOk(p)
    /\ Store(p)
    /\ Continue(p)
    /\ UNCHANGED <<sessionVars, cause, revoked, quiet, signed, renewed>>

\* What it raises leaves the wrapper.
RefreshFails(p) ==
    /\ phase[p] = "refreshing"
    /\ \/ Jwt!RefreshRefused(p) /\ Discard(p) /\ End(p, "done")
       \/ Jwt!RefreshUndecodable(p) /\ Store(p) /\ End(p, "done")
       \/ Jwt!RefreshAborted(p) /\ Discard(p) /\ End(p, "done")
    /\ UNCHANGED <<sessionVars, cause, revoked, quiet, signed, renewed>>

BackoffOver(p) ==
    /\ phase[p] = "backoff"
    /\ Continue(p) \/ End(p, "done")
    /\ UNCHANGED <<sessionVars, tokenVars, cause, revoked, quiet, issueVars, signed, renewed>>

----------------------------------------------------------------------------
(* AlorClient.close(): the REST session, then the session of the refreshes *)

CloseJwt(k) ==
    \/ Jwt!StartClose(k) /\ GoTo(k, "jwt")
    \/ jwtSession \notin jopen /\ GoTo(k, "closed") /\ UNCHANGED tokenVars

Quiet == \A p \in Callers : Over(p)

\* Mutation: the second half is left out when there was no REST session.
CloseRestOnly(k) ==
    /\ \/ phase[k] = "idle" /\ Session!StartClose(k)
       \/ phase[k] = "rest" /\ (Session!ResumeClose(k) \/ Session!CloseDone(k))
    /\ IF spc'[k] # "idle" THEN GoTo(k, "rest") /\ UNCHANGED tokenVars
       ELSE IF phase[k] = "rest" THEN CloseJwt(k)
       ELSE GoTo(k, "closed") /\ UNCHANGED tokenVars
    /\ quiet' = [quiet EXCEPT ![k] = @ \/ (phase[k] = "idle" /\ Quiet)]
    /\ UNCHANGED <<cause, revoked, issueVars, signed, renewed>>

CloseRest(k) ==
    /\ \/ phase[k] = "idle" /\ Session!StartClose(k)
       \/ phase[k] = "rest" /\ (Session!ResumeClose(k) \/ Session!CloseDone(k))
    /\ IF spc'[k] = "idle" THEN CloseJwt(k) ELSE GoTo(k, "rest") /\ UNCHANGED tokenVars
    /\ quiet' = [quiet EXCEPT ![k] = @ \/ (phase[k] = "idle" /\ Quiet)]
    /\ UNCHANGED <<cause, revoked, issueVars, signed, renewed>>

JwtClosed(k) ==
    /\ phase[k] = "jwt"
    /\ Jwt!CloseDone(k)
    /\ GoTo(k, "closed")
    /\ UNCHANGED <<sessionVars, cause, revoked, quiet, issueVars, signed, renewed>>

\* A close() raises or is cancelled; the rest of it is not made.
CloseFails(k) ==
    /\ \/ /\ phase[k] = "rest"
          /\ Session!CloseInterrupted(k) \/ Session!CancelWaiting(k)
          /\ UNCHANGED tokenVars
       \/ phase[k] = "jwt" /\ Jwt!CloseInterrupted(k) /\ UNCHANGED sessionVars
    /\ GoTo(k, "failed")
    /\ UNCHANGED <<cause, revoked, quiet, issueVars, signed, renewed>>

----------------------------------------------------------------------------

Tick == Jwt!Tick /\ UNCHANGED <<sessionVars, callVars, revoked, quiet, issueVars, signed, renewed>>

Revoke ==
    /\ ~revoked
    /\ revoked' = TRUE
    /\ UNCHANGED <<sessionVars, tokenVars, callVars, issueVars, signed, renewed, quiet>>

CallStep(p) ==
    \/ SignCached(p) \/ SignRefreshed(p) \/ AwaitToken(p) \/ SignFails(p)
    \/ Answered(p) \/ Unauthorized(p) \/ RequestFails(p) \/ Cleanup(p)
    \/ Refreshed(p) \/ RefreshFails(p) \/ BackoffOver(p)

CloseStep(k) == CloseRest(k) \/ JwtClosed(k)

Next ==
    \/ \E p \in Callers : CallStep(p) \/ CleanupCut(p)
    \/ \E k \in Closers : CloseStep(k) \/ CloseFails(k)
    \/ Tick \/ Revoke

\* Every await of a call ends: asyncio.timeout bounds the signing and the
\* request, aiohttp the refresh after a 401, and a lock is handed on.
Fairness ==
    /\ \A p \in Callers : WF_vars(CallStep(p))
    /\ \A k \in Closers : WF_vars(phase[k] # "idle" /\ CloseStep(k))

Spec == Init /\ [][Next]_vars
FairSpec == Spec /\ Fairness

----------------------------------------------------------------------------
(* Properties                                                              *)

\* Every call comes back to its user and every close() returns, although they
\* wait for locks that failing and cancelled calls hold: what bounds the wait
\* for the session lock is not a time-out but the release of the lock.
CallsEnd ==
    []<>(/\ \A p \in Callers : Over(p)
         /\ \A k \in Closers : phase[k] \in {"idle", "closed", "failed"})

\* After one revocation a call that got its 401 and refreshed the token is
\* not refused again, unless a refresh that began before has overwritten the
\* new token with its own: the lock does not order the two.
SurvivesRevocation ==
    \A p \in Callers : phase[p] = "denied" /\ renewed[p] => overtaken

\* A close() that begins when no call is under way and is not interrupted
\* leaves neither session open.  (One that overlaps a call may: a call that
\* meets the closed session opens another.)
ClosedIsClosed ==
    \A k \in Closers : phase[k] = "closed" /\ quiet[k] => open = {} /\ jopen = {}

\* A close() that overlaps calls may leave sessions open behind it, and may
\* forget the session of a refresh; but once no call is under way whatever is
\* open is within the reach of the client, so that the next close() closes it.
NothingForgotten == Quiet => open \subseteq {restSession} /\ jopen \subseteq {jwtSession}

\* The inductive invariant, first part: after its own refresh, which began after
\* the revocation, a call meets an older token only if one was overtaken.
RenewedMeetsNewToken ==
    \A p \in Callers : renewed[p] =>
        /\ revoked
        /\ ~early[p]
        /\ signed[p] = "before" => overtaken
        /\ phase[p] \notin {"refreshing", "done"} => cached = "after" \/ overtaken

RevocationInv == TypeOK /\ RenewedMeetsNewToken /\ SurvivesRevocation

\* Second part: where a task is in its call or in close() says where it is in
\* the session and in the token, and a close() that began when no call was
\* under way meets no call later, nor a session that it has passed.
InPhase(p) ==
    /\ spc[p] = "inflight" <=> phase[p] = "sent"
    /\ spc[p] \in {"waiting", "closing"} <=> phase[p] \in {"cleanup", "rest"}
    /\ jpc[p] = "signed" <=> phase[p] = "sent"
    /\ jpc[p] \in {"waiting", "refreshing"} <=> phase[p] = "signing"
    /\ jpc[p] = "direct" <=> phase[p] = "refreshing"
    /\ jpc[p] = "closing" <=> phase[p] = "jwt"

PartsInPhase == \A p \in Procs : InPhase(p)

QuietStaysClosed ==
    \A k \in Closers : quiet[k] =>
        /\ Quiet
        /\ phase[k] = "rest" /\ spc[k] = "closing" => open = {}
        /\ phase[k] \in {"jwt", "closed"} => open = {} /\ jopen = {}

ClosingInv == PartsInPhase /\ QuietStaysClosed

IInv == RevocationInv /\ ClosingInv /\ Session!IInv /\ Jwt!IInv

\* Refinement: the composition implements its parts, so that what is proved of
\* RestSession and of JwtToken holds of the calls of a client.
PartsConform == Session!Spec /\ Jwt!Spec
============================================================================
