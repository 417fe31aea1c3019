------------------------------ MODULE JwtToken ------------------------------
(***************************************************************************)
(* The JWT of an AlorClient (clients/alor/AlorClient.py): the cached token *)
(* and its time to live, _ensure_jwt_token with its lock and double check, *)
(* the refresh that the retry wrapper makes after a 401 without that lock, *)
(* the aiohttp session of the refreshes, and the part of close() that      *)
(* closes it.  One action is the code from one await to the next.          *)
(*                                                                         *)
(* The clock is the whole seconds _ensure_jwt_token compares; an age is    *)
(* not counted beyond the time to live.                                    *)
(***************************************************************************)
EXTENDS Integers, Sequences, SequencesExt

CONSTANTS
    Callers,    \* tasks that sign requests
    Closers,    \* tasks that call AlorClient.close()
    Sessions,   \* identities of ClientSession objects
    NoSession,  \* Python's None
    TTL         \* jwt_token_ttl

ASSUME TTLAssumption == TTL \in Nat \ {0}
ASSUME ProcsAssumption == Callers \cap Closers = {}
ASSUME NoSessionAssumption == NoSession \notin Sessions

Procs == Callers \cup Closers

VARIABLES
    token,      \* self.jwt_token: "none", "good", or "bad" (undecodable)
    age,        \* now - self.jwt_token_issued, at most TTL
    unlocked,   \* history: an unlocked refresh has set the token or its time
    lockQueue,  \* self._jwt_refresh_lock: holder or woken task, then waiters
    pc,         \* where each task is suspended
    jwtSession, \* self._jwt_aiohttp_session
    open,       \* sessions that are neither closed nor garbage
    using       \* the session of the refresh a caller awaits

tokenVars == <<token, age, unlocked>>
sessionVars == <<jwtSession, open, using>>
vars == <<tokenVars, lockQueue, pc, sessionVars>>

OptSession == Sessions \cup {NoSession}

TypeOK ==
    /\ token \in {"none", "good", "bad"}
    /\ age \in 0..TTL
    /\ unlocked \in BOOLEAN
    /\ lockQueue \in Seq(Callers)
    /\ pc \in [Procs -> {"idle", "signed", "waiting", "refreshing", "direct", "closing"}]
    /\ jwtSession \in OptSession
    /\ open \subseteq Sessions
    /\ using \in [Callers -> OptSession]

\* __init__ has refreshed the token synchronously, before any task runs.
Init ==
    /\ token = "good"
    /\ age = 0
    /\ unlocked = FALSE
    /\ lockQueue = <<>>
    /\ pc = [p \in Procs |-> "idle"]
    /\ jwtSession = NoSession
    /\ open = {}
    /\ using = [p \in Callers |-> NoSession]

\* `if self.jwt_token and now - self.jwt_token_issued < self.jwt_token_ttl`
Fresh == token # "none" /\ age < TTL

GoTo(p, where) == pc' = [pc EXCEPT ![p] = where]

----------------------------------------------------------------------------
(* _refresh_jwt                                                            *)

\* The identity of a new session: some identity nothing refers to.
NewSession ==
    LET free == Sessions \ (open \cup {jwtSession} \cup {using[p] : p \in Callers})
    IN  {s \in free : s = CHOOSE t \in free : TRUE}

\* Up to the await of the POST: a session is created when there is none.
BeginRefresh(p, where) ==
    /\ GoTo(p, where)
    /\ \/ jwtSession \in open /\ UNCHANGED <<jwtSession, open>>
       \/ /\ jwtSession \notin open
          /\ \E s \in NewSession : jwtSession' = s /\ open' = open \cup {s}
    /\ using' = [using EXCEPT ![p] = jwtSession']
    /\ UNCHANGED tokenVars

Refreshing(p) == pc[p] \in {"refreshing", "direct"}

\* Mutation: a refresh that fails keeps the lock.
EndRefreshHeld(p, where) ==
    /\ GoTo(p, where)
    /\ lockQueue' = IF where = "signed" THEN Tail(lockQueue) ELSE lockQueue
    /\ using' = [using EXCEPT ![p] = NoSession]
    /\ open' = open \cap ({jwtSession} \cup {using'[q] : q \in Callers})
    /\ UNCHANGED jwtSession

\* The refresh ends and its coroutine drops the session; the lock is released
\* when this refresh was made under it.  A session without a reference dies.
EndRefresh(p, where) ==
    /\ GoTo(p, where)
    /\ lockQueue' = IF pc[p] = "refreshing" THEN Tail(lockQueue) ELSE lockQueue
    /\ using' = [using EXCEPT ![p] = NoSession]
    /\ open' = open \cap ({jwtSession} \cup {using'[q] : q \in Callers})
    /\ UNCHANGED jwtSession

\* 200 with a token: the caller of _ensure_jwt_token signs with it, the one
\* that handled a 401 goes on to its next attempt.
RefreshOk(p) ==
    /\ Refreshing(p)
    /\ token' = "good"
    /\ age' = 0
    /\ unlocked' = (pc[p] = "direct")
    /\ EndRefresh(p, IF pc[p] = "refreshing" THEN "signed" ELSE "idle")

\* 200 with an AccessToken that decode() refuses: jwt_token is set already,
\* jwt_token_issued is not.
RefreshUndecodable(p) ==
    /\ Refreshing(p)
    /\ token' = "bad"
    /\ unlocked' = (unlocked \/ pc[p] = "direct")
    /\ EndRefresh(p, "idle")
    /\ UNCHANGED age

\* Mutation: the time of issue of a dropped token stays.
RefreshRefusedIssued(p) ==
    /\ Refreshing(p)
    /\ token' = "none"
    /\ EndRefresh(p, "idle")
    /\ UNCHANGED <<age, unlocked>>

\* Any other status: the token is dropped, whoever fetched it.
RefreshRefused(p) ==
    /\ Refreshing(p)
    /\ token' = "none"
    /\ age' = TTL
    /\ EndRefresh(p, "idle")
    /\ UNCHANGED unlocked

\* Network error, closed session, time-out or cancellation.
RefreshAborted(p) ==
    /\ Refreshing(p)
    /\ EndRefresh(p, "idle")
    /\ UNCHANGED tokenVars

----------------------------------------------------------------------------
(* _ensure_jwt_token, called by _sign_payload and by the websockets        *)

EnsureCached(p) ==
    /\ pc[p] = "idle"
    /\ Fresh
    /\ GoTo(p, "signed")
    /\ UNCHANGED <<tokenVars, lockQueue, sessionVars>>

\* The token is stale: take the lock, or queue for it.
EnsureStale(p) ==
    /\ pc[p] = "idle"
    /\ ~Fresh
    /\ lockQueue' = Append(lockQueue, p)
    /\ IF lockQueue = <<>>
       THEN BeginRefresh(p, "refreshing")
       ELSE GoTo(p, "waiting") /\ UNCHANGED <<tokenVars, sessionVars>>

\* Mutation: no second check under the lock.
EnsureResumedUnchecked(p) ==
    /\ pc[p] = "waiting"
    /\ lockQueue # <<>> /\ Head(lockQueue) = p
    /\ BeginRefresh(p, "refreshing")
    /\ UNCHANGED lockQueue

\* The lock was handed over: check again, then refresh.
EnsureResumed(p) ==
    /\ pc[p] = "waiting"
    /\ lockQueue # <<>> /\ Head(lockQueue) = p
    /\ \/ /\ Fresh
          /\ GoTo(p, "signed")
          /\ lockQueue' = Tail(lockQueue)
          /\ UNCHANGED <<tokenVars, sessionVars>>
       \/ /\ ~Fresh
          /\ BeginRefresh(p, "refreshing")
          /\ UNCHANGED lockQueue

CancelWaiting(p) ==
    /\ pc[p] = "waiting"
    /\ GoTo(p, "idle")
    /\ \E i \in 1..Len(lockQueue) :
          lockQueue[i] = p /\ lockQueue' = RemoveAt(lockQueue, i)
    /\ UNCHANGED <<tokenVars, sessionVars>>

\* The signed request is answered, by anything but a 401, or abandoned.
Answered(p) ==
    /\ pc[p] = "signed"
    /\ GoTo(p, "idle")
    /\ UNCHANGED <<tokenVars, lockQueue, sessionVars>>

\* 401 on the first attempt: the retry wrapper refreshes, without the lock.
Unauthorized(p) ==
    /\ pc[p] = "signed"
    /\ BeginRefresh(p, "direct")
    /\ UNCHANGED lockQueue

----------------------------------------------------------------------------
(* The JWT part of AlorClient.close()                                      *)

StartClose(k) ==
    /\ pc[k] = "idle"
    /\ jwtSession \in open
    /\ open' = open \ {jwtSession}
    /\ GoTo(k, "closing")
    /\ UNCHANGED <<tokenVars, lockQueue, jwtSession, using>>

\* The attribute is cleared whatever it refers to by now.
CloseDone(k) ==
    /\ pc[k] = "closing"
    /\ GoTo(k, "idle")
    /\ jwtSession' = NoSession
    /\ open' = open \cap {using[q] : q \in Callers}
    /\ UNCHANGED <<tokenVars, lockQueue, using>>

\* The closing task is cancelled, or the close raises.
CloseInterrupted(k) ==
    /\ pc[k] = "closing"
    /\ GoTo(k, "idle")
    /\ UNCHANGED <<tokenVars, lockQueue, sessionVars>>

Tick ==
    /\ age < TTL
    /\ age' = age + 1
    /\ UNCHANGED <<token, unlocked, lockQueue, pc, sessionVars>>

RefreshEnds(p) ==
    RefreshOk(p) \/ RefreshUndecodable(p) \/ RefreshRefused(p) \/ RefreshAborted(p)

Next ==
    \/ \E p \in Callers :
          \/ EnsureCached(p) \/ EnsureStale(p) \/ EnsureResumed(p) \/ CancelWaiting(p)
          \/ Answered(p) \/ Unauthorized(p) \/ RefreshEnds(p)
    \/ \E k \in Closers : StartClose(k) \/ CloseDone(k) \/ CloseInterrupted(k)
    \/ Tick

\* aiohttp's default time-out ends every refresh, and a woken task runs.
Fairness ==
    \A p \in Callers : WF_vars(RefreshEnds(p) \/ EnsureResumed(p))

Spec == Init /\ [][Next]_vars
FairSpec == Spec /\ Fairness

----------------------------------------------------------------------------
(* Properties                                                              *)

\* The double check: a refresh under the lock is in flight only while the
\* token is stale.  Only an unlocked refresh can make it redundant.
LockedRefreshNeeded ==
    \A p \in Callers : pc[p] = "refreshing" /\ Fresh => unlocked

\* One refresh at a time is made under the lock.
OneLockedRefresh ==
    \A p, q \in Callers : pc[p] = "refreshing" /\ pc[q] = "refreshing" => p = q

\* A token that could not be decoded is never taken for a fresh one, unless
\* a refresh after a 401 fetched it.
BadTokenNotServed == token = "bad" /\ Fresh => unlocked

\* Nobody signs with a missing or expired token: whoever _ensure_jwt_token
\* returns to does so in the step in which the token is fresh.
SignedWithFreshToken ==
    [][\A p \in Callers : pc[p] # "signed" /\ pc'[p] = "signed" => Fresh']_vars

\* A caller that waits for a refresh gets through, whatever its predecessors'
\* refreshes came to.
EnsureReturns == \A p \in Callers : pc[p] = "waiting" ~> pc[p] # "waiting"

\* The inductive invariant: the lock and what it protects, and the sessions of
\* refreshes, which are open only while close() or a refresh can reach them.
HolderIsHead ==
    \A p \in Callers :
        pc[p] = "refreshing" => lockQueue # <<>> /\ Head(lockQueue) = p

DroppedIsStale == token = "none" => age = TTL

LockInv ==
    /\ TypeOK
    /\ HolderIsHead
    /\ LockedRefreshNeeded
    /\ BadTokenNotServed
    /\ DroppedIsStale

SessionsReferenced ==
    /\ open \subseteq {jwtSession} \cup {using[q] : q \in Callers}
    /\ \A p \in Callers : Refreshing(p) \/ using[p] = NoSession

IInv == LockInv /\ SessionsReferenced
============================================================================
