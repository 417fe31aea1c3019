---------------------------- MODULE RestSession ----------------------------
(***************************************************************************)
(* The aiohttp session shared by every REST call of an MBClient            *)
(* (multibroker/mb_client.py): creation on demand by _get_rest_session,    *)
(* force-closing by _recreate_rest_session after a failed request, and     *)
(* close().  Coroutines interleave only where the code awaits, so one      *)
(* action is the code from one await to the next.                          *)
(*                                                                         *)
(* A session is an identity.  Python may give a new object the identity of *)
(* a dead one, so a fresh session is any member of Sessions that nothing   *)
(* refers to; no counter and no bound is needed.                           *)
(***************************************************************************)
EXTENDS Integers, Sequences, SequencesExt, FiniteSets

CONSTANTS
    Callers,    \* tasks inside _create_rest_call
    Closers,    \* tasks that call close()
    Sessions,   \* identities of ClientSession objects
    NoSession   \* Python's None

ASSUME ProcsAssumption == Callers \cap Closers = {}
ASSUME NoSessionAssumption == NoSession \notin Sessions

Procs == Callers \cup Closers

VARIABLES
    restSession,    \* self.rest_session
    open,           \* sessions whose .closed is False
    lockQueue,      \* self._rest_session_lock: holder or woken task, then waiters
    pc,             \* where each task is suspended
    target          \* the caller's `session`, the `target` of the section

vars == <<restSession, open, lockQueue, pc, target>>

OptSession == Sessions \cup {NoSession}

TypeOK ==
    /\ restSession \in OptSession
    /\ open \subseteq Sessions
    /\ lockQueue \in Seq(Procs)
    /\ pc \in [Procs -> {"idle", "inflight", "waiting", "closing"}]
    /\ target \in [Procs -> OptSession]

Init ==
    /\ restSession = NoSession
    /\ open = {}
    /\ lockQueue = <<>>
    /\ pc = [p \in Procs |-> "idle"]
    /\ target = [p \in Procs |-> NoSession]

\* The identity of a new session: some identity nothing refers to.
NewSession ==
    LET free == Sessions \ (open \cup {restSession} \cup {target[p] : p \in Procs})
    IN  {s \in free : s = CHOOSE t \in free : TRUE}

Suspend(p, where, s) ==
    /\ pc' = [pc EXCEPT ![p] = where]
    /\ target' = [target EXCEPT ![p] = s]

Return(p) == Suspend(p, "idle", NoSession)

----------------------------------------------------------------------------
(* Requests: _create_rest_call and _get_rest_session                       *)

\* _get_rest_session: the current session unless it is None or closed, else
\* a new one; the caller then awaits the response on it.  No lock is taken.
StartRequest(p) ==
    /\ pc[p] = "idle"
    /\ \/ /\ restSession \in open
          /\ Suspend(p, "inflight", restSession)
          /\ UNCHANGED <<restSession, open>>
       \/ /\ restSession \notin open
          /\ \E s \in NewSession :
                /\ restSession' = s
                /\ open' = open \cup {s}
                /\ Suspend(p, "inflight", s)
    /\ UNCHANGED lockQueue

\* A response was read: returned, or an error status or a payload error is
\* raised that the except clause does not catch.
RequestDone(p) ==
    /\ pc[p] = "inflight"
    /\ Return(p)
    /\ UNCHANGED <<restSession, open, lockQueue>>

----------------------------------------------------------------------------
(* The section under _rest_session_lock.  Enter runs from the acquisition  *)
(* to the first await or to the release; q is the queue with p at its head *)

\* Mutation: no identity check after the awaited close().
ForgetAlways(t) == NoSession

Forget(t) == IF restSession = t THEN NoSession ELSE restSession

\* `await target.close()`: .closed flips at once, then the task suspends.
BeginClose(p, t, q) ==
    /\ open' = open \ {t}
    /\ Suspend(p, "closing", t)
    /\ lockQueue' = q
    /\ UNCHANGED restSession

\* The section ends without an await; the lock goes to the next waiter.
Leave(p, current, q) ==
    /\ restSession' = current
    /\ Return(p)
    /\ lockQueue' = Tail(q)
    /\ UNCHANGED open

\* Mutation: whatever session is current is closed.
EnterRecreateCurrent(p, t, q) ==
    \/ restSession \in open /\ BeginClose(p, restSession, q)
    \/ restSession \notin open /\ Leave(p, NoSession, q)

\* _recreate_rest_session(stale_session=t): a session somebody replaced
\* already is left alone.
EnterRecreate(p, t, q) ==
    \/ restSession # t /\ Leave(p, restSession, q)
    \/ restSession = t /\ t \in open /\ BeginClose(p, t, q)
    \/ restSession = t /\ t \notin open /\ Leave(p, NoSession, q)

\* close(): the target is read under the lock.
EnterClose(p, q) ==
    \/ restSession \in open /\ BeginClose(p, restSession, q)
    \/ restSession \notin open /\ Leave(p, NoSession, q)

\* asyncio.Lock.acquire: at once when the lock is free and nobody waits.
WaitForLock(p, t) ==
    /\ lockQueue # <<>>
    /\ lockQueue' = Append(lockQueue, p)
    /\ Suspend(p, "waiting", t)
    /\ UNCHANGED <<restSession, open>>

\* Mutations: the section is entered without the lock, and a
\* failing caller leaves the cleanup to the task that holds the lock.
RequestFailsUnlocked(p) ==
    /\ pc[p] = "inflight"
    /\ EnterRecreate(p, target[p], <<p>>)

RequestFailsNoWait(p) ==
    /\ pc[p] = "inflight"
    /\ \/ lockQueue = <<>> /\ EnterRecreate(p, target[p], <<p>>)
       \/ lockQueue # <<>> /\ Return(p) /\ UNCHANGED <<restSession, open, lockQueue>>

\* The except clause of _create_rest_call: CancelledError, TimeoutError or
\* ClientConnectionError on the session the request was made on.
RequestFails(p) ==
    /\ pc[p] = "inflight"
    /\ \/ lockQueue = <<>> /\ EnterRecreate(p, target[p], <<p>>)
       \/ WaitForLock(p, target[p])

StartClose(p) ==
    /\ pc[p] = "idle"
    /\ \/ lockQueue = <<>> /\ EnterClose(p, <<p>>)
       \/ WaitForLock(p, NoSession)

Woken(p) == pc[p] = "waiting" /\ lockQueue # <<>> /\ Head(lockQueue) = p

ResumeRecreate(p) == Woken(p) /\ EnterRecreate(p, target[p], lockQueue)

ResumeClose(p) == Woken(p) /\ EnterClose(p, lockQueue)

\* close() returned: identity is checked again before rest_session is cleared.
CloseDone(p) ==
    /\ pc[p] = "closing"
    /\ Leave(p, Forget(target[p]), lockQueue)

\* Mutation: the lock is released only when close() returns.
CloseInterruptedHeld(p) ==
    /\ pc[p] = "closing"
    /\ Return(p)
    /\ UNCHANGED <<restSession, open, lockQueue>>

\* The task is cancelled, or close() raises, while it awaits close(): the
\* lock is released and rest_session keeps its value.
CloseInterrupted(p) ==
    /\ pc[p] = "closing"
    /\ Leave(p, restSession, lockQueue)

\* The task is cancelled while it waits for the lock.
CancelWaiting(p) ==
    /\ pc[p] = "waiting"
    /\ Return(p)
    /\ \E i \in 1..Len(lockQueue) :
          lockQueue[i] = p /\ lockQueue' = RemoveAt(lockQueue, i)
    /\ UNCHANGED <<restSession, open>>

CallerStep(p) ==
    \/ StartRequest(p) \/ RequestDone(p) \/ RequestFails(p) \/ ResumeRecreate(p)

CloserStep(p) == StartClose(p) \/ ResumeClose(p)

SectionStep(p) == CloseDone(p) \/ CloseInterrupted(p) \/ CancelWaiting(p)

Next ==
    \/ \E p \in Callers : CallerStep(p)
    \/ \E p \in Closers : CloserStep(p)
    \/ \E p \in Procs : SectionStep(p)

\* The event loop runs every ready task: a woken waiter, a finished close()
\* and, because ClientTimeout(total=30) ends every request, a request's end.
Fairness ==
    /\ \A p \in Callers :
        WF_vars(RequestDone(p) \/ RequestFails(p) \/ ResumeRecreate(p) \/ CloseDone(p))
    /\ \A p \in Closers : WF_vars(ResumeClose(p) \/ CloseDone(p))

Spec == Init /\ [][Next]_vars
FairSpec == Spec /\ Fairness

----------------------------------------------------------------------------
(* Properties                                                              *)

\* No connection pool is leaked: a session that is still open is the one
\* rest_session refers to, whatever close() calls are under way (the second
\* identity check of close and _recreate_rest_session).
NoLeakedSession == open \subseteq {restSession}

\* The section under _rest_session_lock is entered by one task at a time,
\* and the task suspended in it is the one the lock was given to.
OneTaskCloses ==
    \A p, q \in Procs : pc[p] = "closing" /\ pc[q] = "closing" => p = q

\* A session is force-closed only by close() or by a caller whose own
\* request on that very session failed: the failure of a request made on an
\* older session never closes the replacement under its users.
ClosedOnlyByItsUser ==
    [][\A s \in open \ open' :
         \E p \in Procs : /\ pc[p] # pc'[p]
                          /\ p \in Closers \/ target[p] = s]_vars

\* When _recreate_rest_session runs to its end, the session the request
\* failed on is closed and is not handed out again: the next attempt of the
\* retry wrapper gets another one.
CleanupRetiresSession ==
    [][\A p \in Callers :
         RequestFails(p) \/ ResumeRecreate(p) \/ CloseDone(p)
           => (pc'[p] # "waiting" => target[p] \notin open')]_vars

\* Whoever waits for the session lock gets through: a failed call is raised
\* to its caller and close() returns, however many tasks fail at once.
WaitersServed == \A p \in Procs : pc[p] = "waiting" ~> pc[p] = "idle"

\* The inductive invariant: the holder of the lock is the task at the head
\* of the queue, and the session it closes does not count as open any more.
HolderIsHead ==
    \A p \in Procs :
        pc[p] = "closing" => lockQueue # <<>> /\ Head(lockQueue) = p

ClosingIsClosed == \A p \in Procs : pc[p] = "closing" => target[p] \notin open

IInv == TypeOK /\ NoLeakedSession /\ HolderIsHead /\ ClosingIsClosed

\* Refinement: seen through its open sessions the client is one slot, emptied
\* before it is filled again.
Slot == INSTANCE OneSession
OneSessionSpec == Slot!Spec
============================================================================
