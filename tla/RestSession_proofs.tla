------------------------- MODULE RestSession_proofs -------------------------
(***************************************************************************)
(* Proofs about RestSession for every set of callers, closers and session  *)
(* identities.  IInv is inductive: each action has a lemma.                *)
(***************************************************************************)
EXTENDS RestSession, SequenceTheorems, TLAPS

-----------------------------------------------------------------------------
(* The queue of an asyncio.Lock, with its holder at the head.                *)

\* What acquiring and releasing the lock do to the queue.
LEMMA QueueTail ==
    ASSUME NEW S, NEW q \in Seq(S), q # <<>>
    PROVE  Tail(q) \in Seq(S)
BY HeadTailProperties

LEMMA QueueAppend ==
    ASSUME NEW S, NEW q \in Seq(S), NEW p \in S, q # <<>>
    PROVE  /\ Append(q, p) \in Seq(S)
           /\ Append(q, p) # <<>>
           /\ Head(Append(q, p)) = Head(q)
BY AppendProperties

LEMMA QueueOfOne ==
    ASSUME NEW S, NEW p \in S
    PROVE  <<p>> \in Seq(S) /\ <<p>> # <<>> /\ Head(<<p>>) = p
OBVIOUS

\* A waiter that is not at the head can leave the queue without changing who
\* holds the lock.
LEMMA QueueRemove ==
    ASSUME NEW S, NEW q \in Seq(S), NEW i \in 1..Len(q)
    PROVE  /\ RemoveAt(q, i) \in Seq(S)
           /\ i # 1 => RemoveAt(q, i) # <<>> /\ Head(RemoveAt(q, i)) = Head(q)
<1>1. RemoveAt(q, i) = SubSeq(q, 1, i-1) \o SubSeq(q, i+1, Len(q))
  BY DEF RemoveAt
<1>2. SubSeq(q, 1, i-1) \in Seq(S) /\ SubSeq(q, i+1, Len(q)) \in Seq(S)
  BY SubSeqProperties
<1>3. RemoveAt(q, i) \in Seq(S)
  BY <1>1, <1>2, ConcatProperties
<1>4. ASSUME i # 1
      PROVE  RemoveAt(q, i) # <<>> /\ Head(RemoveAt(q, i)) = Head(q)
  <2>1. Len(SubSeq(q, 1, i-1)) = i-1 /\ SubSeq(q, 1, i-1)[1] = q[1]
    BY <1>4, SubSeqProperties
  <2>2. ASSUME NEW a \in Seq(S), NEW b \in Seq(S), Len(a) > 0
        PROVE  Len(a \o b) > 0 /\ (a \o b)[1] = a[1]
    BY <2>2, ConcatProperties, LenProperties
  <2> DEFINE front == SubSeq(q, 1, i-1)
             back == SubSeq(q, i+1, Len(q))
  <2>3. front \in Seq(S) /\ back \in Seq(S) /\ Len(front) > 0 /\ front[1] = q[1]
    BY <1>2, <1>4, <2>1
  <2>4. RemoveAt(q, i) = front \o back
    BY <1>1
  <2> HIDE DEF front, back
  <2>5. Len(RemoveAt(q, i)) > 0 /\ RemoveAt(q, i)[1] = q[1]
    BY <2>2, <2>3, <2>4
  <2> QED
    BY <1>3, <2>5
<1> QED
  BY <1>3, <1>4

USE DEF Procs, OptSession

-----------------------------------------------------------------------------
LEMMA InitIInv == Init => IInv
BY NoSessionAssumption DEF Init, IInv, TypeOK, NoLeakedSession, HolderIsHead, ClosingIsClosed

LEMMA StartRequestIInv ==
    ASSUME IInv, NEW p \in Callers, StartRequest(p)
    PROVE  IInv'
BY NoSessionAssumption
   DEF IInv, TypeOK, NoLeakedSession, HolderIsHead, ClosingIsClosed,
       StartRequest, Suspend, NewSession

LEMMA RequestDoneIInv ==
    ASSUME IInv, NEW p \in Callers, RequestDone(p)
    PROVE  IInv'
BY DEF IInv, TypeOK, NoLeakedSession, HolderIsHead, ClosingIsClosed,
       RequestDone, Return, Suspend

\* The head of the queue suspends in close() on the current session.
LEMMA BeginCloseIInv ==
    ASSUME IInv, NEW p \in Procs, NEW t \in open, NEW q \in Seq(Procs),
           q # <<>>, Head(q) = p,
           lockQueue = <<>> \/ Head(lockQueue) = p,
           BeginClose(p, t, q)
    PROVE  IInv'
BY DEF IInv, TypeOK, NoLeakedSession, HolderIsHead, ClosingIsClosed,
       BeginClose, Suspend

\* The head of the queue leaves the section without leaking what is open.
LEMMA LeaveIInv ==
    ASSUME IInv, NEW p \in Procs, NEW current \in OptSession,
           NEW q \in Seq(Procs), q # <<>>,
           lockQueue = <<>> \/ Head(lockQueue) = p,
           open \subseteq {current},
           Leave(p, current, q)
    PROVE  IInv'
<1>1. TypeOK'
  BY QueueTail DEF IInv, TypeOK, Leave, Return, Suspend
<1>2. NoLeakedSession'
  BY DEF NoLeakedSession, Leave
<1>3. \A r \in Procs : pc'[r] # "closing"
  BY DEF IInv, TypeOK, HolderIsHead, Leave, Return, Suspend
<1> QED
  BY <1>1, <1>2, <1>3 DEF IInv, HolderIsHead, ClosingIsClosed

LEMMA WaitForLockIInv ==
    ASSUME IInv, NEW p \in Procs, NEW t \in OptSession, pc[p] # "closing",
           WaitForLock(p, t)
    PROVE  IInv'
BY QueueAppend
   DEF IInv, TypeOK, NoLeakedSession, HolderIsHead, ClosingIsClosed,
       WaitForLock, Suspend

\* The section of _recreate_rest_session, entered at the head of q.
LEMMA EnterRecreateIInv ==
    ASSUME IInv, NEW p \in Procs, NEW t \in OptSession, NEW q \in Seq(Procs),
           q # <<>>, Head(q) = p,
           lockQueue = <<>> \/ Head(lockQueue) = p,
           EnterRecreate(p, t, q)
    PROVE  IInv'
<1>1. CASE restSession # t /\ Leave(p, restSession, q)
  BY <1>1, LeaveIInv DEF IInv, TypeOK, NoLeakedSession
<1>2. CASE restSession = t /\ t \in open /\ BeginClose(p, t, q)
  BY <1>2, BeginCloseIInv
<1>3. CASE restSession = t /\ t \notin open /\ Leave(p, NoSession, q)
  <2>1. open \subseteq {NoSession}
    BY <1>3 DEF IInv, NoLeakedSession
  <2> QED
    BY <1>3, <2>1, LeaveIInv
<1> QED
  BY <1>1, <1>2, <1>3 DEF EnterRecreate

\* The section of close(), entered at the head of q.
LEMMA EnterCloseIInv ==
    ASSUME IInv, NEW p \in Procs, NEW q \in Seq(Procs), q # <<>>, Head(q) = p,
           lockQueue = <<>> \/ Head(lockQueue) = p,
           EnterClose(p, q)
    PROVE  IInv'
<1>1. CASE restSession \in open /\ BeginClose(p, restSession, q)
  BY <1>1, BeginCloseIInv
<1>2. CASE restSession \notin open /\ Leave(p, NoSession, q)
  <2>1. open \subseteq {NoSession}
    BY <1>2 DEF IInv, NoLeakedSession
  <2> QED
    BY <1>2, <2>1, LeaveIInv
<1> QED
  BY <1>1, <1>2 DEF EnterClose

LEMMA RequestFailsIInv ==
    ASSUME IInv, NEW p \in Callers, RequestFails(p)
    PROVE  IInv'
<1>1. target[p] \in OptSession /\ p \in Procs /\ pc[p] # "closing"
  BY DEF IInv, TypeOK, RequestFails
<1>2. CASE lockQueue = <<>> /\ EnterRecreate(p, target[p], <<p>>)
  BY <1>1, <1>2, QueueOfOne, EnterRecreateIInv
<1>3. CASE WaitForLock(p, target[p])
  BY <1>1, <1>3, WaitForLockIInv
<1> QED
  BY <1>2, <1>3 DEF RequestFails

LEMMA StartCloseIInv ==
    ASSUME IInv, NEW p \in Closers, StartClose(p)
    PROVE  IInv'
<1>1. p \in Procs /\ pc[p] # "closing"
  BY DEF StartClose
<1>2. CASE lockQueue = <<>> /\ EnterClose(p, <<p>>)
  BY <1>1, <1>2, QueueOfOne, EnterCloseIInv
<1>3. CASE WaitForLock(p, NoSession)
  BY <1>1, <1>3, WaitForLockIInv
<1> QED
  BY <1>2, <1>3 DEF StartClose

LEMMA ResumeRecreateIInv ==
    ASSUME IInv, NEW p \in Callers, ResumeRecreate(p)
    PROVE  IInv'
<1>1. target[p] \in OptSession /\ p \in Procs /\ lockQueue \in Seq(Procs)
  BY DEF IInv, TypeOK
<1>2. lockQueue # <<>> /\ Head(lockQueue) = p /\ EnterRecreate(p, target[p], lockQueue)
  BY DEF ResumeRecreate, Woken
<1> QED
  BY <1>1, <1>2, EnterRecreateIInv

LEMMA ResumeCloseIInv ==
    ASSUME IInv, NEW p \in Closers, ResumeClose(p)
    PROVE  IInv'
<1>1. p \in Procs /\ lockQueue \in Seq(Procs)
  BY DEF IInv, TypeOK
<1>2. lockQueue # <<>> /\ Head(lockQueue) = p /\ EnterClose(p, lockQueue)
  BY DEF ResumeClose, Woken
<1> QED
  BY <1>1, <1>2, EnterCloseIInv

\* The second identity check: the session being closed is not open, so
\* clearing rest_session when it still is that session loses nothing open.
LEMMA CloseDoneIInv ==
    ASSUME IInv, NEW p \in Procs, CloseDone(p)
    PROVE  IInv'
<1>1. /\ lockQueue \in Seq(Procs) /\ lockQueue # <<>> /\ Head(lockQueue) = p
      /\ target[p] \notin open
  BY DEF IInv, TypeOK, HolderIsHead, ClosingIsClosed, CloseDone
<1>2. Forget(target[p]) \in OptSession /\ open \subseteq {Forget(target[p])}
  BY <1>1 DEF Forget, IInv, TypeOK, NoLeakedSession
<1> QED
  BY <1>1, <1>2, LeaveIInv DEF CloseDone

LEMMA CloseInterruptedIInv ==
    ASSUME IInv, NEW p \in Procs, CloseInterrupted(p)
    PROVE  IInv'
<1>1. lockQueue \in Seq(Procs) /\ lockQueue # <<>> /\ Head(lockQueue) = p
  BY DEF IInv, TypeOK, HolderIsHead, CloseInterrupted
<1>2. restSession \in OptSession /\ open \subseteq {restSession}
  BY DEF IInv, TypeOK, NoLeakedSession
<1> QED
  BY <1>1, <1>2, LeaveIInv DEF CloseInterrupted

LEMMA CancelWaitingIInv ==
    ASSUME IInv, NEW p \in Procs, CancelWaiting(p)
    PROVE  IInv'
<1>1. PICK i \in 1..Len(lockQueue) :
        lockQueue[i] = p /\ lockQueue' = RemoveAt(lockQueue, i)
  BY DEF CancelWaiting
<1>2. lockQueue \in Seq(Procs)
  BY DEF IInv, TypeOK
<1>3. TypeOK' /\ NoLeakedSession' /\ ClosingIsClosed'
  BY <1>1, <1>2, QueueRemove
     DEF IInv, TypeOK, NoLeakedSession, ClosingIsClosed, CancelWaiting, Return, Suspend
<1>4. HolderIsHead'
  <2> SUFFICES ASSUME NEW r \in Procs, pc'[r] = "closing"
               PROVE  lockQueue' # <<>> /\ Head(lockQueue') = r
    BY DEF HolderIsHead
  <2>1. r # p /\ pc[r] = "closing"
    BY DEF CancelWaiting, Return, Suspend, IInv, TypeOK
  <2>2. Head(lockQueue) = r /\ lockQueue[1] = r
    BY <1>1, <1>2, <2>1 DEF IInv, HolderIsHead
  <2>3. i # 1
    BY <1>1, <2>1, <2>2
  <2> QED
    BY <1>1, <1>2, <2>2, <2>3, QueueRemove
<1> QED
  BY <1>3, <1>4 DEF IInv

LEMMA StutterIInv == IInv /\ UNCHANGED vars => IInv'
BY DEF IInv, TypeOK, NoLeakedSession, HolderIsHead, ClosingIsClosed, vars

LEMMA NextIInv == IInv /\ [Next]_vars => IInv'
<1> SUFFICES ASSUME IInv, Next PROVE IInv'
  BY StutterIInv
<1>1. ASSUME NEW p \in Callers, CallerStep(p) PROVE IInv'
  BY <1>1, StartRequestIInv, RequestDoneIInv, RequestFailsIInv, ResumeRecreateIInv
     DEF CallerStep
<1>2. ASSUME NEW p \in Closers, CloserStep(p) PROVE IInv'
  BY <1>2, StartCloseIInv, ResumeCloseIInv DEF CloserStep
<1>3. ASSUME NEW p \in Procs, SectionStep(p) PROVE IInv'
  BY <1>3, CloseDoneIInv, CloseInterruptedIInv, CancelWaitingIInv DEF SectionStep
<1> QED
  BY <1>1, <1>2, <1>3 DEF Next

-----------------------------------------------------------------------------
\* The inductive invariant holds in every reachable state.
THEOREM Inductive == Spec => []IInv
BY InitIInv, NextIInv, PTL DEF Spec

\* Every variable keeps its type.
THEOREM TypeCorrect == Spec => []TypeOK
<1>1. IInv => TypeOK
  BY DEF IInv
<1> QED
  BY <1>1, Inductive, PTL

\* No session is left open that rest_session does not refer to.
THEOREM NoLeak == Spec => []NoLeakedSession
<1>1. IInv => NoLeakedSession
  BY DEF IInv
<1> QED
  BY <1>1, Inductive, PTL

\* At most one task is inside the section under _rest_session_lock.
THEOREM MutualExclusion == Spec => []OneTaskCloses
<1>1. IInv => OneTaskCloses
  BY DEF IInv, HolderIsHead, OneTaskCloses
<1> QED
  BY <1>1, Inductive, PTL

-----------------------------------------------------------------------------
(* Which steps close a session, and which open one.                          *)

LEMMA EnterRecreateEffect ==
    ASSUME NEW p \in Procs, NEW t \in OptSession, NEW q, EnterRecreate(p, t, q)
    PROVE  open' = open \/ (restSession = t /\ t \in open /\ open' = open \ {t})
BY DEF EnterRecreate, BeginClose, Leave

LEMMA EnterCloseEffect ==
    ASSUME NEW p \in Procs, NEW q, EnterClose(p, q)
    PROVE  open' = open \/ (restSession \in open /\ open' = open \ {restSession})
BY DEF EnterClose, BeginClose, Leave

\* Every step either leaves the open sessions alone, opens a session when the
\* current one is not open, or closes the current session: by a closer, or by
\* a caller whose request was made on it.
LEMMA StepOnOpen ==
    ASSUME IInv, [Next]_vars
    PROVE  \/ open' = open
           \/ restSession \notin open /\ \E s \in Sessions : open' = open \cup {s}
           \/ /\ restSession \in open
              /\ open' = open \ {restSession}
              /\ \E p \in Procs : /\ pc[p] # pc'[p]
                                  /\ p \in Closers \/ target[p] = restSession
<1> DEFINE Effect ==
        \/ open' = open
        \/ restSession \notin open /\ \E s \in Sessions : open' = open \cup {s}
        \/ /\ restSession \in open
           /\ open' = open \ {restSession}
           /\ \E p \in Procs : /\ pc[p] # pc'[p]
                               /\ p \in Closers \/ target[p] = restSession
<1>1. ASSUME NEW p \in Callers, NEW q, pc[p] \in {"inflight", "waiting"},
             EnterRecreate(p, target[p], q)
      PROVE  Effect
  <2>1. target[p] \in OptSession /\ p \in Procs
    BY DEF IInv, TypeOK
  <2>2. pc' = [pc EXCEPT ![p] = pc'[p]] /\ pc'[p] \in {"idle", "closing"}
    BY <1>1, <2>1
       DEF EnterRecreate, BeginClose, Leave, Return, Suspend, IInv, TypeOK
  <2> QED
    BY <1>1, <2>1, <2>2, EnterRecreateEffect
<1>2. ASSUME NEW p \in Closers, NEW q, pc[p] \in {"idle", "waiting"},
             EnterClose(p, q)
      PROVE  Effect
  <2>1. p \in Procs
    OBVIOUS
  <2>2. CASE restSession \in open /\ BeginClose(p, restSession, q)
    BY <1>2, <2>1, <2>2 DEF BeginClose, Suspend, IInv, TypeOK
  <2>3. CASE restSession \notin open /\ Leave(p, NoSession, q)
    BY <2>3 DEF Leave
  <2> QED
    BY <1>2, <2>2, <2>3 DEF EnterClose
<1>3. ASSUME NEW p \in Callers, CallerStep(p)
      PROVE  Effect
  <2>1. CASE StartRequest(p)
    BY <2>1 DEF StartRequest, NewSession
  <2>2. CASE RequestDone(p)
    BY <2>2 DEF RequestDone
  <2>3. CASE RequestFails(p)
    BY <1>1, <2>3 DEF RequestFails, WaitForLock
  <2>4. CASE ResumeRecreate(p)
    <3>1. pc[p] = "waiting" /\ EnterRecreate(p, target[p], lockQueue)
      BY <2>4 DEF ResumeRecreate, Woken
    <3> HIDE DEF Effect
    <3> QED
      BY <1>1, <3>1
  <2> QED
    BY <1>3, <2>1, <2>2, <2>3, <2>4 DEF CallerStep
<1>4. ASSUME NEW p \in Closers, CloserStep(p)
      PROVE  Effect
  BY <1>2, <1>4 DEF CloserStep, StartClose, ResumeClose, Woken, WaitForLock
<1>5. ASSUME NEW p \in Procs, SectionStep(p)
      PROVE  Effect
  BY <1>5 DEF SectionStep, CloseDone, CloseInterrupted, CancelWaiting, Leave
<1>6. CASE UNCHANGED vars
  BY <1>6 DEF vars
<1> QED
  BY <1>3, <1>4, <1>5, <1>6 DEF Next

\* A session is closed only by close() or by a task whose own request failed
\* on that session.
THEOREM ClosedByUser == Spec => ClosedOnlyByItsUser
<1> DEFINE A == \A s \in open \ open' :
                  \E p \in Procs : /\ pc[p] # pc'[p]
                                   /\ p \in Closers \/ target[p] = s
<1>1. ASSUME IInv, [Next]_vars
      PROVE  A
  <2> SUFFICES ASSUME NEW s \in open \ open'
               PROVE  \E p \in Procs : /\ pc[p] # pc'[p]
                                       /\ p \in Closers \/ target[p] = s
    OBVIOUS
  <2>1. s = restSession
    BY <1>1 DEF IInv, NoLeakedSession
  <2>2. PICK p \in Procs : /\ pc[p] # pc'[p]
                           /\ p \in Closers \/ target[p] = restSession
    BY <1>1, StepOnOpen
  <2>3. p \in Closers \/ target[p] = s
    BY <2>1, <2>2
  <2> QED
    BY <2>2, <2>3
<1>2. IInv /\ [Next]_vars => [A]_vars
  BY <1>1
<1> QED
  BY <1>2, Inductive, PTL DEF Spec, ClosedOnlyByItsUser

\* A cleanup that ran to its end leaves the failed session closed.
THEOREM CleanupRetires == Spec => CleanupRetiresSession
<1> DEFINE A == \A p \in Callers :
                  RequestFails(p) \/ ResumeRecreate(p) \/ CloseDone(p)
                    => (pc'[p] # "waiting" => target[p] \notin open')
<1>1. ASSUME IInv, NEW p \in Callers, NEW q, EnterRecreate(p, target[p], q)
      PROVE  target[p] \notin open'
  BY <1>1 DEF EnterRecreate, BeginClose, Leave, IInv, NoLeakedSession
<1>2. ASSUME IInv, NEW p \in Callers, WaitForLock(p, target[p])
      PROVE  pc'[p] = "waiting"
  BY <1>2 DEF WaitForLock, Suspend, IInv, TypeOK
<1>3. ASSUME IInv, NEW p \in Callers, CloseDone(p)
      PROVE  target[p] \notin open'
  BY <1>3 DEF CloseDone, Leave, IInv, ClosingIsClosed
<1>4. IInv => A
  BY <1>1, <1>2, <1>3 DEF RequestFails, ResumeRecreate
<1>5. IInv => [A]_vars
  BY <1>4
<1> QED
  BY <1>5, Inductive, PTL DEF CleanupRetiresSession

\* The shared session implements one slot that is emptied before it is filled.
THEOREM Refinement == Spec => OneSessionSpec
<1>1. Init => Slot!Init
  BY DEF Init, Slot!Init
<1>2. IInv /\ [Next]_vars => [Slot!Next]_open
  <2> SUFFICES ASSUME IInv, [Next]_vars, open' # open
               PROVE  Slot!Next
    OBVIOUS
  <2>1. CASE restSession \notin open /\ \E s \in Sessions : open' = open \cup {s}
    BY <2>1 DEF IInv, NoLeakedSession, Slot!Next, Slot!Open
  <2>2. CASE restSession \in open /\ open' = open \ {restSession}
    BY <2>2 DEF IInv, NoLeakedSession, Slot!Next, Slot!Close
  <2> QED
    BY <2>1, <2>2, StepOnOpen
<1> QED
  BY <1>1, <1>2, Inductive, PTL DEF Spec, OneSessionSpec, Slot!Spec
=============================================================================
