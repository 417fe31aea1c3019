-------------------------- MODULE JwtToken_proofs ---------------------------
(***************************************************************************)
(* Proofs about JwtToken for every set of tasks and every time to live.    *)
(***************************************************************************)
EXTENDS JwtToken, SequenceTheorems, TLAPS

-----------------------------------------------------------------------------
(* The queue of an asyncio.Lock, with its holder at the head.                *)

\* What acquiring and releasing the lock do to the queue.
LEMMA QueueTail ==
    ASSUME NEW S, NEW q \in Seq(S), q # <<>>
    PROVE  Tail(q) \in Seq(S)
BY HeadTailProperties

LEMMA QueueAppend ==
    ASSUME NEW S, NEW q \in Seq(S), NEW p \in S, q # <<>>
    PROVE  /\ Append(q, p) \in Seq(S)
           /\ Append(q, p) # <<>>
           /\ Head(Append(q, p)) = Head(q)
BY AppendProperties

LEMMA QueueOfOne ==
    ASSUME NEW S, NEW p \in S
    PROVE  <<p>> \in Seq(S) /\ <<p>> # <<>> /\ Head(<<p>>) = p
OBVIOUS

\* A waiter that is not at the head can leave the queue without changing who
\* holds the lock.
LEMMA QueueRemove ==
    ASSUME NEW S, NEW q \in Seq(S), NEW i \in 1..Len(q)
    PROVE  /\ RemoveAt(q, i) \in Seq(S)
           /\ i # 1 => RemoveAt(q, i) # <<>> /\ Head(RemoveAt(q, i)) = Head(q)
<1>1. RemoveAt(q, i) = SubSeq(q, 1, i-1) \o SubSeq(q, i+1, Len(q))
  BY DEF RemoveAt
<1>2. SubSeq(q, 1, i-1) \in Seq(S) /\ SubSeq(q, i+1, Len(q)) \in Seq(S)
  BY SubSeqProperties
<1>3. RemoveAt(q, i) \in Seq(S)
  BY <1>1, <1>2, ConcatProperties
<1>4. ASSUME i # 1
      PROVE  RemoveAt(q, i) # <<>> /\ Head(RemoveAt(q, i)) = Head(q)
  <2>1. Len(SubSeq(q, 1, i-1)) = i-1 /\ SubSeq(q, 1, i-1)[1] = q[1]
    BY <1>4, SubSeqProperties
  <2>2. ASSUME NEW a \in Seq(S), NEW b \in Seq(S), Len(a) > 0
        PROVE  Len(a \o b) > 0 /\ (a \o b)[1] = a[1]
    BY <2>2, ConcatProperties, LenProperties
  <2> DEFINE front == SubSeq(q, 1, i-1)
             back == SubSeq(q, i+1, Len(q))
  <2>3. front \in Seq(S) /\ back \in Seq(S) /\ Len(front) > 0 /\ front[1] = q[1]
    BY <1>2, <1>4, <2>1
  <2>4. RemoveAt(q, i) = front \o back
    BY <1>1
  <2> HIDE DEF front, back
  <2>5. Len(RemoveAt(q, i)) > 0 /\ RemoveAt(q, i)[1] = q[1]
    BY <2>2, <2>3, <2>4
  <2> QED
    BY <1>3, <2>5
<1> QED
  BY <1>3, <1>4

-----------------------------------------------------------------------------
USE TTLAssumption, ProcsAssumption DEF Procs, OptSession

LEMMA InitLockInv == Init => LockInv
<1> SUFFICES ASSUME Init PROVE LockInv
  OBVIOUS
<1>1. TypeOK
  <2>1. age \in 0..TTL
    BY DEF Init
  <2>2. unlocked \in BOOLEAN
    BY DEF Init
  <2>3. lockQueue \in Seq(Callers)
    BY DEF Init
  <2> QED
    BY <2>1, <2>2, <2>3 DEF Init, TypeOK
<1>2. HolderIsHead /\ LockedRefreshNeeded
  BY DEF Init, HolderIsHead, LockedRefreshNeeded
<1>3. BadTokenNotServed /\ DroppedIsStale
  BY DEF Init, BadTokenNotServed, DroppedIsStale
<1> QED
  BY <1>1, <1>2, <1>3 DEF LockInv

LEMMA BeginRefreshType ==
    ASSUME TypeOK, NEW p \in Callers, NEW where \in {"refreshing", "direct"},
           BeginRefresh(p, where), lockQueue' \in Seq(Callers)
    PROVE  TypeOK'
BY DEF BeginRefresh, NewSession, GoTo, TypeOK, tokenVars

\* A refresh that ends: nobody else holds the lock if it was made under it.
LEMMA EndRefreshType ==
    ASSUME TypeOK, HolderIsHead, NEW p \in Callers, Refreshing(p),
           NEW where \in {"idle", "signed"}, EndRefresh(p, where),
           token' \in {"none", "good", "bad"}, age' \in 0..TTL, unlocked' \in BOOLEAN
    PROVE  TypeOK'
<1>1. lockQueue' \in Seq(Callers)
  BY QueueTail DEF EndRefresh, TypeOK, HolderIsHead
<1> QED
  BY <1>1 DEF EndRefresh, GoTo, TypeOK

LEMMA EndRefreshLock ==
    ASSUME TypeOK, HolderIsHead, NEW p \in Callers, Refreshing(p),
           NEW where \in {"idle", "signed"}, EndRefresh(p, where)
    PROVE  /\ HolderIsHead'
           /\ \A q \in Callers : pc'[q] = "refreshing" =>
                 pc[q] = "refreshing" /\ pc[p] = "direct"
BY DEF EndRefresh, GoTo, TypeOK, HolderIsHead, Refreshing

LEMMA RefreshEndsLockInv ==
    ASSUME LockInv, NEW p \in Callers, RefreshEnds(p)
    PROVE  LockInv'
<1> DEFINE where == IF pc[p] = "refreshing" THEN "signed" ELSE "idle"
<1>0. TypeOK /\ HolderIsHead /\ Refreshing(p) /\ pc[p] \in {"refreshing", "direct"}
  BY DEF LockInv, RefreshEnds, RefreshOk, RefreshUndecodable, RefreshRefused,
         RefreshAborted, Refreshing
<1>1. CASE RefreshOk(p)
  <2>1. TypeOK'
    BY <1>0, <1>1, EndRefreshType DEF RefreshOk
  <2>2. HolderIsHead' /\ LockedRefreshNeeded'
    BY <1>0, <1>1, EndRefreshLock DEF RefreshOk, LockedRefreshNeeded
  <2> QED
    BY <1>1, <2>1, <2>2 DEF RefreshOk, LockInv, BadTokenNotServed, DroppedIsStale
<1>2. CASE RefreshUndecodable(p)
  <2>1. TypeOK'
    BY <1>0, <1>2, EndRefreshType DEF RefreshUndecodable, TypeOK
  <2>2. HolderIsHead' /\ LockedRefreshNeeded'
    BY <1>0, <1>2, EndRefreshLock DEF RefreshUndecodable, LockedRefreshNeeded
  <2>3. BadTokenNotServed'
    <3>1. CASE pc[p] = "direct"
      BY <1>2, <3>1 DEF RefreshUndecodable, BadTokenNotServed
    <3>2. CASE pc[p] = "refreshing"
      <4>1. age < TTL => Fresh
        BY DEF LockInv, TypeOK, DroppedIsStale, Fresh
      <4>2. age < TTL => unlocked
        BY <3>2, <4>1 DEF LockInv, LockedRefreshNeeded
      <4> QED
        BY <1>2, <4>2 DEF RefreshUndecodable, BadTokenNotServed, Fresh
    <3> QED
      BY <1>0, <3>1, <3>2
  <2> QED
    BY <1>2, <2>1, <2>2, <2>3 DEF RefreshUndecodable, LockInv, DroppedIsStale
<1>3. CASE RefreshRefused(p)
  <2>1. TypeOK'
    BY <1>0, <1>3, EndRefreshType DEF RefreshRefused, TypeOK
  <2>2. HolderIsHead'
    BY <1>0, <1>3, EndRefreshLock DEF RefreshRefused
  <2> QED
    BY <1>3, <2>1, <2>2
       DEF RefreshRefused, LockInv, LockedRefreshNeeded, BadTokenNotServed, DroppedIsStale, Fresh
<1>4. CASE RefreshAborted(p)
  <2>1. TypeOK'
    BY <1>0, <1>4, EndRefreshType DEF RefreshAborted, tokenVars, TypeOK
  <2>2. HolderIsHead' /\ \A q \in Callers : pc'[q] = "refreshing" => pc[q] = "refreshing"
    BY <1>0, <1>4, EndRefreshLock DEF RefreshAborted
  <2> QED
    BY <1>4, <2>1, <2>2
       DEF RefreshAborted, tokenVars, LockInv, LockedRefreshNeeded, BadTokenNotServed,
           DroppedIsStale, Fresh
<1> QED
  BY <1>1, <1>2, <1>3, <1>4 DEF RefreshEnds

\* Steps that set neither the token nor its age, and let nobody new into the
\* section, or only while the token is stale.
LEMMA TokenKept ==
    ASSUME LockInv, UNCHANGED tokenVars, TypeOK', HolderIsHead',
           \A q \in Callers :
              pc'[q] = "refreshing" => pc[q] = "refreshing" \/ ~Fresh
    PROVE  LockInv'
BY DEF tokenVars, LockInv, LockedRefreshNeeded, BadTokenNotServed, DroppedIsStale, Fresh

LEMMA EnsureStaleLockInv ==
    ASSUME LockInv, NEW p \in Callers, EnsureStale(p)
    PROVE  LockInv'
<1>1. CASE lockQueue = <<>>
  <2>1. lockQueue' = <<p>>
    BY <1>1 DEF EnsureStale
  <2>2. TypeOK' /\ UNCHANGED tokenVars
    BY <1>1, <2>1, QueueOfOne, BeginRefreshType DEF EnsureStale, BeginRefresh, LockInv
  <2>3. HolderIsHead'
    BY <1>1, <2>1, QueueOfOne
       DEF EnsureStale, BeginRefresh, GoTo, LockInv, TypeOK, HolderIsHead
  <2> QED
    BY <1>1, <2>2, <2>3, TokenKept DEF EnsureStale
<1>2. CASE lockQueue # <<>>
  <2>1. /\ lockQueue' \in Seq(Callers) /\ lockQueue' # <<>>
        /\ Head(lockQueue') = Head(lockQueue)
    BY <1>2, QueueAppend DEF EnsureStale, LockInv, TypeOK
  <2>2. UNCHANGED tokenVars /\ UNCHANGED sessionVars /\ pc' = [pc EXCEPT ![p] = "waiting"]
    BY <1>2 DEF EnsureStale, GoTo
  <2>3. TypeOK' /\ HolderIsHead'
    BY <2>1, <2>2 DEF tokenVars, sessionVars, LockInv, TypeOK, HolderIsHead
  <2> QED
    BY <2>2, <2>3, TokenKept DEF LockInv, TypeOK
<1> QED
  BY <1>1, <1>2

LEMMA EnsureResumedLockInv ==
    ASSUME LockInv, NEW p \in Callers, EnsureResumed(p)
    PROVE  LockInv'
<1>1. CASE Fresh /\ lockQueue' = Tail(lockQueue)
  <2>1. /\ pc' = [pc EXCEPT ![p] = "signed"]
        /\ UNCHANGED tokenVars /\ UNCHANGED sessionVars
    BY <1>1 DEF EnsureResumed, GoTo
  <2>2. TypeOK' /\ HolderIsHead'
    BY <1>1, <2>1, QueueTail
       DEF EnsureResumed, tokenVars, sessionVars, LockInv, TypeOK, HolderIsHead
  <2> QED
    BY <2>1, <2>2, TokenKept DEF LockInv, TypeOK
<1>2. CASE ~Fresh
  <2>1. /\ BeginRefresh(p, "refreshing") /\ lockQueue' = lockQueue
        /\ lockQueue # <<>> /\ Head(lockQueue) = p
    BY <1>2 DEF EnsureResumed
  <2>2. TypeOK' /\ UNCHANGED tokenVars
    BY <2>1, BeginRefreshType DEF BeginRefresh, LockInv, TypeOK
  <2>3. HolderIsHead'
    BY <2>1 DEF BeginRefresh, GoTo, LockInv, TypeOK, HolderIsHead
  <2> QED
    BY <1>2, <2>2, <2>3, TokenKept
<1> QED
  BY <1>1, <1>2 DEF EnsureResumed

LEMMA CancelWaitingLockInv ==
    ASSUME LockInv, NEW p \in Callers, CancelWaiting(p)
    PROVE  LockInv'
<1>1. PICK i \in 1..Len(lockQueue) :
        lockQueue[i] = p /\ lockQueue' = RemoveAt(lockQueue, i)
  BY DEF CancelWaiting
<1>2. /\ lockQueue \in Seq(Callers) /\ pc[p] = "waiting"
      /\ pc' = [pc EXCEPT ![p] = "idle"]
      /\ UNCHANGED tokenVars /\ UNCHANGED sessionVars
  BY DEF CancelWaiting, GoTo, LockInv, TypeOK
<1>3. TypeOK'
  BY <1>1, <1>2, QueueRemove DEF tokenVars, sessionVars, LockInv, TypeOK
<1>4. HolderIsHead'
  <2> SUFFICES ASSUME NEW r \in Callers, pc'[r] = "refreshing"
               PROVE  lockQueue' # <<>> /\ Head(lockQueue') = r
    BY DEF HolderIsHead
  <2>1. r # p /\ pc[r] = "refreshing"
    BY <1>2 DEF LockInv, TypeOK
  <2>2. Head(lockQueue) = r /\ lockQueue[1] = r
    BY <1>1, <1>2, <2>1 DEF LockInv, HolderIsHead
  <2>3. i # 1
    BY <1>1, <2>1, <2>2
  <2> QED
    BY <1>1, <1>2, <2>2, <2>3, QueueRemove
<1> QED
  BY <1>2, <1>3, <1>4, TokenKept DEF LockInv, TypeOK

LEMMA CachedOrAnsweredLockInv ==
    ASSUME LockInv, NEW p \in Callers, EnsureCached(p) \/ Answered(p)
    PROVE  LockInv'
<1>1. /\ UNCHANGED tokenVars /\ UNCHANGED sessionVars /\ lockQueue' = lockQueue
      /\ pc' = [pc EXCEPT ![p] = "signed"] \/ pc' = [pc EXCEPT ![p] = "idle"]
      /\ pc[p] # "refreshing"
  BY DEF EnsureCached, Answered, GoTo
<1>2. TypeOK' /\ HolderIsHead'
  BY <1>1 DEF tokenVars, sessionVars, LockInv, TypeOK, HolderIsHead
<1> QED
  BY <1>1, <1>2, TokenKept DEF LockInv, TypeOK

LEMMA UnauthorizedLockInv ==
    ASSUME LockInv, NEW p \in Callers, Unauthorized(p)
    PROVE  LockInv'
<1>1. BeginRefresh(p, "direct") /\ lockQueue' = lockQueue /\ pc[p] = "signed"
  BY DEF Unauthorized
<1>2. TypeOK' /\ UNCHANGED tokenVars
  BY <1>1, BeginRefreshType DEF BeginRefresh, LockInv, TypeOK
<1>3. HolderIsHead' /\ \A q \in Callers : pc'[q] = "refreshing" => pc[q] = "refreshing"
  BY <1>1 DEF BeginRefresh, GoTo, LockInv, TypeOK, HolderIsHead
<1> QED
  BY <1>2, <1>3, TokenKept

LEMMA CloserLockInv ==
    ASSUME LockInv, NEW k \in Closers, StartClose(k) \/ CloseDone(k) \/ CloseInterrupted(k)
    PROVE  LockInv'
<1>1. /\ UNCHANGED tokenVars /\ lockQueue' = lockQueue /\ using' = using
      /\ pc' = [pc EXCEPT ![k] = "closing"] \/ pc' = [pc EXCEPT ![k] = "idle"]
      /\ jwtSession' \in OptSession /\ open' \subseteq Sessions
  BY DEF StartClose, CloseDone, CloseInterrupted, GoTo, sessionVars, tokenVars, LockInv, TypeOK
<1>2. \A q \in Callers : pc'[q] = pc[q]
  BY <1>1 DEF LockInv, TypeOK
<1>3. TypeOK' /\ HolderIsHead'
  BY <1>1, <1>2 DEF tokenVars, LockInv, TypeOK, HolderIsHead
<1> QED
  BY <1>1, <1>2, <1>3, TokenKept

\* Time only makes a token stale.
LEMMA TickLockInv == LockInv /\ Tick => LockInv'
<1> SUFFICES ASSUME LockInv, Tick PROVE LockInv'
  OBVIOUS
<1>1. TypeOK' /\ HolderIsHead'
  BY DEF Tick, sessionVars, LockInv, TypeOK, HolderIsHead
<1>2. age' = age + 1 /\ token' = token /\ unlocked' = unlocked /\ pc' = pc
      /\ age < TTL /\ age \in 0..TTL
  BY DEF Tick, LockInv, TypeOK
<1>3. token # "none" /\ Fresh
  BY <1>2 DEF LockInv, DroppedIsStale, Fresh
<1>4. LockedRefreshNeeded' /\ BadTokenNotServed' /\ DroppedIsStale'
  BY <1>2, <1>3 DEF LockInv, LockedRefreshNeeded, BadTokenNotServed, DroppedIsStale
<1> QED
  BY <1>1, <1>4 DEF LockInv

LEMMA NextLockInv == LockInv /\ [Next]_vars => LockInv'
<1> SUFFICES ASSUME LockInv, [Next]_vars PROVE LockInv'
  OBVIOUS
<1>1. CASE UNCHANGED vars
  BY <1>1 DEF vars, tokenVars, sessionVars, LockInv, TypeOK, HolderIsHead,
              LockedRefreshNeeded, BadTokenNotServed, DroppedIsStale, Fresh
<1> QED
  BY <1>1, EnsureStaleLockInv, EnsureResumedLockInv, CancelWaitingLockInv, CachedOrAnsweredLockInv,
     UnauthorizedLockInv, RefreshEndsLockInv, CloserLockInv, TickLockInv DEF Next

-----------------------------------------------------------------------------
(* The sessions of the refreshes                                             *)

\* A refresh begins on the session of the client, or on a new one when that
\* one is closed: whatever else is open belongs to another refresh.
LEMMA BeginRefreshReferenced ==
    ASSUME TypeOK, SessionsReferenced, NEW p \in Callers, ~Refreshing(p),
           NEW where \in {"refreshing", "direct"}, BeginRefresh(p, where)
    PROVE  SessionsReferenced'
<1>1. /\ pc' = [pc EXCEPT ![p] = where] /\ using' = [using EXCEPT ![p] = jwtSession']
      /\ jwtSession' = jwtSession \/ jwtSession \notin open
      /\ open' \subseteq open \cup {jwtSession'}
  BY DEF BeginRefresh, GoTo
<1>2. using[p] \notin open
  BY NoSessionAssumption DEF TypeOK, SessionsReferenced
<1>3. \A q \in Callers : Refreshing(q)' \/ using'[q] = NoSession
  BY <1>1 DEF Refreshing, SessionsReferenced, TypeOK
<1>4. \A q \in Callers : q # p => using'[q] = using[q]
  BY <1>1 DEF TypeOK
<1>5. open' \subseteq {jwtSession'} \cup {using'[q] : q \in Callers}
  <2> SUFFICES ASSUME NEW s \in open, s # jwtSession'
               PROVE  \E q \in Callers : s = using'[q]
    BY <1>1
  <2>1. PICK q \in Callers : s = using[q]
    BY <1>1 DEF SessionsReferenced
  <2> QED
    BY <1>2, <1>4, <2>1
<1> QED
  BY <1>3, <1>5 DEF SessionsReferenced

LEMMA EndRefreshReferenced ==
    ASSUME TypeOK, SessionsReferenced, NEW p \in Callers,
           NEW where \in {"idle", "signed"}, EndRefresh(p, where)
    PROVE  SessionsReferenced'
BY DEF EndRefresh, GoTo, Refreshing, SessionsReferenced, TypeOK

\* The steps of a call that touch no session.
LEMMA MoveReferenced ==
    ASSUME TypeOK, SessionsReferenced, UNCHANGED sessionVars, NEW p \in Callers,
           ~Refreshing(p), pc' = [pc EXCEPT ![p] = pc'[p]]
    PROVE  SessionsReferenced'
BY DEF sessionVars, Refreshing, SessionsReferenced, TypeOK

LEMMA CallerReferenced ==
    ASSUME TypeOK, SessionsReferenced, NEW p \in Callers,
           \/ EnsureCached(p) \/ EnsureStale(p) \/ EnsureResumed(p) \/ CancelWaiting(p)
           \/ Answered(p) \/ Unauthorized(p)
    PROVE  SessionsReferenced'
<1>1. ~Refreshing(p)
  BY DEF EnsureCached, EnsureStale, EnsureResumed, CancelWaiting, Answered, Unauthorized,
         Refreshing
<1>2. \/ BeginRefresh(p, "refreshing") \/ BeginRefresh(p, "direct")
      \/ UNCHANGED sessionVars /\ pc' = [pc EXCEPT ![p] = pc'[p]]
  BY DEF EnsureCached, EnsureStale, EnsureResumed, CancelWaiting, Answered, Unauthorized,
         GoTo, TypeOK
<1> QED
  BY <1>1, <1>2, BeginRefreshReferenced, MoveReferenced

LEMMA CloserReferenced ==
    ASSUME TypeOK, SessionsReferenced, NEW k \in Closers,
           StartClose(k) \/ CloseDone(k) \/ CloseInterrupted(k)
    PROVE  SessionsReferenced'
<1>1. \A q \in Callers : pc'[q] = pc[q]
  BY DEF StartClose, CloseDone, CloseInterrupted, GoTo, TypeOK
<1>2. /\ using' = using
      /\ \/ jwtSession' = jwtSession /\ open' \subseteq open
         \/ open' \subseteq {using[q] : q \in Callers}
  BY DEF StartClose, CloseDone, CloseInterrupted, sessionVars
<1> QED
  BY <1>1, <1>2 DEF Refreshing, SessionsReferenced

LEMMA NextReferenced == TypeOK /\ SessionsReferenced /\ [Next]_vars => SessionsReferenced'
<1> SUFFICES ASSUME TypeOK, SessionsReferenced, [Next]_vars PROVE SessionsReferenced'
  OBVIOUS
<1>1. CASE UNCHANGED vars \/ Tick
  BY <1>1 DEF vars, sessionVars, Tick, Refreshing, SessionsReferenced
<1>2. ASSUME NEW p \in Callers, RefreshEnds(p) PROVE SessionsReferenced'
  BY <1>2, EndRefreshReferenced
     DEF RefreshEnds, RefreshOk, RefreshUndecodable, RefreshRefused, RefreshAborted
<1> QED
  BY <1>1, <1>2, CallerReferenced, CloserReferenced DEF Next

LEMMA InitIInv == Init => IInv
BY InitLockInv DEF Init, SessionsReferenced, IInv

LEMMA NextIInv == IInv /\ [Next]_vars => IInv'
BY NextLockInv, NextReferenced DEF IInv, LockInv

-----------------------------------------------------------------------------
\* The inductive invariant holds in every reachable state.
THEOREM Inductive == Spec => []IInv
BY InitIInv, NextIInv, PTL DEF Spec

\* A refresh under the lock is in flight only while the token is stale, unless
\* a refresh after a 401 went past the lock.
THEOREM DoubleCheck == Spec => []LockedRefreshNeeded
<1>1. IInv => LockedRefreshNeeded
  BY DEF IInv, LockInv
<1> QED
  BY <1>1, Inductive, PTL

\* At most one refresh is made under the lock at any time.
THEOREM MutualExclusion == Spec => []OneLockedRefresh
<1>1. IInv => OneLockedRefresh
  BY DEF IInv, LockInv, HolderIsHead, OneLockedRefresh
<1> QED
  BY <1>1, Inductive, PTL

\* The lock path never serves a token it could not decode.
THEOREM DecodableToken == Spec => []BadTokenNotServed
<1>1. IInv => BadTokenNotServed
  BY DEF IInv, LockInv
<1> QED
  BY <1>1, Inductive, PTL

\* Whoever gets a token from _ensure_jwt_token gets a fresh one.
THEOREM FreshSignature == Spec => SignedWithFreshToken
<1> DEFINE A == \A p \in Callers : pc[p] # "signed" /\ pc'[p] = "signed" => Fresh'
<1>1. ASSUME IInv, NEW p \in Callers, NEW q \in Callers, pc[p] # "signed", pc'[p] = "signed",
             \/ EnsureCached(q) \/ EnsureStale(q) \/ EnsureResumed(q) \/ CancelWaiting(q)
             \/ Answered(q) \/ Unauthorized(q)
      PROVE  Fresh'
  <2>1. EnsureCached(q) \/ (EnsureResumed(q) /\ Fresh /\ UNCHANGED tokenVars)
    BY <1>1 DEF IInv, LockInv, TypeOK, EnsureCached, EnsureStale, EnsureResumed, CancelWaiting,
                Answered, Unauthorized, BeginRefresh, GoTo
  <2> QED
    BY <2>1 DEF EnsureCached, tokenVars, Fresh
<1>2. ASSUME IInv, NEW p \in Callers, NEW q \in Callers, pc[p] # "signed", pc'[p] = "signed",
             RefreshEnds(q)
      PROVE  Fresh'
  <2>1. RefreshOk(q)
    BY <1>2 DEF RefreshEnds, RefreshUndecodable, RefreshRefused, RefreshAborted, EndRefresh,
                GoTo, IInv, LockInv, TypeOK
  <2> QED
    BY <2>1 DEF RefreshOk, Fresh
<1>3. ASSUME IInv, NEW p \in Callers, NEW k \in Closers, pc[p] # "signed", pc'[p] = "signed"
      PROVE  ~(StartClose(k) \/ CloseDone(k) \/ CloseInterrupted(k))
  BY <1>3 DEF IInv, LockInv, TypeOK, StartClose, CloseDone, CloseInterrupted, GoTo
<1>4. ASSUME NEW p \in Callers, pc[p] # "signed", pc'[p] = "signed"
      PROVE  ~Tick
  BY <1>4 DEF Tick
<1>5. IInv /\ [Next]_vars => [A]_vars
  BY <1>1, <1>2, <1>3, <1>4 DEF Next
<1> QED
  BY <1>5, Inductive, PTL DEF Spec, SignedWithFreshToken
=============================================================================
