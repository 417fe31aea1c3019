-------------------------- MODULE WsManager_proofs --------------------------
(***************************************************************************)
(* Proofs about WsManager for every set of subscriptions and both values   *)
(* of auto_reconnect.                                                      *)
(***************************************************************************)
EXTENDS WsManager, TLAPS

USE DEF Outcomes, Exceptions

LEMMA InitIInv == Init => IInv
BY DEF Init, IInv, TypeOK, LoopInGroup, WsOfRun, ResubscribedBeforeData,
       OpenUnlessClosing, NoOrphanConnection, EndsDisconnected

LEMMA StutterIInv == IInv /\ UNCHANGED vars => IInv'
BY DEF vars, IInv, TypeOK, LoopInGroup, WsOfRun, ResubscribedBeforeData,
       OpenUnlessClosing, NoOrphanConnection, EndsDisconnected

\* Up to the connection.
LEMMA ConnectIInv ==
    IInv /\ (Start \/ Connect \/ Connected \/ ConnectFails) => IInv'
BY DEF Start, Connect, Connected, ConnectFails,
       IInv, TypeOK, LoopInGroup, WsOfRun, ResubscribedBeforeData,
       OpenUnlessClosing, NoOrphanConnection, EndsDisconnected

\* main_loop goes on, or ends with an exception.
LEMMA LoopToIInv ==
    ASSUME IInv, loop # "off", NEW where \in {"subscribing", "receiving", "callback"},
           LoopTo(where), subscribed' = subscribed,
           where # "subscribing" => subscribed = Subs
    PROVE  IInv'
BY DEF LoopTo, IInv, TypeOK, LoopInGroup, WsOfRun, ResubscribedBeforeData,
       OpenUnlessClosing, NoOrphanConnection, EndsDisconnected

LEMMA LoopRaisesIInv ==
    ASSUME IInv, loop # "off", NEW e \in Exceptions \cup {"malformed"}, LoopRaises(e)
    PROVE  IInv'
BY DEF LoopRaises, IInv, TypeOK, LoopInGroup, WsOfRun, ResubscribedBeforeData,
       OpenUnlessClosing, NoOrphanConnection, EndsDisconnected

LEMMA SendSubscriptionIInv == IInv /\ SendSubscription => IInv'
BY DEF SendSubscription, IInv, TypeOK, LoopInGroup, WsOfRun, ResubscribedBeforeData,
       OpenUnlessClosing, NoOrphanConnection, EndsDisconnected

LEMMA LoopIInv == IInv /\ LoopStep => IInv'
<1> SUFFICES ASSUME IInv, LoopStep PROVE IInv'
  OBVIOUS
<1>1. CASE GetToken
  BY <1>1, LoopToIInv DEF GetToken
<1>2. CASE GetTokenFails
  BY <1>2, LoopRaisesIInv DEF GetTokenFails
<1>3. CASE SendSubscription
  BY <1>3, SendSubscriptionIInv
<1>4. CASE SendFails
  BY <1>4, LoopRaisesIInv DEF SendFails, ClosedUnderLoop
<1>5. CASE Receive
  <2>1. loop # "off" /\ subscribed = Subs
    BY <1>5 DEF Receive, IInv, ResubscribedBeforeData
  <2> QED
    BY <1>5, <2>1, LoopToIInv, LoopRaisesIInv DEF Receive, ClosedUnderLoop
<1>6. CASE Deliver
  <2>1. subscribed = Subs
    BY <1>6 DEF Deliver, IInv, ResubscribedBeforeData
  <2> QED
    BY <1>6, <2>1, LoopToIInv DEF Deliver
<1>7. CASE CallbackLogFails
  BY <1>7, LoopRaisesIInv DEF CallbackLogFails
<1>8. CASE Unauthorized
  BY <1>8, LoopRaisesIInv DEF Unauthorized
<1>9. CASE Malformed
  BY <1>9, LoopRaisesIInv DEF Malformed
<1>10. CASE ReceiveEnds
  BY <1>10, LoopRaisesIInv DEF ReceiveEnds
<1> QED
  BY <1>1, <1>2, <1>3, <1>4, <1>5, <1>6, <1>7, <1>8, <1>9, <1>10 DEF LoopStep

\* The end of the finally clause: a websocket is dropped only if closed, and
\* run() ends by itself only with a closed one.
LEMMA ProceedIInv ==
    ASSUME IInv, run \in {"connected", "closing"},
           NEW next \in Outcomes \cup {"reconnect"},
           NEW w \in {"closing", "closed"},
           next = "cancelled" \/ w = "closed",
           shut = "closing" => w \in {"closing", "closed"},
           Proceed(next, w), mode' = mode, exc' = exc,
           subscribed' = subscribed
    PROVE  IInv'
<1>1. TypeOK'
  BY DEF Proceed, IInv, TypeOK
<1>2. LoopInGroup' /\ ResubscribedBeforeData'
  BY DEF Proceed, LoopInGroup, ResubscribedBeforeData
<1>3. WsOfRun'
  BY DEF Proceed, IInv, TypeOK, WsOfRun
<1>4. NoOrphanConnection' /\ EndsDisconnected'
  BY DEF Proceed, IInv, NoOrphanConnection, EndsDisconnected
<1>5. OpenUnlessClosing'
  BY DEF Proceed, OpenUnlessClosing
<1> QED
  BY <1>1, <1>2, <1>3, <1>4, <1>5 DEF IInv

LEMMA FinallyIInv ==
    ASSUME IInv, run = "connected", NEW next \in Outcomes \cup {"reconnect"},
           Finally(next), mode' = mode, exc' = exc,
           subscribed' = subscribed
    PROVE  IInv'
<1>1. CASE IsOpen
  <2>1. /\ run' = "closing" /\ after' = next /\ ws' = "closing" /\ loop' = "off"
        /\ shut' = shut /\ orphan' = orphan
    BY <1>1 DEF Finally
  <2>2. TypeOK'
    BY <2>1 DEF IInv, TypeOK, Outcomes
  <2>3. LoopInGroup' /\ ResubscribedBeforeData' /\ EndsDisconnected' /\ OpenUnlessClosing'
    BY <2>1 DEF LoopInGroup, ResubscribedBeforeData, EndsDisconnected, OpenUnlessClosing
  <2>4. WsOfRun'
    BY <2>1 DEF WsOfRun, Outcomes
  <2>5. NoOrphanConnection'
    BY <2>1 DEF IInv, NoOrphanConnection
  <2> QED
    BY <2>2, <2>3, <2>4, <2>5 DEF IInv
<1>2. CASE ~IsOpen
  <2>1. ws = "closed"
    BY <1>2 DEF IsOpen, IInv, WsOfRun
  <2> QED
    BY <1>2, <2>1, ProceedIInv DEF Finally
<1> QED
  BY <1>1, <1>2

LEMMA GroupEndsIInv == IInv /\ GroupEnds => IInv'
BY FinallyIInv DEF GroupEnds, Classify

LEMMA FinallyClosedIInv == IInv /\ FinallyClosed => IInv'
<1> SUFFICES ASSUME IInv, FinallyClosed PROVE IInv'
  OBVIOUS
<1>1. after \in Outcomes \cup {"reconnect"}
  BY DEF FinallyClosed, IInv, TypeOK, WsOfRun
<1> QED
  BY <1>1, ProceedIInv DEF FinallyClosed

LEMMA CancelIInv == IInv /\ Cancel => IInv'
<1> SUFFICES ASSUME IInv, Cancel PROVE IInv'
  OBVIOUS
<1>1. CASE run \in {"created", "sleeping", "connecting"}
  BY <1>1 DEF Cancel, IInv, TypeOK, LoopInGroup, WsOfRun, ResubscribedBeforeData,
              OpenUnlessClosing, NoOrphanConnection, EndsDisconnected
<1>2. CASE run = "connected"
  BY <1>2, FinallyIInv DEF Cancel
<1>3. CASE run = "closing"
  <2>1. ws \in {"closing", "closed"}
    BY <1>3 DEF IInv, WsOfRun
  <2> QED
    BY <1>3, <2>1, ProceedIInv DEF Cancel
<1> QED
  BY <1>1, <1>2, <1>3 DEF Cancel

LEMMA ShutdownIInv == IInv /\ (Shutdown \/ ShutdownClosed \/ ShutdownInterrupted) => IInv'
<1> SUFFICES ASSUME IInv, Shutdown \/ ShutdownClosed \/ ShutdownInterrupted PROVE IInv'
  OBVIOUS
<1>1. CASE Shutdown
  BY <1>1 DEF Shutdown, IsOpen, IInv, TypeOK, LoopInGroup, WsOfRun,
              OpenUnlessClosing, ResubscribedBeforeData, NoOrphanConnection, EndsDisconnected
<1>2. CASE ShutdownClosed
  BY <1>2 DEF ShutdownClosed, IInv, TypeOK, LoopInGroup, WsOfRun,
              OpenUnlessClosing, ResubscribedBeforeData, NoOrphanConnection, EndsDisconnected
<1>3. CASE ShutdownInterrupted
  BY <1>3 DEF ShutdownInterrupted, IInv, TypeOK, LoopInGroup, WsOfRun,
              OpenUnlessClosing, ResubscribedBeforeData, NoOrphanConnection, EndsDisconnected
<1> QED
  BY <1>1, <1>2, <1>3

LEMMA NextIInv == IInv /\ [Next]_vars => IInv'
BY StutterIInv, ConnectIInv, LoopIInv, GroupEndsIInv, FinallyClosedIInv, CancelIInv,
   ShutdownIInv DEF Next

-----------------------------------------------------------------------------
\* The inductive invariant holds in every reachable state.
THEOREM Inductive == Spec => []IInv
BY InitIInv, NextIInv, PTL DEF Spec

\* No message is taken before every subscription was sent again.
THEOREM Resubscribed == Spec => []ResubscribedBeforeData
<1>1. IInv => ResubscribedBeforeData
  BY DEF IInv
<1> QED
  BY <1>1, Inductive, PTL

\* run() never drops a websocket that is not closed.
THEOREM NoOrphan == Spec => []NoOrphanConnection
<1>1. IInv => NoOrphanConnection
  BY DEF IInv
<1> QED
  BY <1>1, Inductive, PTL

\* A manager that ends by itself has closed its websocket.
THEOREM Disconnected == Spec => []EndsDisconnected
<1>1. IInv => EndsDisconnected
  BY DEF IInv
<1> QED
  BY <1>1, Inductive, PTL

-----------------------------------------------------------------------------
\* Refinement: every step of the manager is a step of the lifecycle its client
\* relies on, or none.
USE DEF Phase, Fate

LEMMA FinallyRefines ==
    ASSUME IInv, run = "connected", NEW next \in Outcomes \cup {"reconnect"},
           Finally(next), mode' = mode,
           next = "stop" => mode = "CLOSING",
           next = "reconnect" => mode # "CLOSING"
    PROVE  Lifecycle!Disconnect \/ Lifecycle!Cancel
<1>1. CASE IsOpen
  BY <1>1 DEF Finally, Lifecycle!Disconnect, Lifecycle!Cancel
<1>2. CASE ~IsOpen
  <2>1. ws = "closed"
    BY <1>2 DEF IsOpen, IInv, WsOfRun
  <2>2. mode = "CLOSING"
    BY <2>1 DEF IInv, OpenUnlessClosing
  <2> QED
    BY <1>2, <2>1, <2>2 DEF Finally, Proceed, Lifecycle!Disconnect, Lifecycle!Cancel
<1> QED
  BY <1>1, <1>2

LEMMA ProceedRefines ==
    ASSUME run = "closing", NEW w, Proceed(after, w), mode' = mode,
           after \in Outcomes \cup {"reconnect"}
    PROVE  Lifecycle!Left
BY DEF Proceed, Lifecycle!Left

LEMMA StepRefines ==
    ASSUME IInv, [Next]_vars
    PROVE  [Lifecycle!Next]_(Lifecycle!vars)
<1>1. CASE UNCHANGED vars
  BY <1>1 DEF vars, Lifecycle!vars
<1>2. CASE Start
  BY <1>2 DEF Start, Lifecycle!Next, Lifecycle!Start
<1>3. CASE Connect
  BY <1>3 DEF Connect, Lifecycle!vars
<1>4. CASE Connected
  BY <1>4 DEF Connected, Lifecycle!Next, Lifecycle!Connect
<1>5. CASE ConnectFails
  BY <1>5 DEF ConnectFails, Lifecycle!Next, Lifecycle!Fail
<1>6. CASE LoopStep
  BY <1>6 DEF LoopStep, GetToken, GetTokenFails, SendSubscription, SendFails, Receive,
              Deliver, CallbackLogFails, Unauthorized, Malformed, ReceiveEnds,
              LoopTo, LoopRaises, ClosedUnderLoop, Lifecycle!vars
<1>7. CASE GroupEnds
  BY <1>7, FinallyRefines DEF GroupEnds, Classify, Lifecycle!Next
<1>8. CASE FinallyClosed
  <2>1. after \in Outcomes \cup {"reconnect"}
    BY <1>8 DEF FinallyClosed, IInv, WsOfRun
  <2> QED
    BY <1>8, <2>1, ProceedRefines DEF FinallyClosed, Lifecycle!Next
<1>9. CASE Cancel
  <2>1. CASE run \in {"created", "sleeping", "connecting"}
    BY <1>9, <2>1 DEF Cancel, Lifecycle!Next, Lifecycle!Cancel
  <2>2. CASE run = "connected"
    BY <1>9, <2>2, FinallyRefines DEF Cancel, Lifecycle!Next
  <2>3. CASE run = "closing"
    BY <1>9, <2>3 DEF Cancel, Proceed, Lifecycle!Next, Lifecycle!Cancel
  <2> QED
    BY <1>9, <2>1, <2>2, <2>3 DEF Cancel
<1>10. CASE Shutdown
  <2>1. run = "connected" => ws = "open"
    BY <1>10 DEF Shutdown, IInv, OpenUnlessClosing
  <2> QED
    BY <1>10, <2>1 DEF Shutdown, IsOpen, Lifecycle!Next, Lifecycle!Shutdown
<1>11. CASE ShutdownClosed
  BY <1>11 DEF ShutdownClosed, IInv, WsOfRun, Lifecycle!vars
<1>12. CASE ShutdownInterrupted
  BY <1>12 DEF ShutdownInterrupted, Lifecycle!vars
<1> QED
  BY <1>1, <1>2, <1>3, <1>4, <1>5, <1>6, <1>7, <1>8, <1>9, <1>10, <1>11, <1>12 DEF Next

\* The manager keeps the promise its client relies on (the safety part of
\* LifecycleSpec).
THEOREM Refinement == Spec => Lifecycle!Init /\ [][Lifecycle!Next]_(Lifecycle!vars)
<1>1. Init => Lifecycle!Init
  BY DEF Init, Lifecycle!Init
<1> QED
  BY <1>1, StepRefines, Inductive, PTL DEF Spec
=============================================================================
