-------------------------- MODULE WsDispatch_proofs --------------------------
(***************************************************************************)
(* Proofs about WsDispatch for any subscriptions, any callbacks of theirs  *)
(* and any number of messages.                                             *)
(***************************************************************************)
EXTENDS WsDispatch, SequenceTheorems, TLAPS

USE DEF Subs, Of

LEMMA InitDispatchInv == Init => DispatchInv
<1> SUFFICES ASSUME Init PROVE DispatchInv
  OBVIOUS
<1>1. received \in 0..MaxMessages /\ subject \in [1..received -> Subs]
  BY MaxMessagesAssumption DEF Init
<1> QED
  BY <1>1 DEF Init, DispatchInv, TypeOK, OneMessageAtATime

\* The subjects of earlier messages stay when one is appended.
LEMMA AppendSubject ==
    ASSUME NEW n \in Nat, NEW f \in [1..n -> Subs], NEW s \in Subs
    PROVE  /\ Append(f, s) \in [1..(n + 1) -> Subs]
           /\ Append(f, s)[n + 1] = s
           /\ \A m \in 1..n : Append(f, s)[m] = f[m]
<1>1. f \in Seq(Subs) /\ Len(f) = n
  OBVIOUS
<1>2. Append(f, s) \in Seq(Subs) /\ Len(Append(f, s)) = n + 1
  BY <1>1, AppendProperties
<1>3. Append(f, s) \in [1..(n + 1) -> Subs]
  BY <1>2, LenProperties
<1>4. Append(f, s)[n + 1] = s /\ \A m \in 1..n : Append(f, s)[m] = f[m]
  BY <1>1, AppendProperties
<1> QED
  BY <1>3, <1>4

\* A task is a message received and the index of one of its callbacks.
LEMMA TaskIsPair ==
    ASSUME TypeOK, NEW t \in started
    PROVE  /\ t[1] \in 1..received /\ t[2] \in DOMAIN Of(t[1])
           /\ t = <<t[1], t[2]>>
BY DEF TypeOK

\* The tasks that a message makes.
LEMMA PublishDispatchInv ==
    ASSUME DispatchInv, NEW s \in Subs, Publish(s)
    PROVE  DispatchInv'
<1> DEFINE new == {<<received', i>> : i \in Reached(Callbacks[s])}
<1>1. /\ loop = "receiving" /\ received' = received + 1
      /\ subject' = Append(subject, s)
      /\ started' = started \cup new /\ running' = running \cup new
      /\ UNCHANGED <<listed, failed, stopping>>
      /\ \/ loop' = "gathering" /\ cause' = cause
         \/ /\ loop' = "ended" /\ cause' = "callback"
            /\ \E i \in DOMAIN Callbacks[s] : Callbacks[s][i] = "plain"
  BY DEF Publish, LoopEnds, LoopTo
<1>2. /\ received \in Nat /\ received' \in 0..MaxMessages
      /\ subject \in [1..received -> Subs]
  BY <1>1, MaxMessagesAssumption DEF Publish, DispatchInv, TypeOK
<1>3. /\ subject' \in [1..received' -> Subs] /\ subject'[received'] = s
      /\ \A m \in 1..received : subject'[m] = subject[m]
  BY <1>1, <1>2, AppendSubject
<1>4. running = {}
  BY <1>1 DEF DispatchInv, OneMessageAtATime
<1>5. new \subseteq {received'} \X DOMAIN Callbacks[s]
  BY DEF Reached
<1>6. started' \subseteq UNION {{m} \X DOMAIN Of(m)' : m \in 1..received'}
  BY <1>1, <1>2, <1>3, <1>5 DEF DispatchInv, TypeOK
<1>7. new \cap failed = {}
  BY <1>1, <1>2, <1>5 DEF DispatchInv, TypeOK
<1>8. TypeOK'
  BY <1>1, <1>2, <1>3, <1>4, <1>6, <1>7 DEF Publish, DispatchInv, TypeOK
<1>9. OneMessageAtATime'
  BY <1>1, <1>3, <1>4, <1>5 DEF OneMessageAtATime
<1> QED
  BY <1>1, <1>8, <1>9 DEF DispatchInv

\* The other steps of the loop make no tasks.
LEMMA LoopDispatchInv ==
    ASSUME DispatchInv, Connect \/ ReceiveRaises \/ Gathered \/ Cancel
    PROVE  DispatchInv'
<1>1. /\ UNCHANGED <<listed, received, subject, started, running, failed>>
      /\ stopping' \in BOOLEAN
      /\ \/ loop' \in {"receiving", "connecting", "gathering"} /\ cause' = cause
         \/ loop' = "ended" /\ cause' \in {"callback", "other"}
      /\ loop # "ended"
      /\ running = {} \/ (loop = "gathering" /\ loop' = "gathering")
  BY DEF Connect, ReceiveRaises, Gathered, Cancel, LoopTo, LoopEnds, tasks,
         DispatchInv, TypeOK, OneMessageAtATime
<1>2. TypeOK'
  BY <1>1 DEF DispatchInv, TypeOK
<1>3. OneMessageAtATime'
  BY <1>1 DEF DispatchInv, OneMessageAtATime
<1> QED
  BY <1>1, <1>2, <1>3 DEF DispatchInv

LEMMA TaskEndsDispatchInv ==
    ASSUME DispatchInv, NEW t \in running, TaskEnds(t)
    PROVE  DispatchInv'
<1>1. TypeOK'
  BY DEF TaskEnds, DispatchInv, TypeOK
<1>2. OneMessageAtATime'
  BY DEF TaskEnds, DispatchInv, OneMessageAtATime
<1> QED
  BY <1>1, <1>2 DEF TaskEnds, DispatchInv

LEMMA RestDispatchInv ==
    ASSUME DispatchInv, UNCHANGED vars \/ \E s \in Subs : Relist(s)
    PROVE  DispatchInv'
<1>1. /\ UNCHANGED <<loop, received, subject, started, running, failed, stopping, cause>>
      /\ listed' \subseteq Subs
  BY DEF Relist, vars, tasks, DispatchInv, TypeOK
<1>2. TypeOK' /\ OneMessageAtATime'
  BY <1>1 DEF DispatchInv, TypeOK, OneMessageAtATime
<1> QED
  BY <1>1, <1>2 DEF DispatchInv

LEMMA NextDispatchInv == DispatchInv /\ [Next]_vars => DispatchInv'
BY PublishDispatchInv, LoopDispatchInv, TaskEndsDispatchInv, RestDispatchInv DEF Next

\* The callbacks of a connection see its messages one at a time and in order.
THEOREM Dispatch == Spec => []DispatchInv
BY InitDispatchInv, NextDispatchInv, PTL DEF Spec

-----------------------------------------------------------------------------
\* Isolation: what a step does to the tasks of the messages received so far.
LEMMA PublishIsolated ==
    ASSUME DispatchInv, Isolated, NEW s \in Subs, Publish(s)
    PROVE  Isolated'
<1> DEFINE plain == \E i \in DOMAIN Callbacks[s] : Callbacks[s][i] = "plain"
<1>1. /\ loop = "receiving" /\ received' = received + 1
      /\ subject' = Append(subject, s) /\ started \subseteq started'
      /\ \A i \in Reached(Callbacks[s]) : <<received', i>> \in started'
      /\ IF plain THEN cause' = "callback" ELSE cause' = cause
  BY DEF Publish, LoopEnds, LoopTo
<1>2. cause = "none" /\ received \in Nat /\ subject \in [1..received -> Subs]
  BY <1>1, MaxMessagesAssumption DEF DispatchInv, TypeOK
<1>3. /\ subject'[received'] = s
      /\ \A m \in 1..received : subject'[m] = subject[m]
  BY <1>1, <1>2, AppendSubject
<1>4. \A m \in 1..received : \A i \in DOMAIN Of(m)' : <<m, i>> \in started'
  BY <1>1, <1>2, <1>3 DEF Isolated
<1>5. ~plain => \A i \in DOMAIN Callbacks[s] : <<received', i>> \in started'
  <2> SUFFICES ASSUME ~plain, NEW i \in DOMAIN Callbacks[s]
               PROVE  i \in Reached(Callbacks[s])
    BY <1>1, <1>3
  <2>1. Callbacks[s] \in Seq({"coroutine", "nameless", "plain"})
    BY CallbacksAssumption
  <2>2. i \in 1..Len(Callbacks[s]) /\ 1..i \subseteq DOMAIN Callbacks[s]
    BY <2>1
  <2> QED
    BY <2>2 DEF Reached
<1>6. \A m \in 1..received' :
         \/ \A i \in DOMAIN Of(m)' : <<m, i>> \in started'
         \/ cause' = "callback" /\ m = received'
  BY <1>1, <1>2, <1>3, <1>4, <1>5
<1>7. cause' = "callback" => \E i \in DOMAIN Of(received)' : Of(received)'[i] = "plain"
  BY <1>1, <1>2, <1>3
<1> QED
  BY <1>6, <1>7 DEF Isolated

\* A callback that fails and cannot be logged is the only other reason for the
\* loop to end because of a callback.
LEMMA GatheredIsolated ==
    ASSUME DispatchInv, Isolated, Gathered
    PROVE  Isolated'
<1>1. /\ UNCHANGED <<received, subject, started, running, failed>>
      /\ cause = "none"
      /\ \/ cause' # "callback"
         \/ cause' = "callback" /\ \E t \in failed : Unloggable(t)
  BY DEF Gathered, LoopTo, LoopEnds, tasks, DispatchInv, TypeOK
<1>2. ASSUME NEW t \in failed, Unloggable(t)
      PROVE  \E i \in DOMAIN Of(received) :
                Of(received)[i] = "nameless" /\ <<received, i>> \in failed
  BY <1>2, TaskIsPair DEF Unloggable, DispatchInv, TypeOK
<1> QED
  BY <1>1, <1>2 DEF Isolated

LEMMA OtherLoopIsolated ==
    ASSUME DispatchInv, Isolated, Connect \/ ReceiveRaises \/ Cancel
    PROVE  Isolated'
<1>1. /\ UNCHANGED <<received, subject, started, running, failed>>
      /\ cause = "none" /\ cause' # "callback"
  BY DEF Connect, ReceiveRaises, Cancel, LoopTo, LoopEnds, tasks, DispatchInv
<1> QED
  BY <1>1 DEF Isolated

LEMMA RestIsolated ==
    ASSUME Isolated,
           \/ UNCHANGED vars
           \/ \E s \in Subs : Relist(s)
           \/ \E t \in running : TaskEnds(t)
    PROVE  Isolated'
<1>1. UNCHANGED <<received, subject, started, cause>> /\ failed \subseteq failed'
  BY DEF Relist, TaskEnds, vars, tasks
<1> QED
  BY <1>1 DEF Isolated

LEMMA NextIsolated == DispatchInv /\ Isolated /\ [Next]_vars => Isolated'
BY PublishIsolated, GatheredIsolated, OtherLoopIsolated, RestIsolated DEF Next

\* Whatever one callback does, all callbacks of the message are called, and
\* only a callable the code does not provide for ends the manager.
THEOREM Isolation == Spec => []Isolated
<1>1. Init => Isolated
  BY DEF Init, Isolated
<1> QED
  BY <1>1, NextIsolated, Dispatch, PTL DEF Spec

=============================================================================
