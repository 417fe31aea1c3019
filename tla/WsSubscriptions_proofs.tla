----------------------- MODULE WsSubscriptions_proofs -----------------------
(***************************************************************************)
(* Proofs about WsSubscriptions for any sets of subscriptions.             *)
(***************************************************************************)
EXTENDS WsSubscriptions, TLAPS

USE DEF Subs, Pending, Adding

LEMMA InitIInv == Init => IInv
BY SubsAssumption
   DEF Init, IInv, TypeOK, SentOrToCome, SubscribedOrReported, NothingLost, Unlisted,
       UnsubscribedStaysSo

LEMMA StutterIInv == IInv /\ UNCHANGED vars => IInv'
BY DEF vars, lists, sending, removing, IInv, TypeOK, SentOrToCome, SubscribedOrReported,
       NothingLost, Unlisted, UnsubscribedStaysSo

\* A connection is filled from the list of the manager, which has nothing of
\* what was unsubscribed.
LEMMA ManagerIInv == IInv /\ ManagerStep => IInv'
<1> SUFFICES ASSUME IInv, ManagerStep PROVE IInv'
  OBVIOUS
<1> USE DEF ManagerStep, Connect, HaveToken, SendNext, AllSent, Disconnect, lists, removing
<1>1. NothingLost'
  BY DEF IInv, NothingLost
<1>2. TypeOK'
  BY DEF IInv, TypeOK
<1>3. SentOrToCome'
  BY DEF IInv, SentOrToCome
<1>4. SubscribedOrReported'
  BY DEF IInv, SentOrToCome, SubscribedOrReported
<1>5. Unlisted'
  BY DEF IInv, Unlisted
<1>6. UnsubscribedStaysSo'
  BY DEF IInv, Unlisted, UnsubscribedStaysSo
<1> QED
  BY <1>1, <1>2, <1>3, <1>4, <1>5, <1>6 DEF IInv

\* An added subscription is pending until the broker has it.
LEMMA AddIInv == ASSUME IInv, NEW s \in Extra, AddStep(s) PROVE IInv'
<1>0. add \in [Extra -> {"new", "token", "sending", "done", "failed"}]
  BY DEF IInv, TypeOK
<1> USE <1>0 DEF AddStep, Add, AddHasToken, AddSends, AddFails, lists, sending, removing
<1>1. TypeOK'
  BY DEF IInv, TypeOK
<1>2. SentOrToCome'
  BY DEF IInv, SentOrToCome
<1>3. SubscribedOrReported'
  BY DEF IInv, SubscribedOrReported
<1>4. NothingLost'
  BY DEF IInv, NothingLost
<1>5. Unlisted'
  BY DEF IInv, NothingLost, Unlisted
<1>6. UnsubscribedStaysSo'
  BY DEF IInv, NothingLost, Unlisted, UnsubscribedStaysSo
<1> QED
  BY <1>1, <1>2, <1>3, <1>4, <1>5, <1>6 DEF IInv

\* What the loop of unsubscribe_subscriptions() does between two awaits.
LEMMA LookUpEffect ==
    ASSUME IInv, NEW c \in Calls, NEW L \in SUBSET Subs, NEW rest \in SUBSET L,
           LookUp(c, L, rest)
    PROVE  /\ call' = [call EXCEPT ![c] = call'[c]]
           /\ call'[c] \in {"done", "token", "refused"}
           /\ call'[c] = "done" => rest = {}
           /\ left' = [left EXCEPT ![c] = left'[c]] /\ left'[c] \subseteq L
           /\ inSet' = inSet
           /\ IF call'[c] = "token"
              THEN /\ listed' = listed \ L
                   /\ shared' = FALSE /\ live' = FALSE
                   /\ overtaken' = overtaken \cup (L \cap (todo \cup Adding))
              ELSE UNCHANGED <<listed, shared, live, overtaken>>
<1>1. /\ call \in [Calls -> {"new", "token", "sending", "done", "failed", "refused"}]
      /\ left \in [Calls -> SUBSET Subs]
  BY DEF IInv, TypeOK
<1>2. CASE rest = {} /\ Goto(c, "done", {}) /\ UNCHANGED <<lists, live, overtaken>>
  BY <1>1, <1>2 DEF Goto, lists
<1>3. ASSUME NEW s \in rest \cap inSet, Goto(c, "token", rest \ {s}), Unlist(L)
      PROVE  /\ call' = [call EXCEPT ![c] = "token"]
             /\ left' = [left EXCEPT ![c] = left'[c]] /\ left'[c] \subseteq L
             /\ inSet' = inSet /\ listed' = listed \ L
             /\ shared' = FALSE /\ live' = FALSE
             /\ overtaken' = overtaken \cup (L \cap (todo \cup Adding))
  BY <1>1, <1>3 DEF Goto, Unlist
<1>4. ASSUME NEW s \in rest \ inSet, Goto(c, "refused", {s}),
             UNCHANGED <<lists, live, overtaken>>
      PROVE  /\ call' = [call EXCEPT ![c] = "refused"]
             /\ left' = [left EXCEPT ![c] = left'[c]] /\ left'[c] \subseteq L
             /\ UNCHANGED <<inSet, listed, shared, live, overtaken>>
  BY <1>1, <1>4 DEF Goto, lists
<1> QED
  BY <1>1, <1>2, <1>3, <1>4 DEF LookUp

\* A call begins: what it unlists while somebody is about to subscribe it is
\* overtaken.
LEMMA BeginIInv == ASSUME IInv, NEW c \in Calls, Begin(c) PROVE IInv'
<1>1. PICK L \in SUBSET {s \in Subs : s \in Extra => add[s] # "new"} :
         /\ members' = [members EXCEPT ![c] = L]
         /\ LookUp(c, L, L)
  BY DEF Begin
<1>2. UNCHANGED <<loop, todo, server, add, unsent>> /\ call[c] = "new"
  BY DEF Begin
<1>3. L \in SUBSET Subs
  OBVIOUS
<1>4. /\ call' = [call EXCEPT ![c] = call'[c]]
      /\ call'[c] \in {"done", "token", "refused"}
      /\ call'[c] = "done" => L = {}
      /\ left' = [left EXCEPT ![c] = left'[c]] /\ left'[c] \subseteq L
      /\ inSet' = inSet
      /\ IF call'[c] = "token"
         THEN /\ listed' = listed \ L
              /\ shared' = FALSE /\ live' = FALSE
              /\ overtaken' = overtaken \cup (L \cap (todo \cup Adding))
         ELSE UNCHANGED <<listed, shared, live, overtaken>>
  BY <1>1, <1>3, LookUpEffect
<1>5. TypeOK'
  BY <1>1, <1>2, <1>4 DEF IInv, TypeOK
<1>6. SentOrToCome' /\ SubscribedOrReported'
  BY <1>2, <1>4 DEF IInv, SentOrToCome, SubscribedOrReported
<1>7. /\ call \in [Calls -> {"new", "token", "sending", "done", "failed", "refused"}]
      /\ members \in [Calls -> SUBSET Subs]
      /\ left \in [Calls -> SUBSET Subs]
  BY DEF IInv, TypeOK
<1>8. NothingLost'
  BY <1>1, <1>2, <1>4, <1>7, SubsAssumption DEF IInv, NothingLost
<1>9. Unlisted'
  BY <1>1, <1>2, <1>4, <1>7 DEF IInv, Unlisted
<1>10. UnsubscribedStaysSo'
  BY <1>1, <1>2, <1>4, <1>7 DEF IInv, UnsubscribedStaysSo
<1> QED
  BY <1>5, <1>6, <1>8, <1>9, <1>10 DEF IInv

\* One message is sent; after the last the next member is looked up.
LEMMA RemoveSendsIInv == ASSUME IInv, NEW c \in Calls, RemoveSends(c) PROVE IInv'
<1>1. PICK s \in unsent[c] :
         /\ server' = server \ {s}
         /\ unsent' = [unsent EXCEPT ![c] = @ \ {s}]
         /\ IF unsent[c] = {s}
            THEN LookUp(c, members[c], left[c])
            ELSE UNCHANGED <<call, left, lists, live, overtaken>>
  BY DEF RemoveSends
<1>2. UNCHANGED <<loop, todo, add, members>> /\ call[c] = "sending"
  BY DEF RemoveSends
<1>3. /\ call \in [Calls -> {"new", "token", "sending", "done", "failed", "refused"}]
      /\ members \in [Calls -> SUBSET Subs]
      /\ unsent \in [Calls -> SUBSET Subs]
      /\ left \in [Calls -> SUBSET Subs]
  BY DEF IInv, TypeOK
<1>4. /\ members[c] \cap listed = {}
      /\ members[c] \cap (todo \cup Adding) \subseteq overtaken
      /\ (members[c] \ unsent[c]) \cap server \subseteq overtaken
  BY <1>2 DEF IInv, Unlisted
<1>5. unsent[c] \subseteq members[c] /\ left[c] \subseteq members[c]
  BY <1>2 DEF IInv, Unlisted
<1>6. CASE unsent[c] # {s}
  <2>1. UNCHANGED <<call, left, lists, live, overtaken>>
    BY <1>1, <1>6
  <2>2. TypeOK'
    BY <1>1, <1>2, <1>3, <2>1 DEF lists, IInv, TypeOK
  <2>3. SentOrToCome' /\ SubscribedOrReported'
    BY <1>1, <1>2, <1>4, <1>5, <2>1 DEF lists, IInv, SentOrToCome, SubscribedOrReported
  <2>4. NothingLost'
    BY <1>2, <2>1 DEF lists, IInv, NothingLost
  <2>5. Unlisted' /\ UnsubscribedStaysSo'
    BY <1>1, <1>2, <1>3, <2>1 DEF lists, IInv, Unlisted, UnsubscribedStaysSo
  <2> QED
    BY <2>2, <2>3, <2>4, <2>5 DEF IInv
<1>7. CASE unsent[c] = {s}
  <2>1. LookUp(c, members[c], left[c])
    BY <1>1, <1>7
  <2>2. /\ call' = [call EXCEPT ![c] = call'[c]]
        /\ call'[c] \in {"done", "token", "refused"}
        /\ left' = [left EXCEPT ![c] = left'[c]] /\ left'[c] \subseteq members[c]
        /\ inSet' = inSet
        /\ IF call'[c] = "token"
           THEN /\ listed' = listed \ members[c]
                /\ shared' = FALSE /\ live' = FALSE
                /\ overtaken' = overtaken \cup (members[c] \cap (todo \cup Adding))
           ELSE UNCHANGED <<listed, shared, live, overtaken>>
    BY <1>3, <1>5, <2>1, LookUpEffect
  <2>3. listed' = listed /\ overtaken' = overtaken
    BY <1>4, <2>2
  <2>4. TypeOK'
    BY <1>1, <1>2, <1>3, <2>2 DEF IInv, TypeOK
  <2>5. SentOrToCome' /\ SubscribedOrReported'
    BY <1>1, <1>2, <1>4, <1>5, <2>3 DEF IInv, SentOrToCome, SubscribedOrReported
  <2>6. NothingLost'
    BY <1>2, <1>3, <2>2, <2>3 DEF IInv, NothingLost
  <2>7. members[c] \cap server' \subseteq overtaken
    BY <1>1, <1>4, <1>7
  <2>8. Unlisted'
    BY <1>1, <1>2, <1>3, <1>4, <2>2, <2>3 DEF IInv, Unlisted
  <2>9. UnsubscribedStaysSo'
    BY <1>1, <1>2, <1>3, <2>2, <2>3, <2>7 DEF IInv, UnsubscribedStaysSo
  <2> QED
    BY <2>4, <2>5, <2>6, <2>8, <2>9 DEF IInv
<1> QED
  BY <1>6, <1>7

\* The steps of a call that send nothing.
LEMMA RemoveWaitsIInv ==
    ASSUME IInv, NEW c \in Calls, RemoveHasToken(c) \/ RemoveFails(c)
    PROVE  IInv'
<1>0. /\ call \in [Calls -> {"new", "token", "sending", "done", "failed", "refused"}]
      /\ members \in [Calls -> SUBSET Subs]
      /\ unsent \in [Calls -> SUBSET Subs]
      /\ left \in [Calls -> SUBSET Subs]
  BY DEF IInv, TypeOK
<1> USE DEF RemoveHasToken, RemoveFails, Goto, lists, sending
<1>1. TypeOK'
  BY <1>0 DEF IInv, TypeOK
<1>2. SentOrToCome' /\ SubscribedOrReported'
  BY DEF IInv, SentOrToCome, SubscribedOrReported
<1>3. NothingLost'
  BY <1>0 DEF IInv, NothingLost
<1>4. Unlisted' /\ UnsubscribedStaysSo'
  BY <1>0 DEF IInv, Unlisted, UnsubscribedStaysSo
<1> QED
  BY <1>1, <1>2, <1>3, <1>4 DEF IInv

LEMMA RemoveIInv == ASSUME IInv, NEW c \in Calls, RemoveStep(c) PROVE IInv'
BY BeginIInv, RemoveSendsIInv, RemoveWaitsIInv DEF RemoveStep

LEMMA NextIInv == IInv /\ [Next]_vars => IInv'
BY StutterIInv, ManagerIInv, AddIInv, RemoveIInv DEF Next

-----------------------------------------------------------------------------
\* The inductive invariant holds in every reachable state.
THEOREM Inductive == Spec => []IInv
BY InitIInv, NextIInv, PTL DEF Spec

\* Once main_loop receives, the broker has every subscription of the manager
\* that is not pending in, or reported by, its own add_subscriptions().
THEOREM Subscribed == Spec => []SubscribedOrReported
<1>1. IInv => SubscribedOrReported
  BY DEF IInv
<1> QED
  BY <1>1, Inductive, PTL

\* After unsubscribe_subscriptions() has returned, the broker has none of its
\* list but for what was being subscribed when the call began.
THEOREM Unsubscribed == Spec => []UnsubscribedStaysSo
<1>1. IInv => UnsubscribedStaysSo
  BY DEF IInv
<1> QED
  BY <1>1, Inductive, PTL
=============================================================================
