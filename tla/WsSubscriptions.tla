-------------------------- MODULE WsSubscriptions --------------------------
(***************************************************************************)
(* The subscriptions of one subscription set: the list that the set was    *)
(* composed with, the list of its websocket manager (at first the same     *)
(* object), what main_loop sends again on every connection, and what the   *)
(* broker was told.  add_subscriptions() and unsubscribe_subscriptions()   *)
(* run as tasks of the user at any time, also while the manager has no     *)
(* connection (multibroker/mb_client.py, ws_manager.py, AlorWebsocket.py). *)
(*                                                                         *)
(* A list is the set of its members.  An unsubscription is for a list, an  *)
(* addition for one subscription; a Subscription object is added at most   *)
(* once.                                                                   *)
(***************************************************************************)
CONSTANTS
    Initial,    \* the subscriptions of compose_subscriptions()
    Extra,      \* the ones added later
    Calls       \* calls of unsubscribe_subscriptions()

ASSUME SubsAssumption == Initial \cap Extra = {}

Subs == Initial \cup Extra

VARIABLES
    inSet,      \* SubscriptionSet.subscriptions
    listed,     \* WebsocketMgr.subscriptions
    shared,     \* both are still one list object
    loop,       \* where main_loop is suspended; "off" without a connection
    todo,       \* what main_loop has still to send
    live,       \* the list it goes through is the manager's current one
    server,     \* what the broker has subscribed on this connection
    add,        \* add_subscriptions([s]) of each added subscription
    call,       \* where each call of unsubscribe_subscriptions() is
    members,    \* the list it was given
    left,       \* its members not looked up yet; or the one it found refused
    unsent,     \* what the present round has still to send
    overtaken   \* history: unlisted while it was still to be subscribed

lists == <<inSet, listed, shared>>
sending == <<loop, todo, live>>
removing == <<call, members, left, unsent>>
vars == <<lists, sending, server, add, removing, overtaken>>

TypeOK ==
    /\ inSet \subseteq Subs
    /\ listed \subseteq Subs
    /\ shared \in BOOLEAN
    /\ loop \in {"off", "token", "sending", "receiving"}
    /\ todo \subseteq Subs
    /\ live \in BOOLEAN
    /\ server \subseteq Subs
    /\ add \in [Extra -> {"new", "token", "sending", "done", "failed"}]
    /\ call \in [Calls -> {"new", "token", "sending", "done", "failed", "refused"}]
    /\ members \in [Calls -> SUBSET Subs]
    /\ left \in [Calls -> SUBSET Subs]
    /\ unsent \in [Calls -> SUBSET Subs]
    /\ overtaken \subseteq Subs

\* start_websockets has given the manager the list of its set.
Init ==
    /\ inSet = Initial
    /\ listed = Initial
    /\ shared = TRUE
    /\ loop = "off"
    /\ todo = {}
    /\ live = FALSE
    /\ server = {}
    /\ add = [s \in Extra |-> "new"]
    /\ call = [c \in Calls |-> "new"]
    /\ members = [c \in Calls |-> {}]
    /\ left = [c \in Calls |-> {}]
    /\ unsent = [c \in Calls |-> {}]
    /\ overtaken = {}

\* The additions whose message is still to be sent.
Adding == {s \in Extra : add[s] \in {"token", "sending"}}

----------------------------------------------------------------------------
(* The manager: run() and main_loop()                                      *)

\* Mutation: the subscriptions of the set are sent, not the manager's.
ConnectInSet ==
    /\ loop = "off"
    /\ loop' = "token"
    /\ todo' = inSet
    /\ live' = shared
    /\ UNCHANGED <<lists, server, add, removing, overtaken>>

\* A connection is made; main_loop goes through the list as it is now, and as
\* it is extended meanwhile.
Connect ==
    /\ loop = "off"
    /\ loop' = "token"
    /\ todo' = listed
    /\ live' = TRUE
    /\ UNCHANGED <<lists, server, add, removing, overtaken>>

HaveToken ==
    /\ loop = "token"
    /\ loop' = "sending"
    /\ UNCHANGED <<lists, todo, live, server, add, removing, overtaken>>

SendNext ==
    /\ loop = "sending"
    /\ \E s \in todo : todo' = todo \ {s} /\ server' = server \cup {s}
    /\ UNCHANGED <<lists, loop, live, add, removing, overtaken>>

AllSent ==
    /\ loop = "sending" /\ todo = {}
    /\ loop' = "receiving"
    /\ live' = FALSE
    /\ UNCHANGED <<lists, todo, server, add, removing, overtaken>>

\* The connection is lost or closed, or main_loop raises.
Disconnect ==
    /\ loop # "off"
    /\ loop' = "off"
    /\ todo' = {}
    /\ live' = FALSE
    /\ server' = {}
    /\ overtaken' = overtaken \cap Adding
    /\ UNCHANGED <<lists, add, removing>>

----------------------------------------------------------------------------
(* add_subscriptions() -> WebsocketMgr.subscribe()                         *)

\* `self.subscriptions += new_subscriptions` extends the list in place.
Add(s) ==
    /\ add[s] = "new"
    /\ add' = [add EXCEPT ![s] = "token"]
    /\ listed' = listed \cup {s}
    /\ inSet' = IF shared THEN inSet \cup {s} ELSE inSet
    /\ todo' = IF live THEN todo \cup {s} ELSE todo
    /\ UNCHANGED <<shared, loop, live, server, removing, overtaken>>

AddHasToken(s) ==
    /\ add[s] = "token"
    /\ add' = [add EXCEPT ![s] = "sending"]
    /\ UNCHANGED <<lists, sending, server, removing, overtaken>>

AddSends(s) ==
    /\ add[s] = "sending"
    /\ loop # "off"
    /\ add' = [add EXCEPT ![s] = "done"]
    /\ server' = server \cup {s}
    /\ UNCHANGED <<lists, sending, removing, overtaken>>

\* No token, no websocket, or a send that fails: the call raises, and the
\* subscription stays in the list.
AddFails(s) ==
    /\ add[s] \in {"token", "sending"}
    /\ add' = [add EXCEPT ![s] = "failed"]
    /\ UNCHANGED <<lists, sending, server, removing, overtaken>>

----------------------------------------------------------------------------
(* unsubscribe_subscriptions() -> WebsocketMgr.unsubscribe()               *)

Goto(c, where, rest) ==
    /\ call' = [call EXCEPT ![c] = where]
    /\ left' = [left EXCEPT ![c] = rest]

\* Mutation: the manager keeps its list.
UnlistNothing(L) ==
    /\ overtaken' = overtaken \cup (L \cap (todo \cup Adding))
    /\ UNCHANGED <<lists, live>>

\* The manager gets a new list without the subscriptions; the set, and a
\* main_loop that is sending, keep the old one.
Unlist(L) ==
    /\ listed' = listed \ L
    /\ shared' = FALSE
    /\ live' = FALSE
    /\ overtaken' = overtaken \cup (L \cap (todo \cup Adding))
    /\ UNCHANGED inSet

\* From one member of the list L to the next: the whole list is unsubscribed
\* for each member that is found, and the first that is not found ends the
\* call ('No active subscription ... found.').
LookUp(c, L, rest) ==
    \/ /\ rest = {}
       /\ Goto(c, "done", {})
       /\ UNCHANGED <<lists, live, overtaken>>
    \/ \E s \in rest \cap inSet :
          Goto(c, "token", rest \ {s}) /\ Unlist(L)
    \/ \E s \in rest \ inSet :
          /\ Goto(c, "refused", {s})
          /\ UNCHANGED <<lists, live, overtaken>>

\* unsubscribe_subscriptions() of any subscriptions the user has added, also
\* through unsubscribe_subscription_set().
Begin(c) ==
    /\ call[c] = "new"
    /\ \E L \in SUBSET {s \in Subs : s \in Extra => add[s] # "new"} :
          /\ members' = [members EXCEPT ![c] = L]
          /\ LookUp(c, L, L)
    /\ UNCHANGED <<loop, todo, server, add, unsent>>

RemoveHasToken(c) ==
    /\ call[c] = "token"
    /\ Goto(c, "sending", left[c])
    /\ unsent' = [unsent EXCEPT ![c] = members[c]]
    /\ UNCHANGED <<lists, sending, server, add, members, overtaken>>

\* Mutation: one unsubscription is sent for the list.
RemoveSendsFirst(c) ==
    /\ call[c] = "sending"
    /\ loop # "off"
    /\ \E s \in unsent[c] :
          /\ server' = server \ {s}
          /\ unsent' = [unsent EXCEPT ![c] = {}]
          /\ LookUp(c, members[c], left[c])
    /\ UNCHANGED <<loop, todo, add, members>>

RemoveSends(c) ==
    /\ call[c] = "sending"
    /\ loop # "off"
    /\ \E s \in unsent[c] :
          /\ server' = server \ {s}
          /\ unsent' = [unsent EXCEPT ![c] = @ \ {s}]
          /\ IF unsent[c] = {s}
             THEN LookUp(c, members[c], left[c])
             ELSE UNCHANGED <<call, left, lists, live, overtaken>>
    /\ UNCHANGED <<loop, todo, add, members>>

\* No token, no websocket, or a send that fails: the call raises.
RemoveFails(c) ==
    /\ call[c] \in {"token", "sending"}
    /\ Goto(c, "failed", {})
    /\ unsent' = [unsent EXCEPT ![c] = {}]
    /\ UNCHANGED <<lists, sending, server, add, members, overtaken>>

----------------------------------------------------------------------------
ManagerStep == Connect \/ HaveToken \/ SendNext \/ AllSent \/ Disconnect
AddStep(s) == Add(s) \/ AddHasToken(s) \/ AddSends(s) \/ AddFails(s)
RemoveStep(c) == Begin(c) \/ RemoveHasToken(c) \/ RemoveSends(c) \/ RemoveFails(c)

Next ==
    \/ ManagerStep
    \/ \E s \in Extra : AddStep(s)
    \/ \E c \in Calls : RemoveStep(c)

Spec == Init /\ [][Next]_vars

----------------------------------------------------------------------------
(* Properties                                                              *)

\* The calls of add_subscriptions() that are under way or have raised.
Pending == {s \in Extra : add[s] \in {"token", "sending", "failed"}}

\* Whatever happens between the connections and while main_loop is sending:
\* once it receives, the broker has every subscription of the manager, but
\* for those whose own add_subscriptions() is under way or has raised.
SubscribedOrReported == loop = "receiving" => listed \subseteq server \cup Pending

\* Once unsubscribe_subscriptions() has returned, the broker has none of its
\* list, on this connection and on all that follow, with one exception: what
\* main_loop or add_subscriptions() was about to subscribe when the call began
\* may reach the broker after the unsubscription.
UnsubscribedStaysSo ==
    \A c \in Calls : call[c] = "done" => members[c] \cap server \subseteq overtaken

\* The inductive invariant: while it sends, what it has not sent is still to
\* come; the manager's list only loses what was unsubscribed; and what was
\* unsubscribed is still to be sent by nobody that was not overtaken.
SentOrToCome == loop # "off" => listed \subseteq server \cup todo \cup Pending

NothingLost ==
    /\ \A s \in Initial : (\A c \in Calls : s \notin members[c]) => s \in listed
    /\ \A s \in Extra :
          add[s] # "new" /\ (\A c \in Calls : s \notin members[c]) => s \in listed
    /\ \A s \in Extra :
          add[s] = "new" => s \notin listed /\ \A c \in Calls : s \notin members[c]
    /\ \A c \in Calls : call[c] = "new" => members[c] = {}

Unlisted ==
    \A c \in Calls : call[c] \in {"token", "sending", "done", "failed"} =>
        /\ members[c] \cap listed = {}
        /\ members[c] \cap (todo \cup Adding) \subseteq overtaken
        /\ left[c] \subseteq members[c]
        /\ call[c] = "sending" =>
              /\ unsent[c] \subseteq members[c]
              /\ (members[c] \ unsent[c]) \cap server \subseteq overtaken

IInv ==
    /\ TypeOK
    /\ SentOrToCome
    /\ SubscribedOrReported
    /\ NothingLost
    /\ Unlisted
    /\ UnsubscribedStaysSo

\* Stated by the error unsubscribe_subscriptions() raises ("No active
\* subscription ... found."): a refused subscription is not active.  After an
\* unsubscription the set does not see what is added to its manager.
RefusedIsInactive ==
    \A c \in Calls : call[c] = "refused" => left[c] \cap listed = {}
=============================================================================
