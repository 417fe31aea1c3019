----------------------------- MODULE WsDispatch -----------------------------
(***************************************************************************)
(* How a websocket manager hands what it receives to the callbacks of its  *)
(* subscriptions: AlorWebsocket._process_message, WebsocketMgr.publish_    *)
(* message and Subscription.process_callbacks.  main_loop, WsManager's     *)
(* Receive and Deliver, is here the code between two awaits of one         *)
(* message; connecting is one state.                                       *)
(*                                                                         *)
(* A callback is a coroutine function ("coroutine"), an asynchronous       *)
(* callable without a __name__, such as a functools.partial ("nameless"),  *)
(* or an ordinary function ("plain").                                      *)
(***************************************************************************)
EXTENDS Integers, Sequences

CONSTANTS
    Callbacks,      \* the callbacks of each subscription, a sequence of kinds
    MaxMessages     \* bound on the messages received

Subs == DOMAIN Callbacks

ASSUME CallbacksAssumption ==
    Callbacks \in [Subs -> Seq({"coroutine", "nameless", "plain"})]
ASSUME MaxMessagesAssumption == MaxMessages \in Nat

VARIABLES
    loop,       \* main_loop: "connecting", "receiving", "gathering", "ended"
    listed,     \* WebsocketMgr.subscriptions
    received,   \* messages with data received so far
    subject,    \* the subscription each of them was published to
    started,    \* the tasks made so far: <<message, index of the callback>>
    running,    \* those that have not ended
    failed,     \* those that ended in an exception
    stopping,   \* the task of the manager was cancelled
    cause       \* why the loop ended: "none", "callback", "other"

tasks == <<started, running, failed>>
vars == <<loop, listed, received, subject, tasks, stopping, cause>>

Of(m) == Callbacks[subject[m]]

TypeOK ==
    /\ loop \in {"connecting", "receiving", "gathering", "ended"}
    /\ listed \subseteq Subs
    /\ received \in 0..MaxMessages
    /\ subject \in [1..received -> Subs]
    /\ started \subseteq UNION {{m} \X DOMAIN Of(m) : m \in 1..received}
    /\ running \cup failed \subseteq started
    /\ running \cap failed = {}
    /\ stopping \in BOOLEAN
    /\ cause \in {"none", "callback", "other"}

Init ==
    /\ loop = "connecting"
    /\ listed = Subs
    /\ received = 0
    /\ subject = <<>>
    /\ started = {}
    /\ running = {}
    /\ failed = {}
    /\ stopping = FALSE
    /\ cause = "none"

----------------------------------------------------------------------------
(* The loop                                                                *)

LoopTo(where) == loop' = where /\ UNCHANGED cause

LoopEnds(why) == loop' = "ended" /\ cause' = why

Connect ==
    /\ loop = "connecting"
    /\ LoopTo("receiving") \/ LoopEnds("other")
    /\ UNCHANGED <<listed, received, subject, tasks, stopping>>

\* The connection is lost, closed by a shutdown, or refuses the token (401);
\* a message that is not a JSON object ends the manager.
ReceiveRaises ==
    /\ loop = "receiving"
    /\ LoopTo("connecting") \/ LoopEnds("other")
    /\ UNCHANGED <<listed, received, subject, tasks, stopping>>

\* The indices of the callbacks that get a task: create_task raises at the
\* first one that does not return a coroutine.
Reached(cbs) == {i \in DOMAIN cbs : \A j \in 1..i : cbs[j] # "plain"}

\* Mutation: the callbacks are not waited for.
PublishUnawaited(s) ==
    /\ loop = "receiving" /\ received < MaxMessages
    /\ s \in listed
    /\ received' = received + 1
    /\ subject' = Append(subject, s)
    /\ LET new == {<<received', i>> : i \in Reached(Callbacks[s])}
       IN  started' = started \cup new /\ running' = running \cup new
    /\ LoopTo("receiving")
    /\ UNCHANGED <<listed, failed, stopping>>

\* Data of a listed subscription: a task for each of its callbacks.  The
\* tasks made before a TypeError go on, and nobody waits for them.  Any other
\* message (an answer to a subscription, no guid, no data, a guid that is not
\* listed any more) is dropped and changes nothing.
Publish(s) ==
    /\ loop = "receiving" /\ received < MaxMessages
    /\ s \in listed
    /\ received' = received + 1
    /\ subject' = Append(subject, s)
    /\ LET new == {<<received', i>> : i \in Reached(Callbacks[s])}
       IN  started' = started \cup new /\ running' = running \cup new
    /\ IF \E i \in DOMAIN Callbacks[s] : Callbacks[s][i] = "plain"
       THEN LoopEnds("callback")
       ELSE LoopTo("gathering")
    /\ UNCHANGED <<listed, failed, stopping>>

\* A callback returns, raises, or ends because it was cancelled.
TaskEnds(t) ==
    /\ t \in running
    /\ running' = running \ {t}
    /\ failed' \in {failed, failed \cup {t}}
    /\ UNCHANGED <<loop, listed, received, subject, started, stopping, cause>>

\* Mutation: gather without return_exceptions.
GatheredFirst ==
    /\ loop = "gathering"
    /\ \/ \E t \in failed : t[1] = received /\ LoopEnds("callback")
       \/ running = {} /\ LoopTo("receiving")
    /\ UNCHANGED <<listed, received, subject, tasks, stopping>>

\* The exception of a callback without a name cannot be logged.
Unloggable(t) == t \in failed /\ t[1] = received /\ Of(received)[t[2]] = "nameless"

\* Mutation: a message with a failed callback is not done with.
GatheredAllOk ==
    /\ loop = "gathering"
    /\ running = {} /\ \A t \in failed : t[1] # received
    /\ IF stopping THEN LoopEnds("other") ELSE LoopTo("receiving")
    /\ UNCHANGED <<listed, received, subject, tasks, stopping>>

\* gather() returns when all its tasks have ended; after a cancellation it
\* raises CancelledError, but not before.
Gathered ==
    /\ loop = "gathering"
    /\ running = {}
    /\ IF stopping THEN LoopEnds("other")
       ELSE IF \E t \in failed : Unloggable(t) THEN LoopEnds("callback")
       ELSE LoopTo("receiving")
    /\ UNCHANGED <<listed, received, subject, tasks, stopping>>

\* The task of run() is cancelled: with it main_loop, and the callbacks it
\* waits for, which may take time to end.
Cancel ==
    /\ ~stopping /\ loop # "ended"
    /\ stopping' = TRUE
    /\ IF loop = "gathering" THEN LoopTo("gathering") ELSE LoopEnds("other")
    /\ UNCHANGED <<listed, received, subject, tasks>>

\* unsubscribe() and subscribe() at any time, also by a callback.
Relist(s) ==
    /\ listed' \in {listed \ {s}, listed \cup {s}}
    /\ UNCHANGED <<loop, received, subject, tasks, stopping, cause>>

----------------------------------------------------------------------------
Next ==
    \/ Connect \/ ReceiveRaises \/ Gathered \/ Cancel
    \/ \E s \in Subs : Publish(s) \/ Relist(s)
    \/ \E t \in running : TaskEnds(t)

\* A callback returns (an assumption on the user's code) and the task woken
\* by the last one goes on.
Fairness == WF_vars(Gathered) /\ WF_vars(\E t \in running : TaskEnds(t))

Spec == Init /\ [][Next]_vars /\ Fairness

----------------------------------------------------------------------------
(* Properties                                                              *)

\* The callbacks of a connection see its messages one at a time and in order:
\* a callback runs only while main_loop waits for the callbacks of that very
\* message.  The exception is an ordinary function among the callbacks, which
\* leaves the tasks made before it to themselves.
OneMessageAtATime ==
    \A t \in running :
        \/ loop = "gathering" /\ t[1] = received
        \/ loop = "ended" /\ \E i \in DOMAIN Of(t[1]) : Of(t[1])[i] = "plain"

\* The invariant of process_callbacks, which is inductive: tasks exist for
\* received messages and for callbacks these have, end once, one message is
\* handled at a time, and a manager that ended has a cause for it.
DispatchInv ==
    /\ TypeOK
    /\ OneMessageAtATime
    /\ loop = "ended" <=> cause # "none"

\* README: "an exception in one callback does not kill the other
\* subscriptions"; process_callbacks: "a bug in one callback must NOT kill the
\* entire WS connection".  The callbacks of a message are all called, whatever
\* the others do, and only the two kinds of callable that the code does not
\* provide for end the manager, against both texts.
Isolated ==
    /\ \A m \in 1..received :
          \/ \A i \in DOMAIN Of(m) : <<m, i>> \in started
          \/ cause = "callback" /\ m = received
    /\ cause = "callback" =>
          \E i \in DOMAIN Of(received) :
              \/ Of(received)[i] = "plain"
              \/ Of(received)[i] = "nameless" /\ <<received, i>> \in failed

\* One failing, slow or cancelled callback does not stop the connection for
\* ever: main_loop receives again, or the manager has ended.
NotStuck == loop = "gathering" ~> loop # "gathering"
=============================================================================
