----------------------------- MODULE WsManager -----------------------------
(***************************************************************************)
(* One websocket manager (multibroker/ws_manager.py) as AlorWebsocket sets *)
(* it up: run() with its reconnect loop, the main_loop task of its task    *)
(* group, an aiohttp websocket, and shutdown() called from another task or *)
(* from a callback.  One action is the code from one await to the next.    *)
(*                                                                         *)
(* The list of subscriptions does not change here.  The periodic task of   *)
(* AlorWebsocket does nothing but sleep and is left out.                   *)
(***************************************************************************)
EXTENDS Naturals, FiniteSets

CONSTANTS
    Subs,           \* self.subscriptions
    AutoReconnect   \* self.auto_reconnect

ASSUME AutoReconnectAssumption == AutoReconnect \in BOOLEAN

VARIABLES
    mode,       \* self.mode
    run,        \* where run() is suspended
    after,      \* what run() does when its finally clause is over
    ws,         \* self.websocket: "none", or the state of the object
    loop,       \* where main_loop is suspended
    exc,        \* the exception main_loop ended with
    subscribed, \* subscriptions sent on the current connection
    shut,       \* a shutdown() awaits close(): of the current object or an old one
    orphan      \* history: run() dropped a websocket that was not closed

vars == <<mode, run, after, ws, loop, exc, subscribed, shut, orphan>>

Outcomes == {"stop", "error", "cancelled"}
Exceptions == {"recoverable", "fatal"}

TypeOK ==
    /\ mode \in {"STOPPED", "RUNNING", "CLOSING"}
    /\ run \in {"created", "sleeping", "connecting", "connected", "closing", "done"}
    /\ after \in Outcomes \cup {"none", "reconnect", "unconnected", "unstarted"}
    /\ ws \in {"none", "new", "open", "closing", "closed"}
    /\ loop \in {"off", "token", "subscribing", "receiving", "callback", "over"}
    /\ exc \in Exceptions \cup {"malformed", "none"}
    /\ subscribed \subseteq Subs
    /\ shut \in {"idle", "closing", "closingOld"}
    /\ orphan \in BOOLEAN

\* start_websockets has created the manager and the task of run().
Init ==
    /\ mode = "STOPPED"
    /\ run = "created"
    /\ after = "none"
    /\ ws = "none"
    /\ loop = "off"
    /\ exc = "none"
    /\ subscribed = {}
    /\ shut = "idle"
    /\ orphan = FALSE

\* AiohttpWebsocket.is_open(): the aiohttp websocket is set, be it closing.
IsOpen == ws \in {"open", "closing"}

----------------------------------------------------------------------------
(* run(): up to the connection                                             *)

Start ==
    /\ run = "created"
    /\ mode' = "RUNNING"
    /\ run' = "sleeping"
    /\ UNCHANGED <<after, ws, loop, exc, subscribed, shut, orphan>>

\* The startup delay is over: a new websocket object, and connect().
Connect ==
    /\ run = "sleeping"
    /\ run' = "connecting"
    /\ ws' = "new"
    /\ UNCHANGED <<mode, after, loop, exc, subscribed, shut, orphan>>

\* The task group starts main_loop, whatever the mode is by now.
Connected ==
    /\ run = "connecting"
    /\ run' = "connected"
    /\ ws' = "open"
    /\ loop' = "token"
    /\ exc' = "none"
    /\ subscribed' = {}
    /\ UNCHANGED <<mode, after, shut, orphan>>

\* connect() is outside the try that classifies exceptions: run() ends.
ConnectFails ==
    /\ run = "connecting"
    /\ run' = "done"
    /\ after' = "unconnected"
    /\ UNCHANGED <<mode, ws, loop, exc, subscribed, shut, orphan>>

----------------------------------------------------------------------------
(* main_loop()                                                             *)

LoopTo(where) ==
    /\ loop' = where
    /\ UNCHANGED <<mode, run, after, ws, exc, shut, orphan>>

LoopRaises(e) ==
    /\ loop' = "over"
    /\ exc' = e
    /\ UNCHANGED <<mode, run, after, ws, subscribed, shut, orphan>>

\* send() and receive() raise MBException once close() has run to its end,
\* and a recoverable error while it is under way.
ClosedUnderLoop ==
    \/ ws = "closing" /\ LoopRaises("recoverable")
    \/ ws = "closed" /\ LoopRaises("fatal")

\* _get_token: the token cached by the client, or a new one once that is old.
GetToken ==
    /\ loop = "token"
    /\ LoopTo("subscribing")
    /\ UNCHANGED subscribed

GetTokenFails ==
    /\ loop = "token"
    /\ \E e \in Exceptions : LoopRaises(e)

\* One message of send_subscription_message.
SendSubscription ==
    /\ loop = "subscribing"
    /\ ws = "open"
    /\ \E s \in Subs \ subscribed : subscribed' = subscribed \cup {s}
    /\ UNCHANGED <<mode, run, after, ws, loop, exc, shut, orphan>>

\* The peer is gone, or the websocket was closed by shutdown().
SendFails ==
    /\ loop = "subscribing"
    /\ subscribed # Subs
    /\ (ws = "open" /\ LoopRaises("recoverable")) \/ ClosedUnderLoop

\* Mutation: receiving starts before everything is subscribed.
ReceiveEarly ==
    /\ loop \in {"subscribing", "callback"}
    /\ (ws = "open" /\ LoopTo("receiving") /\ UNCHANGED subscribed) \/ ClosedUnderLoop

\* receive() is entered: after the last subscription or after a callback.
Receive ==
    /\ \/ loop = "subscribing" /\ subscribed = Subs
       \/ loop = "callback"
    /\ (ws = "open" /\ LoopTo("receiving") /\ UNCHANGED subscribed) \/ ClosedUnderLoop

\* A receive() that waits returns the next message: it may have come just
\* before a close(), which its data then overtakes.  The callbacks are
\* awaited, what they raise is logged.  Answers with a code other than 401 are
\* only logged.
Deliver ==
    /\ loop = "receiving"
    /\ LoopTo("callback")
    /\ UNCHANGED subscribed

\* A raising callback without a __name__ breaks the logging of its failure.
CallbackLogFails ==
    /\ loop = "callback"
    /\ LoopRaises("fatal")

Unauthorized ==
    /\ loop = "receiving"
    /\ LoopRaises("recoverable")

\* A message that json.loads cannot read.
Malformed ==
    /\ loop = "receiving"
    /\ LoopRaises("malformed")

\* Mutation: the CLOSING frame is skipped as a PING is, and receive() goes on
\* with a websocket that is gone.
ReceiveEndsSkipping ==
    /\ loop = "receiving"
    /\ LoopRaises(IF ws = "open" THEN "recoverable" ELSE "fatal")

\* The peer closes, the connection breaks, or close() wakes receive().
ReceiveEnds ==
    /\ loop = "receiving"
    /\ LoopRaises("recoverable")

----------------------------------------------------------------------------
(* run(): the end of a connection                                          *)

\* The end of the finally clause with the websocket in state w.
Proceed(next, w) ==
    /\ after' = next
    /\ loop' = "off"
    /\ IF next = "reconnect"
       THEN /\ run' = "sleeping"
            /\ ws' = "none"
            /\ orphan' = (orphan \/ w \in {"open", "closing"})
            /\ shut' = IF shut = "closing" THEN "closingOld" ELSE shut
       ELSE /\ run' = "done"
            /\ ws' = w
            /\ UNCHANGED <<orphan, shut>>

\* Mutation: a reconnect does not close the old websocket.
FinallyUnlessReconnect(next) ==
    IF IsOpen /\ next # "reconnect"
    THEN /\ run' = "closing"
         /\ after' = next
         /\ ws' = "closing"
         /\ loop' = "off"
         /\ UNCHANGED <<shut, orphan>>
    ELSE Proceed(next, ws)

\* The finally clause: close the websocket unless that is done already.
Finally(next) ==
    IF IsOpen
    THEN /\ run' = "closing"
         /\ after' = next
         /\ ws' = "closing"
         /\ loop' = "off"
         /\ UNCHANGED <<shut, orphan>>
    ELSE Proceed(next, ws)

\* Mutation: the mode is not looked at.
ClassifyAnyMode(e) == IF e = "recoverable" /\ AutoReconnect THEN "reconnect" ELSE "error"

\* The except clause: what the end of the task group leads to.
Classify(e) ==
    IF e = "recoverable" /\ mode = "CLOSING" THEN "stop"
    ELSE IF e = "recoverable" /\ AutoReconnect THEN "reconnect"
    ELSE "error"

GroupEnds ==
    /\ run = "connected"
    /\ loop = "over"
    /\ Finally(Classify(exc))
    /\ UNCHANGED <<mode, exc, subscribed>>

FinallyClosed ==
    /\ run = "closing"
    /\ Proceed(after, "closed")
    /\ UNCHANGED <<mode, exc, subscribed>>

\* The task of run() is cancelled; CancelledError is swallowed at the end,
\* unless the task had not made its first step.
Cancel ==
    /\ \/ /\ run \in {"created", "sleeping", "connecting"}
          /\ run' = "done"
          /\ after' = IF run = "created" THEN "unstarted" ELSE "cancelled"
          /\ UNCHANGED <<ws, loop, shut, orphan>>
       \/ /\ run = "connected"
          /\ Finally("cancelled")
       \/ /\ run = "closing"
          /\ Proceed("cancelled", ws)
    /\ UNCHANGED <<mode, exc, subscribed>>

----------------------------------------------------------------------------
(* shutdown()                                                              *)

\* A second shutdown() returns at once: it is no step here.
Shutdown ==
    /\ mode # "CLOSING"
    /\ mode' = "CLOSING"
    /\ IF IsOpen
       THEN ws' = "closing" /\ shut' = "closing"
       ELSE UNCHANGED <<ws, shut>>
    /\ UNCHANGED <<run, after, loop, exc, subscribed, orphan>>

\* close() ends only after a pending receive() has returned.
ShutdownClosed ==
    /\ shut # "idle"
    /\ shut = "closing" => loop # "receiving"
    /\ shut' = "idle"
    /\ ws' = IF shut = "closing" THEN "closed" ELSE ws
    /\ UNCHANGED <<mode, run, after, loop, exc, subscribed, orphan>>

\* The task that awaits shutdown() is cancelled.
ShutdownInterrupted ==
    /\ shut # "idle"
    /\ shut' = "idle"
    /\ UNCHANGED <<mode, run, after, ws, loop, exc, subscribed, orphan>>

----------------------------------------------------------------------------
LoopStep ==
    \/ GetToken \/ GetTokenFails \/ SendSubscription \/ SendFails \/ Receive
    \/ Deliver \/ CallbackLogFails \/ Unauthorized \/ Malformed \/ ReceiveEnds

Next ==
    \/ Start \/ Connect \/ Connected \/ ConnectFails
    \/ LoopStep
    \/ GroupEnds \/ FinallyClosed \/ Cancel
    \/ Shutdown \/ ShutdownClosed \/ ShutdownInterrupted

\* Sleeps, connect() and close() end, _get_token is bounded by aiohttp, sends
\* are bounded by the socket, and callbacks are taken to return.  Nothing
\* obliges the peer to send, so receive() returns only if woken by close().
Fairness ==
    /\ WF_vars(Start \/ Connect \/ Connected \/ ConnectFails \/ GroupEnds \/ FinallyClosed)
    /\ WF_vars(\/ GetToken \/ GetTokenFails \/ SendSubscription \/ SendFails \/ Receive
               \/ ws # "open" /\ ReceiveEnds)
    /\ WF_vars(ShutdownClosed)

Spec == Init /\ [][Next]_vars /\ Fairness

----------------------------------------------------------------------------
(* Properties                                                              *)

\* After a reconnect no message is taken from the new connection before every
\* subscription was sent on it again.
ResubscribedBeforeData == loop \in {"receiving", "callback"} => subscribed = Subs

\* Every websocket run() replaces by a new one was closed before, also when a
\* shutdown() closes it at the same time or is interrupted while it does.
NoOrphanConnection == ~orphan

\* A manager that ends by itself leaves no connection behind.
EndsDisconnected == run = "done" /\ after \in {"stop", "error"} => ws = "closed"

\* Only shutdown() closes a websocket under a running task group.
OpenUnlessClosing == run = "connected" /\ mode # "CLOSING" => ws = "open"

\* The inductive invariant: main_loop lives in the task group of run(), and
\* where run() is suspended says what the websocket can be.
LoopInGroup == (loop # "off") <=> (run = "connected")

WsOfRun ==
    /\ run \in {"created", "sleeping"} => ws = "none"
    /\ run = "connecting" => ws = "new"
    /\ run = "connected" => ws \in {"open", "closing", "closed"}
    /\ run = "closing" => /\ ws \in {"closing", "closed"}
                         /\ after \in Outcomes \cup {"reconnect"}
    /\ shut = "closing" => ws \in {"closing", "closed"}

IInv ==
    /\ TypeOK
    /\ LoopInGroup
    /\ WsOfRun
    /\ OpenUnlessClosing
    /\ ResubscribedBeforeData
    /\ NoOrphanConnection
    /\ EndsDisconnected

\* A shutdown() that closes the websocket of a running task group stops the
\* manager: it does not reconnect, whatever main_loop is doing meanwhile.
ConnectedShutdownStops == run = "connected" /\ shut = "closing" ~> run = "done"

\* A shutdown() that wakes a waiting receive() ends the manager without an
\* error, also if it is interrupted itself.  Only a message that came before
\* it may turn up an error yet: when its callbacks outlast the close(), the
\* next receive() finds no websocket and raises MBException.
WakingShutdownIsClean ==
    loop = "receiving" /\ ws = "closing" ~>
        \/ run = "done" /\ after # "error"
        \/ loop = "callback"
        \/ exc = "malformed"

\* Refinement: the manager as the client sees it.
Phase ==
    CASE run \in {"sleeping", "connecting"} -> "between"
      [] run = "closing" -> "leaving"
      [] run = "done" -> "ended"
      [] OTHER -> run

Fate ==
    IF run \notin {"closing", "done"} THEN "none"
    ELSE CASE after \in {"stop", "cancelled"} -> "returned"
           [] after \in {"error", "unconnected"} -> "raised"
           [] after = "unstarted" -> "cancelled"
           [] OTHER -> after

Lifecycle ==
    INSTANCE WsLifecycle WITH phase <- Phase, fate <- Fate,
                              told <- (run = "connected" /\ ws # "open")
LifecycleSpec == Lifecycle!Spec

\* "Websocket manager already being shut down" (shutdown(), when the mode is
\* CLOSING): a manager in that mode ends.  One that is between two connections
\* when shutdown() is called connects again and stays.
ShutdownStops == mode = "CLOSING" ~> run = "done"
============================================================================
