---------------------------- MODULE WsLifecycle ----------------------------
(***************************************************************************)
(* What a websocket manager promises to the client that started it: it     *)
(* connects and reconnects until it ends, it never reconnects once         *)
(* shutdown() was called on its live connection, and then it does end.  A  *)
(* shutdown() between two connections promises nothing.                    *)
(***************************************************************************)
VARIABLES
    mode,       \* WebsocketMgr.mode
    phase,      \* where run() is
    told,       \* shutdown() closed the live connection
    fate        \* how the connection, or run() itself, came to its end

vars == <<mode, phase, told, fate>>

Init == mode = "STOPPED" /\ phase = "created" /\ told = FALSE /\ fate = "none"

Start ==
    /\ phase = "created"
    /\ phase' = "between" /\ mode' = "RUNNING"
    /\ UNCHANGED <<told, fate>>

Connect ==
    /\ phase = "between"
    /\ phase' = "connected"
    /\ UNCHANGED <<mode, told, fate>>

Fail ==
    /\ phase = "between"
    /\ phase' = "ended" /\ fate' = "raised"
    /\ UNCHANGED <<mode, told>>

\* The connection is lost.  It has to be closed first, unless shutdown() has
\* done that.
Disconnect ==
    /\ phase = "connected"
    /\ fate' \in IF mode = "CLOSING" THEN {"returned", "raised"} ELSE {"reconnect", "raised"}
    /\ phase' = "leaving" \/ (told /\ phase' = "ended")
    /\ told' = FALSE
    /\ UNCHANGED mode

Left ==
    /\ phase = "leaving"
    /\ IF fate = "reconnect"
       THEN phase' = "between" /\ fate' = "none"
       ELSE phase' = "ended" /\ UNCHANGED fate
    /\ UNCHANGED <<mode, told>>

Cancel ==
    /\ \/ phase = "created" /\ phase' = "ended" /\ fate' = "cancelled"
       \/ phase \in {"between", "leaving"} /\ phase' = "ended" /\ fate' = "returned"
       \/ /\ phase = "connected" /\ fate' = "returned"
          /\ phase' = "leaving" \/ (told /\ phase' = "ended")
    /\ told' = FALSE
    /\ UNCHANGED mode

Shutdown ==
    /\ mode # "CLOSING"
    /\ mode' = "CLOSING"
    /\ told' = (phase = "connected")
    /\ UNCHANGED <<phase, fate>>

Next ==
    \/ Start \/ Connect \/ Fail \/ Disconnect \/ Left \/ Cancel \/ Shutdown

Spec ==
    /\ Init /\ [][Next]_vars
    /\ WF_vars(Start \/ Connect \/ Fail \/ Left \/ (told /\ Disconnect))
=============================================================================
