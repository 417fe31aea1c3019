------------------------------ MODULE WsClient ------------------------------
(***************************************************************************)
(* start_websockets() and shutdown_websockets() of MBClient                *)
(* (multibroker/mb_client.py) over the managers of all subscription sets.  *)
(* A manager is the state of WsLifecycle, which WsManager implements.      *)
(*                                                                         *)
(* shutdown_websockets() awaits one manager after the other.  It is walked *)
(* by start_websockets() once a manager has failed, and by the user, who   *)
(* calls it directly, from a callback or by leaving `async with`.          *)
(***************************************************************************)
EXTENDS Integers

CONSTANT N      \* number of subscription sets, in the order of the dict

ASSUME NAssumption == N \in Nat \ {0}

Mgrs == 1..N
Walkers == {"start", "user"}

VARIABLES
    mode, phase, told, fate,    \* each manager's lifecycle
    main,       \* where start_websockets is suspended, or how it ended
    pos         \* whose shutdown() a walker awaits: 0 before, N + 1 after

mgrVars == <<mode, phase, told, fate>>
vars == <<mgrVars, main, pos>>

TypeOK ==
    /\ mode \in [Mgrs -> {"STOPPED", "RUNNING", "CLOSING"}]
    /\ phase \in [Mgrs -> {"created", "between", "connected", "leaving", "ended"}]
    /\ told \in [Mgrs -> BOOLEAN]
    /\ fate \in [Mgrs -> {"none", "reconnect", "returned", "raised", "cancelled"}]
    /\ main \in {"waiting", "stopping", "draining",
                "raised", "returned", "cancelled", "interrupted"}
    /\ pos \in [Walkers -> 0..(N + 1)]

\* start_websockets has created every manager and its task, without an await,
\* and waits for them.
Init ==
    /\ mode = [m \in Mgrs |-> "STOPPED"]
    /\ phase = [m \in Mgrs |-> "created"]
    /\ told = [m \in Mgrs |-> FALSE]
    /\ fate = [m \in Mgrs |-> "none"]
    /\ main = "waiting"
    /\ pos = [w \in Walkers |-> 0]

Ended(m) == phase[m] = "ended"
AllEnded == \A m \in Mgrs : Ended(m)
AllStarted == \A m \in Mgrs : phase[m] # "created"

----------------------------------------------------------------------------
(* The managers                                                            *)

\* The tasks were created in one go: their first steps follow one another in
\* one pass of the event loop.
StartAll ==
    /\ ~AllStarted
    /\ phase' = [m \in Mgrs |-> IF phase[m] = "created" THEN "between" ELSE phase[m]]
    /\ mode' = [m \in Mgrs |-> IF phase[m] = "created" THEN "RUNNING" ELSE mode[m]]
    /\ UNCHANGED <<told, fate, main, pos>>

Move(m, p, f) ==
    /\ phase' = [phase EXCEPT ![m] = p]
    /\ fate' = [fate EXCEPT ![m] = f]
    /\ told' = [told EXCEPT ![m] = FALSE]
    /\ UNCHANGED <<mode, main, pos>>

Connect(m) == phase[m] = "between" /\ Move(m, "connected", fate[m])

Fail(m) == phase[m] = "between" /\ Move(m, "ended", "raised")

\* Mutation: a connection that is shut down reconnects.
DisconnectAnyMode(m) ==
    /\ phase[m] = "connected"
    /\ \E p \in {"leaving"} \cup (IF told[m] THEN {"ended"} ELSE {}) :
       \E f \in {"raised", "reconnect"} : Move(m, p, f)

Disconnect(m) ==
    /\ phase[m] = "connected"
    /\ \E p \in {"leaving"} \cup (IF told[m] THEN {"ended"} ELSE {}) :
       \E f \in {"raised", IF mode[m] = "CLOSING" THEN "returned" ELSE "reconnect"} :
          Move(m, p, f)

Left(m) ==
    /\ phase[m] = "leaving"
    /\ IF fate[m] = "reconnect"
       THEN Move(m, "between", "none")
       ELSE Move(m, "ended", fate[m])

\* The task of a manager is cancelled, as asyncio.run() does at its end.
Cancel(m) ==
    \/ phase[m] = "created" /\ Move(m, "ended", "cancelled")
    \/ phase[m] \in {"between", "leaving"} /\ Move(m, "ended", "returned")
    \/ /\ phase[m] = "connected"
       /\ \E p \in {"leaving"} \cup (IF told[m] THEN {"ended"} ELSE {}) : Move(m, p, "returned")

----------------------------------------------------------------------------
(* shutdown_websockets                                                     *)

\* shutdown() of a manager suspends only to close a connection.
Suspends(m) == mode[m] # "CLOSING" /\ phase[m] \in {"connected", "leaving"}

\* A manager that was cancelled may have left its websocket half closed.
MaySuspend(m) == Suspends(m) \/ (mode[m] # "CLOSING" /\ fate[m] = "returned")

\* Mutation: shutdown() passes over managers that have no connection.
WalkConnected(w, i) ==
    \E next \in {m \in i..N : Suspends(m)} \cup {N + 1} :
        /\ \A m \in i..(next - 1) : ~Suspends(m)
        /\ mode' = [m \in Mgrs |-> IF m = next THEN "CLOSING" ELSE mode[m]]
        /\ told' = [m \in Mgrs |-> told[m] \/ (m = next /\ phase[m] = "connected")]
        /\ pos' = [pos EXCEPT ![w] = next]
        /\ UNCHANGED <<phase, fate>>

\* From manager i to the next one whose shutdown() suspends, or to the end.
Walk(w, i) ==
    \E next \in {m \in i..N : MaySuspend(m)} \cup {N + 1} :
        /\ \A m \in i..(next - 1) : ~Suspends(m)
        /\ mode' = [m \in Mgrs |-> IF m \in i..next THEN "CLOSING" ELSE mode[m]]
        /\ told' = [m \in Mgrs |-> told[m] \/ (m = next /\ Suspends(m) /\ phase[m] = "connected")]
        /\ pos' = [pos EXCEPT ![w] = next]
        /\ UNCHANGED <<phase, fate>>

AwaitsClose(w) == pos[w] \in Mgrs

UserShutdown ==
    /\ ~AwaitsClose("user")
    /\ Walk("user", 1)
    /\ UNCHANGED main

UserResumes ==
    /\ AwaitsClose("user")
    /\ Walk("user", pos["user"] + 1)
    /\ UNCHANGED main

\* Mutation: a walk that is cut short is taken for one that is over.
UserInterruptedEnds ==
    /\ AwaitsClose("user")
    /\ pos' = [pos EXCEPT !["user"] = N + 1]
    /\ UNCHANGED <<mgrVars, main>>

\* The task that walks is cancelled: the remaining managers go on.
UserInterrupted ==
    /\ AwaitsClose("user")
    /\ pos' = [pos EXCEPT !["user"] = 0]
    /\ UNCHANGED <<mgrVars, main>>

----------------------------------------------------------------------------
(* start_websockets                                                        *)

MainTo(where) == main' = where /\ UNCHANGED <<mgrVars, pos>>

\* Mutations: the others are not stopped, or not awaited one by one.
StopNobody(i) == main' = "draining" /\ UNCHANGED <<mgrVars, pos>>

StopRestAtOnce(i) == Walk("start", i) /\ main' = "draining"

StopRest(i) ==
    /\ Walk("start", i)
    /\ main' = IF pos'["start"] = N + 1 THEN "draining" ELSE "stopping"

\* Mutation: asyncio.wait(FIRST_COMPLETED).
WakeFirstCompleted ==
    /\ main = "waiting"
    /\ \/ \E m \in Mgrs : Ended(m) /\ fate[m] = "raised" /\ StopRest(1)
       \/ \E m \in Mgrs : Ended(m) /\ fate[m] = "returned" /\ MainTo("returned")

\* asyncio.wait(FIRST_EXCEPTION) returns and the tasks that are done are gone
\* through, in any order: the first that raised makes it stop the others, one
\* that was cancelled before it started raises CancelledError.
Wake ==
    /\ main = "waiting"
    /\ AllEnded \/ \E m \in Mgrs : Ended(m) /\ fate[m] = "raised"
    /\ \/ \E m \in Mgrs : Ended(m) /\ fate[m] = "raised" /\ StopRest(1)
       \/ \E m \in Mgrs : Ended(m) /\ fate[m] = "cancelled" /\ MainTo("cancelled")
       \/ (\A m \in Mgrs : fate[m] = "returned") /\ MainTo("returned")

StopResumes ==
    /\ main = "stopping"
    /\ StopRest(pos["start"] + 1)

\* The pending managers have ended: the exception is raised to the user.
Drained == main = "draining" /\ AllEnded /\ MainTo("raised")

\* The task that awaits start_websockets is cancelled; the managers go on.
CancelStart ==
    /\ main \in {"waiting", "stopping", "draining"}
    /\ main' = "interrupted"
    /\ pos' = [pos EXCEPT !["start"] = 0]
    /\ UNCHANGED mgrVars

----------------------------------------------------------------------------
\* The event loop makes the first step of a task before what follows from it.
MgrStep(m) ==
    \/ AllStarted /\ (Connect(m) \/ Fail(m) \/ Disconnect(m) \/ Left(m))
    \/ Cancel(m)

MainStep == Wake \/ StopResumes \/ Drained

Next ==
    \/ StartAll \/ \E m \in Mgrs : MgrStep(m)
    \/ UserShutdown \/ UserResumes \/ UserInterrupted
    \/ MainStep \/ CancelStart

\* Every manager keeps the fairness of its lifecycle, and close() returns.
Fairness ==
    /\ WF_vars(StartAll)
    /\ \A m \in Mgrs :
        WF_vars(AllStarted /\ (Connect(m) \/ Fail(m) \/ Left(m) \/ (told[m] /\ Disconnect(m))))
    /\ WF_vars(MainStep)

Spec == Init /\ [][Next]_vars /\ Fairness

----------------------------------------------------------------------------
(* Properties                                                              *)

\* An unrecoverable error is never swallowed: start_websockets returns only if
\* no manager failed, and what hides a failure behind a CancelledError is only
\* a manager that was cancelled before it started.
NoErrorSwallowed ==
    /\ main = "returned" => \A m \in Mgrs : fate[m] = "returned"
    /\ main = "cancelled" => \E m \in Mgrs : fate[m] = "cancelled"

\* When it raises the error of a manager, no other manager is left running.
NobodyLeftRunning == main = "raised" => AllEnded

\* While it waits for the others to end, all of them have been told to: also
\* those the user's own shutdown_websockets() is in the middle of.
ErrorStopsAll ==
    main = "draining" => \A m \in Mgrs : mode[m] = "CLOSING"

\* A shutdown_websockets() that comes to its end has told every manager to
\* stop, although they reconnect, fail and end while it is suspended, another
\* walk is among them, and an earlier one may have been cut short half-way.
ShutdownTellsAll ==
    [][\A w \in Walkers :
          pos[w] # N + 1 /\ pos'[w] = N + 1 => \A m \in Mgrs : mode'[m] = "CLOSING"]_vars

\* The inductive invariant.  Until the managers start they can only be
\* cancelled, which is their end, and none that is started leaves CLOSING any
\* more; what a walk has passed is in that mode.
NothingBeforeStart ==
    /\ AllStarted \/ \A m \in Mgrs : phase[m] \in {"created", "ended"}
                                   /\ fate[m] \in {"none", "cancelled"}
    /\ \A m \in Mgrs : fate[m] = "cancelled" => Ended(m)

StoppedSoFar ==
    /\ main \in {"stopping", "draining"} =>
        /\ AllStarted
        /\ IF main = "draining" THEN pos["start"] = N + 1 ELSE AwaitsClose("start")
        /\ \A m \in Mgrs : m <= pos["start"] => mode[m] = "CLOSING"
    /\ AwaitsClose("user") =>
        /\ AllStarted
        /\ \A m \in Mgrs : m <= pos["user"] => mode[m] = "CLOSING"

ToldIsClosing ==
    \A m \in Mgrs : told[m] => mode[m] = "CLOSING" /\ phase[m] = "connected"

IInv ==
    /\ TypeOK
    /\ ToldIsClosing
    /\ NothingBeforeStart
    /\ StoppedSoFar
    /\ NobodyLeftRunning
    /\ NoErrorSwallowed
    /\ main = "returned" => AllEnded

\* The error of a manager reaches the user, unless it hides behind a manager
\* that was cancelled: start_websockets can wait for ever only for a manager
\* that was between two connections when it was shut down and has connected
\* again.
ErrorSurfaces ==
    /\ main \in {"waiting", "stopping", "draining"}
    /\ \E m \in Mgrs : Ended(m) /\ fate[m] = "raised"
    ~>
    \/ main \in {"raised", "interrupted"}
    \/ main = "cancelled" /\ \E m \in Mgrs : fate[m] = "cancelled"
    \/ \E m \in Mgrs : phase[m] = "connected" /\ mode[m] = "CLOSING" /\ ~told[m]

\* Refinement: each manager of this module is one of the lifecycles that
\* WsManager implements.
Manager(m) ==
    INSTANCE WsLifecycle WITH mode <- mode[m], phase <- phase[m],
                              told <- told[m], fate <- fate[m]
ManagersConform == [][\A m \in Mgrs : [Manager(m)!Next]_(Manager(m)!vars)]_vars
============================================================================
