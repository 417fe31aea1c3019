-------------------------- MODULE WsClient_proofs --------------------------
(***************************************************************************)
(* Proofs about WsClient for any number of subscription sets.              *)
(***************************************************************************)
EXTENDS WsClient, TLAPS

USE DEF Mgrs, Walkers, Ended, AllEnded, AllStarted, AwaitsClose

LEMMA InitIInv == Init => IInv
BY NAssumption DEF Init, IInv, TypeOK, ToldIsClosing, NothingBeforeStart, StoppedSoFar,
                   NobodyLeftRunning, NoErrorSwallowed

LEMMA StutterIInv == IInv /\ UNCHANGED vars => IInv'
BY DEF vars, mgrVars, IInv, TypeOK, ToldIsClosing, NothingBeforeStart, StoppedSoFar,
       NobodyLeftRunning, NoErrorSwallowed

\* A manager that has not ended moves on: nothing start_websockets has
\* concluded from the others is lost.
LEMMA MoveIInv ==
    ASSUME IInv, NEW m \in Mgrs, phase[m] # "ended",
           NEW p \in {"between", "connected", "leaving", "ended"},
           NEW f \in {"none", "reconnect", "returned", "raised", "cancelled"},
           Move(m, p, f),
           AllStarted \/ (p = "ended" /\ f = "cancelled"),
           f = "cancelled" => p = "ended"
    PROVE  IInv'
<1> USE NAssumption
<1>1. TypeOK'
  BY DEF Move, IInv, TypeOK
<1>2. AllStarted => AllStarted'
  BY DEF Move, IInv, TypeOK
<1>3. NothingBeforeStart'
  BY <1>2 DEF Move, IInv, TypeOK, NothingBeforeStart
<1>4. StoppedSoFar'
  BY <1>2 DEF Move, IInv, StoppedSoFar
<1>5. main \notin {"raised", "returned"}
  BY DEF IInv, NobodyLeftRunning
<1>6. ToldIsClosing'
  BY DEF Move, IInv, TypeOK, ToldIsClosing
<1>7. NoErrorSwallowed'
  <2>1. main = "cancelled" =>
           \E k \in Mgrs \ {m} : fate[k] = "cancelled" /\ fate'[k] = fate[k]
    BY DEF Move, IInv, TypeOK, NothingBeforeStart, NoErrorSwallowed
  <2> QED
    BY <1>5, <2>1 DEF Move, NoErrorSwallowed
<1> QED
  BY <1>1, <1>3, <1>4, <1>5, <1>6, <1>7 DEF Move, IInv, NobodyLeftRunning

LEMMA MgrIInv == ASSUME IInv, NEW m \in Mgrs, MgrStep(m) PROVE IInv'
<1>0. /\ fate[m] \in {"none", "reconnect", "returned", "raised", "cancelled"}
      /\ phase[m] \notin {"created", "ended"} => AllStarted
      /\ phase[m] # "ended" => fate[m] # "cancelled"
  BY DEF IInv, TypeOK, NothingBeforeStart
<1>1. CASE AllStarted /\ Connect(m)
  BY <1>0, <1>1, MoveIInv DEF Connect
<1>2. CASE AllStarted /\ Fail(m)
  BY <1>2, MoveIInv DEF Fail
<1>3. CASE AllStarted /\ Disconnect(m)
  BY <1>3, MoveIInv DEF Disconnect
<1>4. CASE AllStarted /\ Left(m)
  BY <1>0, <1>4, MoveIInv DEF Left
<1>5. CASE Cancel(m)
  BY <1>0, <1>5, MoveIInv DEF Cancel
<1> QED
  BY <1>1, <1>2, <1>3, <1>4, <1>5 DEF MgrStep

LEMMA StartAllIInv == IInv /\ StartAll => IInv'
<1> SUFFICES ASSUME IInv, StartAll PROVE IInv'
  OBVIOUS
<1>1. TypeOK'
  BY DEF StartAll, IInv, TypeOK
<1>2. main \notin {"stopping", "draining", "raised", "returned"}
  BY DEF StartAll, IInv, StoppedSoFar, NobodyLeftRunning
<1>3. AllStarted'
  BY DEF StartAll, IInv, TypeOK
<1>4. ToldIsClosing'
  BY DEF StartAll, IInv, TypeOK, ToldIsClosing
<1> QED
  BY <1>1, <1>2, <1>3, <1>4 DEF StartAll, IInv, NothingBeforeStart, StoppedSoFar,
                          NobodyLeftRunning, NoErrorSwallowed

\* A walk changes no phase, keeps the managers that are CLOSING in that mode,
\* and leaves every manager from where it began to where it stops CLOSING.
LEMMA WalkFacts ==
    ASSUME TypeOK, NEW w \in Walkers, NEW i \in 1..(N + 1), Walk(w, i)
    PROVE  /\ TypeOK' \/ main' # main
           /\ phase' = phase /\ fate' = fate
           /\ pos'[w] \in i..(N + 1)
           /\ \A v \in Walkers \ {w} : pos'[v] = pos[v]
           /\ \A m \in Mgrs : m \in i..pos'[w] \/ mode[m] = "CLOSING" => mode'[m] = "CLOSING"
           /\ ToldIsClosing => ToldIsClosing'
           /\ pos'[w] \in Mgrs => MaySuspend(pos'[w])
<1>1. PICK next \in {m \in i..N : MaySuspend(m)} \cup {N + 1} :
         /\ mode' = [m \in Mgrs |-> IF m \in i..next THEN "CLOSING" ELSE mode[m]]
         /\ told' = [m \in Mgrs |-> told[m] \/ (m = next /\ Suspends(m) /\ phase[m] = "connected")]
         /\ pos' = [pos EXCEPT ![w] = next]
         /\ UNCHANGED <<phase, fate>>
  BY DEF Walk
<1>2. next \in i..(N + 1) /\ next \in 0..(N + 1)
  BY <1>1, NAssumption
<1>3. pos'[w] = next /\ \A v \in Walkers \ {w} : pos'[v] = pos[v]
  BY <1>1 DEF TypeOK
<1>4. mode' \in [Mgrs -> {"STOPPED", "RUNNING", "CLOSING"}] /\ told' \in [Mgrs -> BOOLEAN]
  BY <1>1 DEF TypeOK
<1>5. pos' \in [Walkers -> 0..(N + 1)]
  BY <1>1, <1>2 DEF TypeOK
<1>6. next \in Mgrs => MaySuspend(next)
  BY <1>1, NAssumption
<1>7. ToldIsClosing => ToldIsClosing'
  <2> SUFFICES ASSUME ToldIsClosing, NEW m \in Mgrs, told'[m]
               PROVE  mode'[m] = "CLOSING" /\ phase'[m] = "connected"
    BY DEF ToldIsClosing
  <2>1. told[m] \/ (m = next /\ phase[m] = "connected")
    BY <1>1
  <2>2. m = next => m \in i..next
    BY <1>2
  <2> QED
    BY <1>1, <2>1, <2>2 DEF ToldIsClosing
<1> QED
  BY <1>1, <1>2, <1>3, <1>4, <1>5, <1>6, <1>7 DEF TypeOK

\* Before the managers have started, no walk has to wait.
LEMMA SuspendsAfterStart ==
    ASSUME IInv, NEW m \in Mgrs, MaySuspend(m)
    PROVE  AllStarted
BY DEF IInv, NothingBeforeStart, MaySuspend, Suspends

\* The walk of the user.
LEMMA UserWalkIInv ==
    ASSUME IInv, NEW i \in 1..(N + 1), Walk("user", i), main' = main,
           \A m \in Mgrs : m < i => mode[m] = "CLOSING"
    PROVE  IInv' /\ (pos'["user"] = N + 1 => \A m \in Mgrs : mode'[m] = "CLOSING")
<1>1. /\ TypeOK'
      /\ phase' = phase /\ fate' = fate /\ pos'["start"] = pos["start"]
      /\ ToldIsClosing'
      /\ pos'["user"] \in i..(N + 1)
      /\ pos'["user"] \in Mgrs => AllStarted
      /\ \A m \in Mgrs : m \in i..pos'["user"] \/ mode[m] = "CLOSING" => mode'[m] = "CLOSING"
  BY WalkFacts, SuspendsAfterStart DEF IInv
<1>2. \A m \in Mgrs : m <= pos'["user"] => mode'[m] = "CLOSING"
  BY <1>1, NAssumption
<1>3. StoppedSoFar'
  BY <1>1, <1>2 DEF IInv, StoppedSoFar
<1> QED
  BY <1>1, <1>2, <1>3, NAssumption DEF IInv, NothingBeforeStart, NobodyLeftRunning, NoErrorSwallowed

LEMMA UserIInv == IInv /\ (UserShutdown \/ UserResumes \/ UserInterrupted) => IInv'
<1> SUFFICES ASSUME IInv, UserShutdown \/ UserResumes \/ UserInterrupted PROVE IInv'
  OBVIOUS
<1>1. CASE UserShutdown
  BY <1>1, UserWalkIInv, NAssumption DEF UserShutdown
<1>2. CASE UserResumes
  <2>1. pos["user"] + 1 \in 1..(N + 1)
    BY <1>2, NAssumption DEF UserResumes
  <2>2. \A m \in Mgrs : m < pos["user"] + 1 => mode[m] = "CLOSING"
    BY <1>2 DEF UserResumes, IInv, StoppedSoFar
  <2> QED
    BY <1>2, <2>1, <2>2, UserWalkIInv DEF UserResumes
<1>3. CASE UserInterrupted
  BY <1>3, NAssumption DEF UserInterrupted, mgrVars, IInv, TypeOK, ToldIsClosing,
              NothingBeforeStart, StoppedSoFar, NobodyLeftRunning, NoErrorSwallowed
<1> QED
  BY <1>1, <1>2, <1>3

\* The walk of start_websockets, once every manager before i is CLOSING.
LEMMA StopRestIInv ==
    ASSUME IInv, AllStarted, NEW i \in 1..(N + 1), StopRest(i),
           \A m \in Mgrs : m < i => mode[m] = "CLOSING"
    PROVE  IInv'
<1>0. Walk("start", i) /\ main' \in {"draining", "stopping"}
  BY DEF StopRest
<1>1. /\ phase' = phase /\ fate' = fate
      /\ pos'["start"] \in i..(N + 1) /\ pos'["user"] = pos["user"]
      /\ ToldIsClosing'
      /\ \A m \in Mgrs :
            m \in i..pos'["start"] \/ mode[m] = "CLOSING" => mode'[m] = "CLOSING"
  BY <1>0, WalkFacts DEF IInv
<1>2. TypeOK'
  BY <1>0, NAssumption DEF Walk, IInv, TypeOK
<1>3. \A m \in Mgrs : m <= pos'["start"] => mode'[m] = "CLOSING"
  BY <1>1, NAssumption
<1>4. IF main' = "draining" THEN pos'["start"] = N + 1 ELSE pos'["start"] \in Mgrs
  BY <1>1, NAssumption DEF StopRest
<1>5. StoppedSoFar'
  BY <1>0, <1>1, <1>3, <1>4 DEF IInv, StoppedSoFar
<1> QED
  BY <1>0, <1>1, <1>2, <1>5 DEF IInv, NothingBeforeStart, NobodyLeftRunning, NoErrorSwallowed

LEMMA MainIInv == IInv /\ (MainStep \/ CancelStart) => IInv'
<1> SUFFICES ASSUME IInv, MainStep \/ CancelStart PROVE IInv'
  OBVIOUS
<1> USE NAssumption
<1>1. CASE Wake
  <2>1. ASSUME NEW m \in Mgrs, fate[m] = "raised", StopRest(1)
        PROVE  IInv'
    BY <2>1, StopRestIInv DEF IInv, NothingBeforeStart
  <2>2. CASE (\E m \in Mgrs : fate[m] = "cancelled") /\ MainTo("cancelled")
    BY <2>2 DEF MainTo, mgrVars, IInv, TypeOK, ToldIsClosing, NothingBeforeStart, StoppedSoFar,
                NobodyLeftRunning, NoErrorSwallowed
  <2>3. CASE (\A m \in Mgrs : fate[m] = "returned") /\ MainTo("returned")
    BY <1>1, <2>3 DEF Wake, MainTo, mgrVars, IInv, TypeOK, ToldIsClosing, NothingBeforeStart,
                      StoppedSoFar, NobodyLeftRunning, NoErrorSwallowed
  <2> QED
    BY <1>1, <2>1, <2>2, <2>3 DEF Wake
<1>2. CASE StopResumes
  <2>1. /\ AllStarted /\ pos["start"] \in Mgrs
        /\ \A m \in Mgrs : m <= pos["start"] => mode[m] = "CLOSING"
    BY <1>2 DEF StopResumes, IInv, StoppedSoFar
  <2>2. pos["start"] + 1 \in 1..(N + 1)
    BY <2>1
  <2>3. \A m \in Mgrs : m < pos["start"] + 1 => mode[m] = "CLOSING"
    BY <2>1
  <2> QED
    BY <1>2, <2>1, <2>2, <2>3, StopRestIInv DEF StopResumes
<1>3. CASE Drained
  BY <1>3 DEF Drained, MainTo, mgrVars, IInv, TypeOK, ToldIsClosing, NothingBeforeStart,
     StoppedSoFar, NobodyLeftRunning, NoErrorSwallowed
<1>4. CASE CancelStart
  BY <1>4 DEF CancelStart, mgrVars, IInv, TypeOK, ToldIsClosing, NothingBeforeStart, StoppedSoFar,
              NobodyLeftRunning, NoErrorSwallowed
<1> QED
  BY <1>1, <1>2, <1>3, <1>4 DEF MainStep

LEMMA NextIInv == IInv /\ [Next]_vars => IInv'
BY StutterIInv, StartAllIInv, MgrIInv, UserIInv, MainIInv DEF Next

-----------------------------------------------------------------------------
\* The inductive invariant holds in every reachable state.
THEOREM Inductive == Spec => []IInv
BY InitIInv, NextIInv, PTL DEF Spec

\* start_websockets returns only if no manager failed, and is cancelled by its
\* own managers only if one of them was.
THEOREM ErrorsRaised == Spec => []NoErrorSwallowed
<1>1. IInv => NoErrorSwallowed
  BY DEF IInv
<1> QED
  BY <1>1, Inductive, PTL

\* When start_websockets raises, every manager has ended.
THEOREM NobodyRuns == Spec => []NobodyLeftRunning
<1>1. IInv => NobodyLeftRunning
  BY DEF IInv
<1> QED
  BY <1>1, Inductive, PTL

\* start_websockets waits for the others only after it has told all of them.
THEOREM AllToldToStop == Spec => []ErrorStopsAll
<1>1. IInv => ErrorStopsAll
  BY NAssumption DEF IInv, StoppedSoFar, ErrorStopsAll
<1> QED
  BY <1>1, Inductive, PTL

\* A walk comes to its end only by its own last step.
LEMMA StartWalkEnds ==
    ASSUME IInv, [Next]_vars, pos["start"] # N + 1, pos'["start"] = N + 1
    PROVE  main' = "draining"
<1>1. \E i \in 1..(N + 1) : StopRest(i)
  <2>1. CASE UserShutdown \/ UserResumes
    BY <2>1, NAssumption DEF UserShutdown, UserResumes, Walk, IInv, TypeOK
  <2>2. CASE UserInterrupted \/ CancelStart
    BY <2>2, NAssumption DEF UserInterrupted, CancelStart, IInv, TypeOK
  <2>3. CASE \E m \in Mgrs : MgrStep(m)
    BY <2>3 DEF MgrStep, Connect, Fail, Disconnect, Left, Cancel, Move
  <2>4. CASE MainStep
    BY <2>4, NAssumption DEF MainStep, Wake, StopResumes, Drained, MainTo, IInv, StoppedSoFar
  <2> QED
    BY <2>1, <2>2, <2>3, <2>4 DEF Next, StartAll, vars
<1> QED
  BY <1>1 DEF StopRest

LEMMA UserWalkEnds ==
    ASSUME IInv, [Next]_vars, pos["user"] # N + 1, pos'["user"] = N + 1
    PROVE  UserShutdown \/ UserResumes
<1>1. CASE UserInterrupted \/ CancelStart
  BY <1>1, NAssumption DEF UserInterrupted, CancelStart, IInv, TypeOK
<1>2. CASE \E m \in Mgrs : MgrStep(m)
  BY <1>2 DEF MgrStep, Connect, Fail, Disconnect, Left, Cancel, Move
<1>3. CASE MainStep
  <2>1. ASSUME NEW i, StopRest(i) PROVE pos'["user"] = pos["user"]
    BY <2>1 DEF StopRest, Walk, IInv, TypeOK
  <2> QED
    BY <1>3, <2>1 DEF MainStep, Wake, StopResumes, Drained, MainTo
<1> QED
  BY <1>1, <1>2, <1>3 DEF Next, StartAll, vars

\* Whoever walks, and whatever was cut short before: a walk that comes to its
\* end has told every manager.
THEOREM WalksTellAll == Spec => ShutdownTellsAll
<1>1. ASSUME IInv, [Next]_vars, NEW w \in Walkers, pos[w] # N + 1, pos'[w] = N + 1
      PROVE  \A m \in Mgrs : mode'[m] = "CLOSING"
  <2>1. CASE w = "start"
    BY <1>1, <2>1, StartWalkEnds, NextIInv, NAssumption DEF IInv, StoppedSoFar
  <2>2. CASE w = "user"
    <3>1. CASE UserShutdown
      BY <1>1, <2>2, <3>1, UserWalkIInv, NAssumption DEF UserShutdown
    <3>2. CASE UserResumes
      <4>1. /\ pos["user"] + 1 \in 1..(N + 1)
            /\ \A m \in Mgrs : m < pos["user"] + 1 => mode[m] = "CLOSING"
        BY <1>1, <3>2, NAssumption DEF UserResumes, IInv, StoppedSoFar
      <4> QED
        BY <1>1, <2>2, <3>2, <4>1, UserWalkIInv DEF UserResumes
    <3> QED
      BY <1>1, <2>2, <3>1, <3>2, UserWalkEnds
  <2> QED
    BY <2>1, <2>2
<1>2. IInv /\ [Next]_vars =>
        [\A w \in Walkers : pos[w] # N + 1 /\ pos'[w] = N + 1 =>
            \A m \in Mgrs : mode'[m] = "CLOSING"]_vars
  BY <1>1
<1> QED
  BY <1>2, Inductive, PTL DEF Spec, ShutdownTellsAll

-----------------------------------------------------------------------------
\* Conformance: what happens to one manager is a step of its lifecycle, or none.
LEMMA WalkConforms ==
    ASSUME IInv, NEW w \in Walkers, NEW i \in 1..(N + 1), Walk(w, i), NEW m \in Mgrs
    PROVE  [Manager(m)!Next]_(Manager(m)!vars)
<1>1. PICK next \in {k \in i..N : MaySuspend(k)} \cup {N + 1} :
         /\ \A k \in i..(next - 1) : ~Suspends(k)
         /\ mode' = [k \in Mgrs |-> IF k \in i..next THEN "CLOSING" ELSE mode[k]]
         /\ told' = [k \in Mgrs |-> told[k] \/ (k = next /\ Suspends(k) /\ phase[k] = "connected")]
         /\ UNCHANGED <<phase, fate>>
  BY DEF Walk
<1>2. next \in Int
  BY <1>1, NAssumption
<1>3. TypeOK /\ ToldIsClosing
  BY DEF IInv
<1>4. CASE m \notin i..next \/ mode[m] = "CLOSING"
  <2>1. mode'[m] = mode[m]
    BY <1>1, <1>3, <1>4 DEF TypeOK
  <2>2. m = next => ~Suspends(m)
    BY <1>2, <1>4 DEF Suspends
  <2>3. told'[m] = told[m]
    BY <1>1, <1>3, <2>2 DEF TypeOK
  <2> QED
    BY <1>1, <2>1, <2>3 DEF Manager!vars
<1>5. CASE m \in i..next /\ mode[m] # "CLOSING"
  <2>1. mode'[m] = "CLOSING" /\ ~told[m]
    BY <1>1, <1>3, <1>5 DEF ToldIsClosing
  <2>2. told'[m] = (m = next /\ Suspends(m) /\ phase[m] = "connected")
    BY <1>1, <2>1
  <2>3. phase[m] = "connected" => Suspends(m)
    BY <1>5 DEF Suspends
  <2>4. phase[m] = "connected" => m = next
    BY <1>1, <1>2, <1>5, <2>3
  <2>5. told'[m] = (phase[m] = "connected")
    BY <2>2, <2>3, <2>4
  <2> QED
    BY <1>1, <1>5, <2>1, <2>5 DEF Manager!Next, Manager!Shutdown
<1> QED
  BY <1>4, <1>5

LEMMA MgrConforms ==
    ASSUME IInv, NEW k \in Mgrs, MgrStep(k), NEW m \in Mgrs
    PROVE  [Manager(m)!Next]_(Manager(m)!vars)
<1>1. TypeOK
  BY DEF IInv
<1>2. CASE k # m
  BY <1>1, <1>2 DEF MgrStep, Connect, Fail, Disconnect, Left, Cancel, Move, TypeOK,
                    Manager!vars
<1>3. CASE k = m
  <2>1. phase[m] # "connected" => ~told[m]
    BY DEF IInv, ToldIsClosing
  <2>2. ASSUME NEW p, NEW f, Move(m, p, f)
        PROVE  /\ phase'[m] = p /\ fate'[m] = f /\ told'[m] = FALSE
               /\ mode'[m] = mode[m]
    BY <1>1, <2>2 DEF Move, TypeOK
  <2>3. CASE Connect(m)
    BY <1>1, <2>1, <2>2, <2>3 DEF Connect, TypeOK, Manager!Next, Manager!Connect
  <2>4. CASE Fail(m)
    BY <1>1, <2>1, <2>2, <2>4 DEF Fail, TypeOK, Manager!Next, Manager!Fail
  <2>5. CASE Disconnect(m)
    BY <1>1, <2>2, <2>5 DEF Disconnect, TypeOK, Manager!Next, Manager!Disconnect
  <2>6. CASE Left(m)
    BY <1>1, <2>1, <2>2, <2>6 DEF Left, TypeOK, Manager!Next, Manager!Left
  <2>7. CASE Cancel(m)
    BY <1>1, <2>2, <2>7 DEF Cancel, TypeOK, Manager!Next, Manager!Cancel
  <2> QED
    BY <1>3, <2>3, <2>4, <2>5, <2>6, <2>7 DEF MgrStep
<1> QED
  BY <1>2, <1>3

LEMMA StepConforms ==
    ASSUME IInv, [Next]_vars, NEW m \in Mgrs
    PROVE  [Manager(m)!Next]_(Manager(m)!vars)
<1> USE NAssumption
<1>1. CASE UNCHANGED mgrVars
  BY <1>1 DEF mgrVars, Manager!vars
<1>2. CASE StartAll
  BY <1>2 DEF StartAll, IInv, TypeOK, Manager!vars, Manager!Next, Manager!Start
<1>3. CASE \E k \in Mgrs : MgrStep(k)
  BY <1>3, MgrConforms
<1>4. CASE UserShutdown \/ UserResumes
  BY <1>4, WalkConforms DEF UserShutdown, UserResumes
<1>5. ASSUME NEW i \in 1..(N + 1), StopRest(i)
      PROVE  [Manager(m)!Next]_(Manager(m)!vars)
  BY <1>5, WalkConforms DEF StopRest
<1>6. CASE Wake
  BY <1>1, <1>5, <1>6 DEF Wake, MainTo
<1>7. CASE StopResumes
  <2>1. pos["start"] + 1 \in 1..(N + 1)
    BY <1>7 DEF StopResumes, IInv, StoppedSoFar
  <2> QED
    BY <1>5, <1>7, <2>1 DEF StopResumes
<1> QED
  BY <1>1, <1>2, <1>3, <1>4, <1>6, <1>7
     DEF Next, vars, MainStep, Drained, MainTo, CancelStart, UserInterrupted

\* Every manager in this module is a lifecycle: what WsManager guarantees of
\* one connection is all that is used here.
THEOREM Conformance == Spec => ManagersConform
<1>1. IInv /\ [Next]_vars => [\A m \in Mgrs : [Manager(m)!Next]_(Manager(m)!vars)]_vars
  BY StepConforms
<1> QED
  BY <1>1, Inductive, PTL DEF Spec, ManagersConform
=============================================================================
