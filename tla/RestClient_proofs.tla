-------------------------- MODULE RestClient_proofs --------------------------
(***************************************************************************)
(* Proofs about RestClient for any callers, closers and retry limits: the  *)
(* tokens across a revocation, conformance to the two components and the   *)
(* invariants inherited from them, and what close() leaves behind.         *)
(***************************************************************************)
EXTENDS RestClient, TLAPS

USE DEF Procs, Over

LEMMA InitRevocation == Init => RevocationInv
<1> SUFFICES ASSUME Init PROVE RevocationInv
  OBVIOUS
<1>1. 0 \in 0..(MaxRetries - 1)
  BY RetriesAssumption
<1>2. TypeOK
  BY <1>1, ProcsAssumption DEF Init, TypeOK
<1>3. RenewedMeetsNewToken
  BY DEF Init, RenewedMeetsNewToken
<1>4. SurvivesRevocation
  BY DEF Init, SurvivesRevocation
<1> QED
  BY <1>2, <1>3, <1>4 DEF RevocationInv

LEMMA StutterRevocation == RevocationInv /\ UNCHANGED vars => RevocationInv'
BY DEF vars, callVars, issueVars, RevocationInv, TypeOK, RenewedMeetsNewToken, SurvivesRevocation

-----------------------------------------------------------------------------
\* A step of the call of one caller that leaves the tokens alone and does not
\* end in a 401.
LEMMA MoveRevocation ==
    ASSUME RevocationInv, NEW p \in Callers,
           NEW where \in {"ready", "signing", "cleanup", "backoff", "done"},
           phase' = [phase EXCEPT ![p] = where],
           attempt' = attempt \/ attempt' = [attempt EXCEPT ![p] = attempt'[p]],
           attempt'[p] \in 0..(MaxRetries - 1),
           cause' \in [Callers -> {"none", "broken", "timeout", "cancelled"}],
           signed' \in {signed, [signed EXCEPT ![p] = "no"]},
           phase[p] \notin {"refreshing", "done"},
           UNCHANGED <<revoked, quiet, issueVars, renewed>>
    PROVE  RevocationInv'
<1>1. TypeOK'
  BY ProcsAssumption DEF issueVars, RevocationInv, TypeOK
<1>2. RenewedMeetsNewToken'
  BY DEF issueVars, RevocationInv, TypeOK, RenewedMeetsNewToken
<1>3. SurvivesRevocation'
  BY DEF issueVars, RevocationInv, TypeOK, SurvivesRevocation
<1> QED
  BY <1>1, <1>2, <1>3 DEF RevocationInv

\* Where the call goes and what becomes of its loop variable.
LEMMA GoToEffect ==
    ASSUME RevocationInv, NEW p \in Callers, NEW where, GoTo(p, where)
    PROVE  /\ phase' = [phase EXCEPT ![p] = where]
           /\ attempt' = attempt
           /\ attempt'[p] \in 0..(MaxRetries - 1)
BY DEF GoTo, RevocationInv, TypeOK

LEMMA EndEffect ==
    ASSUME RevocationInv, NEW p \in Callers, NEW how, End(p, how)
    PROVE  /\ phase' = [phase EXCEPT ![p] = how]
           /\ attempt' = [attempt EXCEPT ![p] = attempt'[p]]
           /\ attempt'[p] \in 0..(MaxRetries - 1)
BY RetriesAssumption DEF End, RevocationInv, TypeOK

LEMMA ContinueEffect ==
    ASSUME RevocationInv, NEW p \in Callers, Continue(p)
    PROVE  /\ phase' \in {[phase EXCEPT ![p] = "ready"], [phase EXCEPT ![p] = "done"]}
           /\ attempt' = [attempt EXCEPT ![p] = attempt'[p]]
           /\ attempt'[p] \in 0..(MaxRetries - 1)
<1>1. CASE attempt[p] + 1 < MaxRetries
  BY <1>1, RetriesAssumption DEF Continue, RevocationInv, TypeOK
<1>2. CASE ~(attempt[p] + 1 < MaxRetries)
  BY <1>2, EndEffect DEF Continue
<1> QED
  BY <1>1, <1>2

-----------------------------------------------------------------------------
\* Signing.
LEMMA SignCachedRevocation ==
    ASSUME RevocationInv, NEW p \in Callers, SignCached(p)
    PROVE  RevocationInv'
<1>1. /\ phase' = [phase EXCEPT ![p] = "sent"] /\ attempt' = attempt
      /\ signed' = [signed EXCEPT ![p] = cached]
      /\ UNCHANGED <<cause, revoked, quiet, renewed, cached, early, overtaken>>
      /\ phase[p] \in {"ready", "signing"}
  BY DEF SignCached, Send, GoTo, issueVars
<1>2. TypeOK'
  BY <1>1 DEF RevocationInv, TypeOK
<1>3. RenewedMeetsNewToken'
  BY <1>1 DEF RevocationInv, TypeOK, RenewedMeetsNewToken
<1>4. SurvivesRevocation'
  BY <1>1 DEF RevocationInv, TypeOK, SurvivesRevocation
<1> QED
  BY <1>2, <1>3, <1>4 DEF RevocationInv

\* What a refresh stores: only an older token over a newer one is overtaking.
LEMMA StoreEffect ==
    ASSUME RevocationInv, NEW p \in Callers, Store(p)
    PROVE  /\ cached' \in {"before", "after"}
           /\ revoked /\ ~early[p] => cached' = "after"
           /\ overtaken' \in BOOLEAN
           /\ overtaken => overtaken'
           /\ cached = "after" => cached' = "after" \/ overtaken'
           /\ early' = [early EXCEPT ![p] = FALSE]
BY DEF Store, RevocationInv, TypeOK

LEMMA SignRefreshedRevocation ==
    ASSUME RevocationInv, NEW p \in Callers, SignRefreshed(p)
    PROVE  RevocationInv'
<1>1. /\ phase' = [phase EXCEPT ![p] = "sent"] /\ attempt' = attempt
      /\ signed' = [signed EXCEPT ![p] = cached']
      /\ UNCHANGED <<cause, revoked, quiet, renewed>>
      /\ phase[p] = "signing" /\ Store(p)
  BY DEF SignRefreshed, Send, GoTo
<1>2. TypeOK'
  BY <1>1, StoreEffect DEF RevocationInv, TypeOK
<1>3. RenewedMeetsNewToken'
  BY <1>1, StoreEffect DEF RevocationInv, TypeOK, RenewedMeetsNewToken
<1>4. SurvivesRevocation'
  BY <1>1, StoreEffect DEF RevocationInv, TypeOK, SurvivesRevocation
<1> QED
  BY <1>2, <1>3, <1>4 DEF RevocationInv

LEMMA AwaitTokenRevocation ==
    ASSUME RevocationInv, NEW p \in Callers, AwaitToken(p)
    PROVE  RevocationInv'
<1>1. /\ phase' = [phase EXCEPT ![p] = "signing"] /\ attempt' = attempt
      /\ early' \in {early, [early EXCEPT ![p] = ~revoked]}
      /\ UNCHANGED <<cause, revoked, quiet, cached, overtaken, signed, renewed>>
      /\ phase[p] \in {"ready", "signing"}
  BY DEF AwaitToken, GoTo, Ask
<1>2. TypeOK'
  BY <1>1 DEF RevocationInv, TypeOK
<1>3. RenewedMeetsNewToken'
  BY <1>1 DEF RevocationInv, TypeOK, RenewedMeetsNewToken
<1>4. SurvivesRevocation'
  BY <1>1 DEF RevocationInv, TypeOK, SurvivesRevocation
<1> QED
  BY <1>2, <1>3, <1>4 DEF RevocationInv

\* A refresh that ends with a token or without, in an attempt that goes on or
\* in one that is over.
LEMMA RefreshOverRevocation ==
    ASSUME RevocationInv, NEW p \in Callers, NEW where \in {"ready", "backoff", "done"},
           phase' = [phase EXCEPT ![p] = where],
           attempt' = attempt \/ attempt' = [attempt EXCEPT ![p] = attempt'[p]],
           attempt'[p] \in 0..(MaxRetries - 1),
           \/ Store(p)
           \/ Discard(p) /\ (where = "done" \/ phase[p] = "signing"),
           phase[p] \in {"signing", "refreshing"},
           UNCHANGED <<cause, revoked, quiet, signed, renewed>>
    PROVE  RevocationInv'
<1>1. CASE Store(p)
  <2>1. TypeOK'
    BY <1>1, StoreEffect DEF RevocationInv, TypeOK
  <2>2. RenewedMeetsNewToken'
    BY <1>1, StoreEffect DEF RevocationInv, TypeOK, RenewedMeetsNewToken
  <2>3. SurvivesRevocation'
    BY <1>1, StoreEffect DEF RevocationInv, TypeOK, SurvivesRevocation
  <2> QED
    BY <2>1, <2>2, <2>3 DEF RevocationInv
<1>2. CASE Discard(p) /\ (where = "done" \/ phase[p] = "signing")
  <2>1. TypeOK'
    BY <1>2 DEF Discard, RevocationInv, TypeOK
  <2>2. RenewedMeetsNewToken'
    BY <1>2 DEF Discard, RevocationInv, TypeOK, RenewedMeetsNewToken
  <2>3. SurvivesRevocation'
    BY <1>2 DEF Discard, RevocationInv, TypeOK, SurvivesRevocation
  <2> QED
    BY <2>1, <2>2, <2>3 DEF RevocationInv
<1> QED
  BY <1>1, <1>2

LEMMA SignFailsRevocation ==
    ASSUME RevocationInv, NEW p \in Callers, SignFails(p)
    PROVE  RevocationInv'
<1>1. /\ phase[p] = "signing"
      /\ UNCHANGED <<cause, revoked, quiet, signed, renewed>>
      /\ \/ Discard(p) /\ (End(p, "done") \/ GoTo(p, "backoff"))
         \/ Store(p) /\ End(p, "done")
  BY DEF SignFails
<1> QED
  BY <1>1, EndEffect, GoToEffect, RefreshOverRevocation

LEMMA AfterRefreshRevocation ==
    ASSUME RevocationInv, NEW p \in Callers, Refreshed(p) \/ RefreshFails(p) PROVE RevocationInv'
<1>1. /\ phase[p] = "refreshing"
      /\ UNCHANGED <<cause, revoked, quiet, signed, renewed>>
      /\ \/ Store(p) /\ (Continue(p) \/ End(p, "done"))
         \/ Discard(p) /\ End(p, "done")
  BY DEF Refreshed, RefreshFails
<1> QED
  BY <1>1, EndEffect, ContinueEffect, RefreshOverRevocation

-----------------------------------------------------------------------------
\* The request and its clean-up.
LEMMA AnsweredRevocation ==
    ASSUME RevocationInv, NEW p \in Callers, Answered(p)
    PROVE  RevocationInv'
<1>1. /\ phase[p] = "sent"
      /\ signed' = [signed EXCEPT ![p] = "no"]
      /\ UNCHANGED <<cause, revoked, quiet, issueVars, renewed>>
      /\ End(p, "done") \/ GoTo(p, "backoff")
  BY DEF Answered, RequestOver, issueVars
<1>2. cause' \in [Callers -> {"none", "broken", "timeout", "cancelled"}]
  BY <1>1 DEF RevocationInv, TypeOK
<1> QED
  BY <1>1, <1>2, EndEffect, GoToEffect, MoveRevocation

LEMMA UnauthorizedRevocation ==
    ASSUME RevocationInv, NEW p \in Callers, Unauthorized(p)
    PROVE  RevocationInv'
<1>1. /\ phase[p] = "sent" /\ revoked /\ signed[p] = "before"
      /\ signed' = [signed EXCEPT ![p] = "no"]
      /\ UNCHANGED <<cause, revoked, quiet, cached, overtaken>>
  BY DEF Unauthorized, RequestOver
<1>2. CASE /\ GoTo(p, "refreshing") /\ Ask(p)
           /\ renewed' = [renewed EXCEPT ![p] = TRUE]
  <2>1. TypeOK'
    BY <1>1, <1>2 DEF GoTo, Ask, RevocationInv, TypeOK
  <2>2. RenewedMeetsNewToken'
    BY <1>1, <1>2 DEF GoTo, Ask, RevocationInv, TypeOK, RenewedMeetsNewToken
  <2>3. SurvivesRevocation'
    BY <1>1, <1>2 DEF GoTo, Ask, RevocationInv, TypeOK, SurvivesRevocation
  <2> QED
    BY <2>1, <2>2, <2>3 DEF RevocationInv
<1>3. CASE End(p, "denied") /\ UNCHANGED <<early, renewed>>
  <2>1. TypeOK'
    BY <1>1, <1>3, EndEffect DEF RevocationInv, TypeOK
  <2>2. RenewedMeetsNewToken'
    BY <1>1, <1>3, EndEffect DEF RevocationInv, TypeOK, RenewedMeetsNewToken
  <2>3. SurvivesRevocation'
    BY <1>1, <1>3, EndEffect DEF RevocationInv, TypeOK, RenewedMeetsNewToken, SurvivesRevocation
  <2> QED
    BY <2>1, <2>2, <2>3 DEF RevocationInv
<1> QED
  BY <1>2, <1>3 DEF Unauthorized

LEMMA PropagateRevocation ==
    ASSUME RevocationInv, NEW p \in Callers, NEW why, Propagate(p, why),
           phase[p] \in {"sent", "cleanup"},
           signed' \in {signed, [signed EXCEPT ![p] = "no"]},
           UNCHANGED <<revoked, quiet, issueVars, renewed>>
    PROVE  RevocationInv'
<1>1. cause' \in [Callers -> {"none", "broken", "timeout", "cancelled"}]
  BY DEF Propagate, RevocationInv, TypeOK
<1>2. End(p, "done") \/ GoTo(p, "backoff")
  BY DEF Propagate
<1> QED
  BY <1>1, <1>2, EndEffect, GoToEffect, MoveRevocation

LEMMA RequestFailsRevocation ==
    ASSUME RevocationInv, NEW p \in Callers, RequestFails(p)
    PROVE  RevocationInv'
<1>1. /\ phase[p] = "sent"
      /\ signed' = [signed EXCEPT ![p] = "no"]
      /\ UNCHANGED <<revoked, quiet, issueVars, renewed>>
  BY DEF RequestFails
<1>2. PICK why \in {"broken", "timeout", "cancelled"} :
         \/ Propagate(p, why)
         \/ cause' = [cause EXCEPT ![p] = why] /\ GoTo(p, "cleanup")
  BY DEF RequestFails
<1>3. CASE Propagate(p, why)
  BY <1>1, <1>3, PropagateRevocation
<1>4. CASE cause' = [cause EXCEPT ![p] = why] /\ GoTo(p, "cleanup")
  <2>1. cause' \in [Callers -> {"none", "broken", "timeout", "cancelled"}]
    BY <1>4 DEF RevocationInv, TypeOK
  <2> QED
    BY <1>1, <1>4, <2>1, GoToEffect, MoveRevocation
<1> QED
  BY <1>2, <1>3, <1>4

LEMMA CleanupRevocation ==
    ASSUME RevocationInv, NEW p \in Callers, Cleanup(p) \/ CleanupCut(p) PROVE RevocationInv'
<1>1. /\ phase[p] = "cleanup"
      /\ UNCHANGED <<revoked, quiet, issueVars, signed, renewed>>
      /\ \/ \E why : Propagate(p, why)
         \/ GoTo(p, "cleanup") /\ UNCHANGED cause
  BY DEF Cleanup, CleanupCut
<1>2. CASE \E why : Propagate(p, why)
  BY <1>1, <1>2, PropagateRevocation
<1>3. CASE GoTo(p, "cleanup") /\ UNCHANGED cause
  <2>1. cause' \in [Callers -> {"none", "broken", "timeout", "cancelled"}]
    BY <1>3 DEF RevocationInv, TypeOK
  <2> QED
    BY <1>1, <1>3, <2>1, GoToEffect, MoveRevocation
<1> QED
  BY <1>1, <1>2, <1>3

LEMMA BackoffRevocation ==
    ASSUME RevocationInv, NEW p \in Callers, BackoffOver(p)
    PROVE  RevocationInv'
<1>1. /\ phase[p] = "backoff"
      /\ UNCHANGED <<cause, revoked, quiet, issueVars, signed, renewed>>
      /\ Continue(p) \/ End(p, "done")
  BY DEF BackoffOver
<1>2. cause' \in [Callers -> {"none", "broken", "timeout", "cancelled"}]
  BY <1>1 DEF RevocationInv, TypeOK
<1> QED
  BY <1>1, <1>2, EndEffect, ContinueEffect, MoveRevocation

-----------------------------------------------------------------------------
\* close() does not touch the calls.
LEMMA CloserRevocation ==
    ASSUME RevocationInv, NEW k \in Closers, CloseStep(k) \/ CloseFails(k) PROVE RevocationInv'
<1>1. /\ \E where \in {"rest", "jwt", "closed", "failed"} : GoTo(k, where)
      /\ UNCHANGED <<cause, revoked, issueVars, signed, renewed>>
      /\ quiet' \in [Closers -> BOOLEAN]
  BY DEF CloseStep, CloseRest, CloseJwt, JwtClosed, CloseFails, RevocationInv, TypeOK
<1>2. PICK where \in {"rest", "jwt", "closed", "failed"} :
         phase' = [phase EXCEPT ![k] = where] /\ attempt' = attempt
  BY <1>1 DEF GoTo
<1>3. TypeOK'
  BY <1>1, <1>2 DEF issueVars, RevocationInv, TypeOK
<1>4. \A p \in Callers : phase'[p] = phase[p]
  BY <1>2, ProcsAssumption DEF RevocationInv, TypeOK
<1>5. RenewedMeetsNewToken' /\ SurvivesRevocation'
  BY <1>1, <1>4 DEF issueVars, RevocationInv, RenewedMeetsNewToken, SurvivesRevocation
<1> QED
  BY <1>3, <1>5 DEF RevocationInv

LEMMA WorldRevocation == RevocationInv /\ (Tick \/ Revoke) => RevocationInv'
BY DEF Tick, Revoke, callVars, issueVars, RevocationInv, TypeOK, RenewedMeetsNewToken,
       SurvivesRevocation

LEMMA NextRevocation == RevocationInv /\ [Next]_vars => RevocationInv'
BY StutterRevocation, SignCachedRevocation, SignRefreshedRevocation,
   AwaitTokenRevocation, SignFailsRevocation, AfterRefreshRevocation,
   AnsweredRevocation, UnauthorizedRevocation, RequestFailsRevocation,
   CleanupRevocation, BackoffRevocation, CloserRevocation, WorldRevocation
   DEF Next, CallStep

-----------------------------------------------------------------------------
LEMMA Revocation == Spec => []RevocationInv
BY InitRevocation, NextRevocation, PTL DEF Spec

\* A call that has refreshed its token after a 401 is refused again only if a
\* refresh that began before the revocation has overwritten a newer token.
THEOREM Survives == Spec => []SurvivesRevocation
<1>1. RevocationInv => SurvivesRevocation
  BY DEF RevocationInv
<1> QED
  BY <1>1, Revocation, PTL

-----------------------------------------------------------------------------
\* Conformance: what a step does to the session and to the token is a step of
\* theirs, or none.
LEMMA CallConformsToSession ==
    ASSUME NEW p \in Callers, CallStep(p) \/ CleanupCut(p)
    PROVE  [Session!Next]_(Session!vars)
<1> USE DEF Session!Procs
<1>1. CASE UNCHANGED sessionVars
  BY <1>1 DEF sessionVars, Session!vars
<1>2. CASE \/ Session!StartRequest(p) \/ Session!RequestDone(p) \/ Session!RequestFails(p)
           \/ Session!ResumeRecreate(p)
  BY <1>2 DEF Session!Next, Session!CallerStep
<1>3. CASE Session!CloseDone(p) \/ Session!CloseInterrupted(p) \/ Session!CancelWaiting(p)
  BY <1>3 DEF Session!Next, Session!SectionStep
<1> QED
  BY <1>1, <1>2, <1>3
     DEF CallStep, SignCached, SignRefreshed, Send, AwaitToken, SignFails, Answered,
         Unauthorized, RequestOver, RequestFails, Cleanup, CleanupCut, Refreshed,
         RefreshFails, BackoffOver

LEMMA CloseConformsToSession ==
    ASSUME NEW k \in Closers, CloseStep(k) \/ CloseFails(k)
    PROVE  [Session!Next]_(Session!vars)
<1> USE DEF Session!Procs
<1>1. CASE UNCHANGED sessionVars
  BY <1>1 DEF sessionVars, Session!vars
<1>2. CASE Session!StartClose(k) \/ Session!ResumeClose(k)
  BY <1>2 DEF Session!Next, Session!CloserStep
<1>3. CASE Session!CloseDone(k) \/ Session!CloseInterrupted(k) \/ Session!CancelWaiting(k)
  BY <1>3 DEF Session!Next, Session!SectionStep
<1> QED
  BY <1>1, <1>2, <1>3 DEF CloseStep, CloseRest, JwtClosed, CloseFails

LEMMA NextConformsToSession == [Next]_vars => [Session!Next]_(Session!vars)
BY CallConformsToSession, CloseConformsToSession
   DEF Next, Tick, Revoke, vars, sessionVars, Session!vars

LEMMA CallConformsToJwt ==
    ASSUME NEW p \in Callers, CallStep(p) \/ CleanupCut(p)
    PROVE  [Jwt!Next]_(Jwt!vars)
<1>1. CASE UNCHANGED tokenVars
  BY <1>1 DEF tokenVars, Jwt!vars, Jwt!tokenVars, Jwt!sessionVars
<1>2. CASE \/ Jwt!EnsureCached(p) \/ Jwt!EnsureStale(p) \/ Jwt!EnsureResumed(p)
           \/ Jwt!CancelWaiting(p) \/ Jwt!Answered(p) \/ Jwt!Unauthorized(p)
           \/ Jwt!RefreshOk(p) \/ Jwt!RefreshUndecodable(p)
           \/ Jwt!RefreshRefused(p) \/ Jwt!RefreshAborted(p)
  BY <1>2 DEF Jwt!Next, Jwt!RefreshEnds
<1> QED
  BY <1>1, <1>2
     DEF CallStep, SignCached, SignRefreshed, AwaitToken, SignFails, Answered,
         Unauthorized, RequestFails, Cleanup, CleanupCut, Refreshed, RefreshFails,
         BackoffOver

LEMMA CloseConformsToJwt ==
    ASSUME NEW k \in Closers, CloseStep(k) \/ CloseFails(k)
    PROVE  [Jwt!Next]_(Jwt!vars)
<1>1. CASE UNCHANGED tokenVars
  BY <1>1 DEF tokenVars, Jwt!vars, Jwt!tokenVars, Jwt!sessionVars
<1>2. CASE Jwt!StartClose(k) \/ Jwt!CloseDone(k) \/ Jwt!CloseInterrupted(k)
  BY <1>2 DEF Jwt!Next
<1> QED
  BY <1>1, <1>2 DEF CloseStep, CloseRest, CloseJwt, JwtClosed, CloseFails

LEMMA NextConformsToJwt == [Next]_vars => [Jwt!Next]_(Jwt!vars)
BY CallConformsToJwt, CloseConformsToJwt
   DEF Next, Tick, Revoke, Jwt!Next, vars, tokenVars, Jwt!vars, Jwt!tokenVars,
       Jwt!sessionVars

\* The calls of a client do to the shared session and to the token only what
\* RestSession and JwtToken model.
THEOREM Conformance == Spec => PartsConform
<1>1. Init => Session!Init /\ Jwt!Init
  BY DEF Init
<1>2. [Next]_vars => [Session!Next]_(Session!vars)
  BY NextConformsToSession
<1>3. [Next]_vars => [Jwt!Next]_(Jwt!vars)
  BY NextConformsToJwt
<1> QED
  BY <1>1, <1>2, <1>3, PTL DEF Spec, PartsConform, Session!Spec, Jwt!Spec

-----------------------------------------------------------------------------
(* The invariants of the parts.  The proofs modules of the two components   *)
(* are instantiated with the variables of the composition; what they call   *)
(* a step is what the composition calls one.                                *)

SessionProofs == INSTANCE RestSession_proofs
    WITH Sessions <- RestSessions, lockQueue <- slock, pc <- spc
JwtProofs == INSTANCE JwtToken_proofs
    WITH Sessions <- JwtSessions, lockQueue <- jlock, pc <- jpc, open <- jopen

LEMMA PartsAssumptions ==
    NoSession \notin RestSessions /\ NoSession \notin JwtSessions
BY NoSessionAssumption

\* The steps of the session.
LEMMA SameSessionSteps ==
    ASSUME NEW p
    PROVE  /\ Session!StartRequest(p) => SessionProofs!StartRequest(p)
           /\ Session!RequestDone(p) => SessionProofs!RequestDone(p)
           /\ Session!RequestFails(p) => SessionProofs!RequestFails(p)
           /\ Session!ResumeRecreate(p) => SessionProofs!ResumeRecreate(p)
           /\ Session!StartClose(p) => SessionProofs!StartClose(p)
           /\ Session!ResumeClose(p) => SessionProofs!ResumeClose(p)
           /\ Session!CloseDone(p) => SessionProofs!CloseDone(p)
           /\ Session!CloseInterrupted(p) => SessionProofs!CloseInterrupted(p)
           /\ Session!CancelWaiting(p) => SessionProofs!CancelWaiting(p)
<1>1. Session!StartRequest(p) => SessionProofs!StartRequest(p)
  BY DEF Session!StartRequest, SessionProofs!StartRequest, Session!Suspend,
         SessionProofs!Suspend, Session!NewSession, SessionProofs!NewSession,
         Session!Procs, SessionProofs!Procs
<1>2. Session!RequestDone(p) => SessionProofs!RequestDone(p)
  BY DEF Session!RequestDone, SessionProofs!RequestDone, Session!Return,
         SessionProofs!Return, Session!Suspend, SessionProofs!Suspend
<1>3. Session!RequestFails(p) => SessionProofs!RequestFails(p)
  BY DEF Session!RequestFails, SessionProofs!RequestFails, Session!EnterRecreate,
         SessionProofs!EnterRecreate, Session!WaitForLock,
         SessionProofs!WaitForLock, Session!BeginClose, SessionProofs!BeginClose,
         Session!Leave, SessionProofs!Leave, Session!Return, SessionProofs!Return,
         Session!Suspend, SessionProofs!Suspend
<1>4. Session!ResumeRecreate(p) => SessionProofs!ResumeRecreate(p)
  BY DEF Session!ResumeRecreate, SessionProofs!ResumeRecreate, Session!Woken,
         SessionProofs!Woken, Session!EnterRecreate, SessionProofs!EnterRecreate,
         Session!BeginClose, SessionProofs!BeginClose, Session!Leave,
         SessionProofs!Leave, Session!Return, SessionProofs!Return, Session!Suspend,
         SessionProofs!Suspend
<1>5. Session!StartClose(p) => SessionProofs!StartClose(p)
  BY DEF Session!StartClose, SessionProofs!StartClose, Session!EnterClose,
         SessionProofs!EnterClose, Session!WaitForLock, SessionProofs!WaitForLock,
         Session!BeginClose, SessionProofs!BeginClose, Session!Leave,
         SessionProofs!Leave, Session!Return, SessionProofs!Return, Session!Suspend,
         SessionProofs!Suspend
<1>6. Session!ResumeClose(p) => SessionProofs!ResumeClose(p)
  BY DEF Session!ResumeClose, SessionProofs!ResumeClose, Session!Woken,
         SessionProofs!Woken, Session!EnterClose, SessionProofs!EnterClose,
         Session!BeginClose, SessionProofs!BeginClose, Session!Leave,
         SessionProofs!Leave, Session!Return, SessionProofs!Return, Session!Suspend,
         SessionProofs!Suspend
<1>7. Session!CloseDone(p) => SessionProofs!CloseDone(p)
  BY DEF Session!CloseDone, SessionProofs!CloseDone, Session!Forget,
         SessionProofs!Forget, Session!Leave, SessionProofs!Leave, Session!Return,
         SessionProofs!Return, Session!Suspend, SessionProofs!Suspend
<1>8. Session!CloseInterrupted(p) => SessionProofs!CloseInterrupted(p)
  BY DEF Session!CloseInterrupted, SessionProofs!CloseInterrupted, Session!Leave,
         SessionProofs!Leave, Session!Return, SessionProofs!Return, Session!Suspend,
         SessionProofs!Suspend
<1>9. Session!CancelWaiting(p) => SessionProofs!CancelWaiting(p)
  BY DEF Session!CancelWaiting, SessionProofs!CancelWaiting, Session!Return,
         SessionProofs!Return, Session!Suspend, SessionProofs!Suspend,
         Session!RemoveAt, SessionProofs!RemoveAt
<1> QED
  BY <1>1, <1>2, <1>3, <1>4, <1>5, <1>6, <1>7, <1>8, <1>9

\* The steps of the token.
LEMMA SameTokenSteps ==
    ASSUME NEW p
    PROVE  /\ Jwt!EnsureCached(p) => JwtProofs!EnsureCached(p)
           /\ Jwt!EnsureStale(p) => JwtProofs!EnsureStale(p)
           /\ Jwt!EnsureResumed(p) => JwtProofs!EnsureResumed(p)
           /\ Jwt!CancelWaiting(p) => JwtProofs!CancelWaiting(p)
           /\ Jwt!Answered(p) => JwtProofs!Answered(p)
           /\ Jwt!Unauthorized(p) => JwtProofs!Unauthorized(p)
           /\ Jwt!RefreshEnds(p) => JwtProofs!RefreshEnds(p)
           /\ Jwt!StartClose(p) => JwtProofs!StartClose(p)
           /\ Jwt!CloseDone(p) => JwtProofs!CloseDone(p)
           /\ Jwt!CloseInterrupted(p) => JwtProofs!CloseInterrupted(p)
<1>1. Jwt!EnsureCached(p) => JwtProofs!EnsureCached(p)
  BY DEF Jwt!EnsureCached, JwtProofs!EnsureCached, Jwt!Fresh, JwtProofs!Fresh,
         Jwt!GoTo, JwtProofs!GoTo, Jwt!tokenVars, JwtProofs!tokenVars,
         Jwt!sessionVars, JwtProofs!sessionVars
<1>2. Jwt!EnsureStale(p) => JwtProofs!EnsureStale(p)
  BY DEF Jwt!EnsureStale, JwtProofs!EnsureStale, Jwt!Fresh, JwtProofs!Fresh,
         Jwt!BeginRefresh, JwtProofs!BeginRefresh, Jwt!NewSession,
         JwtProofs!NewSession, Jwt!GoTo, JwtProofs!GoTo, Jwt!tokenVars,
         JwtProofs!tokenVars, Jwt!sessionVars, JwtProofs!sessionVars
<1>3. Jwt!EnsureResumed(p) => JwtProofs!EnsureResumed(p)
  BY DEF Jwt!EnsureResumed, JwtProofs!EnsureResumed, Jwt!Fresh, JwtProofs!Fresh,
         Jwt!BeginRefresh, JwtProofs!BeginRefresh, Jwt!NewSession,
         JwtProofs!NewSession, Jwt!GoTo, JwtProofs!GoTo, Jwt!tokenVars,
         JwtProofs!tokenVars, Jwt!sessionVars, JwtProofs!sessionVars
<1>4. Jwt!CancelWaiting(p) => JwtProofs!CancelWaiting(p)
  BY DEF Jwt!CancelWaiting, JwtProofs!CancelWaiting, Jwt!GoTo, JwtProofs!GoTo,
         Jwt!RemoveAt, JwtProofs!RemoveAt, Jwt!tokenVars, JwtProofs!tokenVars,
         Jwt!sessionVars, JwtProofs!sessionVars
<1>5. Jwt!Answered(p) => JwtProofs!Answered(p)
  BY DEF Jwt!Answered, JwtProofs!Answered, Jwt!GoTo, JwtProofs!GoTo, Jwt!tokenVars,
         JwtProofs!tokenVars, Jwt!sessionVars, JwtProofs!sessionVars
<1>6. Jwt!Unauthorized(p) => JwtProofs!Unauthorized(p)
  BY DEF Jwt!Unauthorized, JwtProofs!Unauthorized, Jwt!BeginRefresh,
         JwtProofs!BeginRefresh, Jwt!NewSession, JwtProofs!NewSession, Jwt!GoTo,
         JwtProofs!GoTo, Jwt!tokenVars, JwtProofs!tokenVars, Jwt!sessionVars,
         JwtProofs!sessionVars
<1>7. Jwt!RefreshEnds(p) => JwtProofs!RefreshEnds(p)
  BY DEF Jwt!RefreshEnds, JwtProofs!RefreshEnds, Jwt!RefreshOk, JwtProofs!RefreshOk,
         Jwt!RefreshUndecodable, JwtProofs!RefreshUndecodable, Jwt!RefreshRefused,
         JwtProofs!RefreshRefused, Jwt!RefreshAborted, JwtProofs!RefreshAborted,
         Jwt!EndRefresh, JwtProofs!EndRefresh, Jwt!Refreshing, JwtProofs!Refreshing,
         Jwt!GoTo, JwtProofs!GoTo, Jwt!tokenVars, JwtProofs!tokenVars
<1>8. Jwt!StartClose(p) => JwtProofs!StartClose(p)
  BY DEF Jwt!StartClose, JwtProofs!StartClose, Jwt!GoTo, JwtProofs!GoTo,
         Jwt!tokenVars, JwtProofs!tokenVars
<1>9. Jwt!CloseDone(p) => JwtProofs!CloseDone(p)
  BY DEF Jwt!CloseDone, JwtProofs!CloseDone, Jwt!GoTo, JwtProofs!GoTo,
         Jwt!tokenVars, JwtProofs!tokenVars
<1>10. Jwt!CloseInterrupted(p) => JwtProofs!CloseInterrupted(p)
  BY DEF Jwt!CloseInterrupted, JwtProofs!CloseInterrupted, Jwt!GoTo, JwtProofs!GoTo,
         Jwt!tokenVars, JwtProofs!tokenVars, Jwt!sessionVars, JwtProofs!sessionVars
<1> QED
  BY <1>1, <1>2, <1>3, <1>4, <1>5, <1>6, <1>7, <1>8, <1>9, <1>10

LEMMA SameSession ==
    /\ Session!Init => SessionProofs!Init
    /\ [Session!Next]_(Session!vars) => [SessionProofs!Next]_(SessionProofs!vars)
    /\ Session!IInv <=> SessionProofs!IInv
<1>1. Session!Init => SessionProofs!Init
  BY DEF Session!Init, SessionProofs!Init, Session!Procs, SessionProofs!Procs
<1>2. [Session!Next]_(Session!vars) => [SessionProofs!Next]_(SessionProofs!vars)
  BY SameSessionSteps
     DEF Session!Next, SessionProofs!Next, Session!CallerStep,
         SessionProofs!CallerStep, Session!CloserStep, SessionProofs!CloserStep,
         Session!SectionStep, SessionProofs!SectionStep, Session!Procs,
         SessionProofs!Procs, Session!vars, SessionProofs!vars
<1>3. Session!IInv <=> SessionProofs!IInv
  BY DEF Session!IInv, SessionProofs!IInv, Session!TypeOK, SessionProofs!TypeOK,
         Session!NoLeakedSession, SessionProofs!NoLeakedSession,
         Session!HolderIsHead, SessionProofs!HolderIsHead, Session!ClosingIsClosed,
         SessionProofs!ClosingIsClosed, Session!Procs, SessionProofs!Procs,
         Session!OptSession, SessionProofs!OptSession
<1> QED
  BY <1>1, <1>2, <1>3

LEMMA SameToken ==
    /\ Jwt!Init => JwtProofs!Init
    /\ [Jwt!Next]_(Jwt!vars) => [JwtProofs!Next]_(JwtProofs!vars)
    /\ Jwt!IInv <=> JwtProofs!IInv
<1>1. Jwt!Init => JwtProofs!Init
  BY DEF Jwt!Init, JwtProofs!Init, Jwt!Procs, JwtProofs!Procs
<1>2. Jwt!Tick => JwtProofs!Tick
  BY DEF Jwt!Tick, JwtProofs!Tick, Jwt!sessionVars, JwtProofs!sessionVars
<1>3. UNCHANGED Jwt!vars => UNCHANGED JwtProofs!vars
  BY DEF Jwt!vars, JwtProofs!vars, Jwt!tokenVars, JwtProofs!tokenVars,
         Jwt!sessionVars, JwtProofs!sessionVars
<1>4. [Jwt!Next]_(Jwt!vars) => [JwtProofs!Next]_(JwtProofs!vars)
  BY <1>2, <1>3, SameTokenSteps DEF Jwt!Next, JwtProofs!Next
<1>5. Jwt!IInv <=> JwtProofs!IInv
  BY DEF Jwt!IInv, JwtProofs!IInv, Jwt!LockInv, JwtProofs!LockInv, Jwt!TypeOK,
         JwtProofs!TypeOK, Jwt!HolderIsHead, JwtProofs!HolderIsHead,
         Jwt!LockedRefreshNeeded, JwtProofs!LockedRefreshNeeded,
         Jwt!BadTokenNotServed, JwtProofs!BadTokenNotServed, Jwt!DroppedIsStale,
         JwtProofs!DroppedIsStale, Jwt!SessionsReferenced,
         JwtProofs!SessionsReferenced, Jwt!Refreshing, JwtProofs!Refreshing,
         Jwt!Fresh, JwtProofs!Fresh, Jwt!Procs, JwtProofs!Procs, Jwt!OptSession,
         JwtProofs!OptSession
<1> QED
  BY <1>1, <1>4, <1>5

\* What is proved of the shared session and of the token alone holds of them
\* when concurrent calls and close() drive both.
THEOREM PartsKeepTheirInvariants == Spec => [](Session!IInv /\ Jwt!IInv)
<1>1. Init => SessionProofs!Init /\ JwtProofs!Init
  BY SameSession, SameToken DEF Init
<1>2. [Next]_vars => [SessionProofs!Next]_(SessionProofs!vars)
  BY NextConformsToSession, SameSession
<1>3. [Next]_vars => [JwtProofs!Next]_(JwtProofs!vars)
  BY NextConformsToJwt, SameToken
<1>4. SessionProofs!Spec => []SessionProofs!IInv
  BY SessionProofs!Inductive, ProcsAssumption, PartsAssumptions
<1>5. JwtProofs!Spec => []JwtProofs!IInv
  BY JwtProofs!Inductive, ProcsAssumption, TTLAssumption, PartsAssumptions
<1>6. SessionProofs!IInv /\ JwtProofs!IInv => Session!IInv /\ Jwt!IInv
  BY SameSession, SameToken
<1> QED
  BY <1>1, <1>2, <1>3, <1>4, <1>5, <1>6, PTL
     DEF Spec, SessionProofs!Spec, JwtProofs!Spec

-----------------------------------------------------------------------------
(* Where a task is.                                                          *)

\* The step p makes in the session, and the one it makes in the token.
SpcMoves(p, from, to) == spc[p] \in from /\ \E w \in to : spc' = [spc EXCEPT ![p] = w]

JpcMoves(p, from, to) == jpc[p] \in from /\ \E w \in to : jpc' = [jpc EXCEPT ![p] = w]

PhaseMoves(p, to) == \E w \in to : phase' = [phase EXCEPT ![p] = w]

LEMMA SessionMoves ==
    ASSUME NEW p
    PROVE  /\ Session!StartRequest(p) => SpcMoves(p, {"idle"}, {"inflight"})
           /\ Session!RequestDone(p) => SpcMoves(p, {"inflight"}, {"idle"})
           /\ Session!RequestFails(p) =>
                 SpcMoves(p, {"inflight"}, {"idle", "waiting", "closing"})
           /\ Session!ResumeRecreate(p) => SpcMoves(p, {"waiting"}, {"idle", "closing"})
           /\ Session!StartClose(p) =>
                 SpcMoves(p, {"idle"}, {"idle", "waiting", "closing"})
           /\ Session!ResumeClose(p) => SpcMoves(p, {"waiting"}, {"idle", "closing"})
           /\ Session!CloseDone(p) => SpcMoves(p, {"closing"}, {"idle"})
           /\ Session!CloseInterrupted(p) => SpcMoves(p, {"closing"}, {"idle"})
           /\ Session!CancelWaiting(p) => SpcMoves(p, {"waiting"}, {"idle"})
BY DEF SpcMoves, Session!StartRequest, Session!RequestDone, Session!RequestFails,
       Session!ResumeRecreate, Session!StartClose, Session!ResumeClose,
       Session!CloseDone, Session!CloseInterrupted, Session!CancelWaiting,
       Session!EnterRecreate, Session!EnterClose, Session!BeginClose, Session!Leave,
       Session!WaitForLock, Session!Return, Session!Suspend, Session!Woken

LEMMA TokenMoves ==
    ASSUME NEW p
    PROVE  /\ Jwt!EnsureCached(p) => JpcMoves(p, {"idle"}, {"signed"})
           /\ Jwt!EnsureStale(p) => JpcMoves(p, {"idle"}, {"refreshing", "waiting"})
           /\ Jwt!EnsureResumed(p) => JpcMoves(p, {"waiting"}, {"signed", "refreshing"})
           /\ Jwt!CancelWaiting(p) => JpcMoves(p, {"waiting"}, {"idle"})
           /\ Jwt!Answered(p) => JpcMoves(p, {"signed"}, {"idle"})
           /\ Jwt!Unauthorized(p) => JpcMoves(p, {"signed"}, {"direct"})
           /\ Jwt!RefreshOk(p) => \/ JpcMoves(p, {"refreshing"}, {"signed"})
                                  \/ JpcMoves(p, {"direct"}, {"idle"})
           /\ Jwt!RefreshUndecodable(p) \/ Jwt!RefreshRefused(p) \/ Jwt!RefreshAborted(p) =>
                 JpcMoves(p, {"refreshing", "direct"}, {"idle"})
           /\ Jwt!StartClose(p) => JpcMoves(p, {"idle"}, {"closing"})
           /\ Jwt!CloseDone(p) \/ Jwt!CloseInterrupted(p) => JpcMoves(p, {"closing"}, {"idle"})
BY DEF JpcMoves, Jwt!EnsureCached, Jwt!EnsureStale, Jwt!EnsureResumed, Jwt!CancelWaiting,
       Jwt!Answered, Jwt!Unauthorized, Jwt!RefreshOk, Jwt!RefreshUndecodable,
       Jwt!RefreshRefused, Jwt!RefreshAborted, Jwt!StartClose, Jwt!CloseDone,
       Jwt!CloseInterrupted, Jwt!BeginRefresh, Jwt!EndRefresh, Jwt!Refreshing, Jwt!GoTo

\* Types of the three, from the invariants of the composition and its parts.
LEMMA PlaceTypes ==
    ASSUME IInv
    PROVE  /\ spc \in [Procs -> {"idle", "inflight", "waiting", "closing"}]
           /\ jpc \in [Procs -> {"idle", "signed", "waiting", "refreshing", "direct",
                                 "closing"}]
           /\ DOMAIN phase = Procs
BY DEF IInv, RevocationInv, TypeOK, Session!IInv, Session!TypeOK, Session!Procs,
       Jwt!IInv, Jwt!LockInv, Jwt!TypeOK, Jwt!Procs

\* What a step of one task does to its place leaves the others where they are.
LEMMA OneMoves ==
    ASSUME IInv, NEW p \in Procs, PhaseMoves(p, {phase'[p]}),
           spc' = spc \/ spc' = [spc EXCEPT ![p] = spc'[p]],
           jpc' = jpc \/ jpc' = [jpc EXCEPT ![p] = jpc'[p]],
           InPhase(p)'
    PROVE  PartsInPhase'
<1> SUFFICES ASSUME NEW q \in Procs, q # p PROVE InPhase(q)'
  BY DEF PartsInPhase
<1>1. phase'[q] = phase[q] /\ spc'[q] = spc[q] /\ jpc'[q] = jpc[q]
  BY PlaceTypes DEF PhaseMoves
<1> QED
  BY <1>1 DEF IInv, ClosingInv, PartsInPhase, InPhase

\* The steps of a call.
LEMMA Endings ==
    ASSUME NEW p, NEW how, NEW where, NEW why
    PROVE  /\ GoTo(p, where) => PhaseMoves(p, {where})
           /\ End(p, how) => PhaseMoves(p, {how})
           /\ Continue(p) => PhaseMoves(p, {"ready", "done"})
           /\ Propagate(p, why) => PhaseMoves(p, {"done", "backoff"})
BY DEF GoTo, End, Continue, Propagate, PhaseMoves

LEMMA SigningInPhase ==
    ASSUME IInv, NEW p \in Callers,
           SignCached(p) \/ SignRefreshed(p) \/ AwaitToken(p) \/ SignFails(p)
    PROVE  PartsInPhase'
<1>1. InPhase(p) /\ p \in Procs
  BY DEF IInv, ClosingInv, PartsInPhase
<1>2. CASE SignCached(p)
  <2>1. SpcMoves(p, {"idle"}, {"inflight"}) /\ PhaseMoves(p, {"sent"})
    BY <1>2, SessionMoves, Endings DEF SignCached, Send
  <2>2. JpcMoves(p, {"idle", "waiting"}, {"signed"})
    BY <1>2, TokenMoves, PlaceTypes DEF SignCached, JpcMoves
  <2> QED
    BY <1>1, <2>1, <2>2, OneMoves, PlaceTypes DEF SpcMoves, JpcMoves, PhaseMoves, InPhase
<1>3. CASE SignRefreshed(p)
  <2>1. SpcMoves(p, {"idle"}, {"inflight"}) /\ PhaseMoves(p, {"sent"})
    BY <1>3, SessionMoves, Endings DEF SignRefreshed, Send
  <2>2. phase[p] = "signing" /\ jpc[p] # "direct"
    BY <1>1, <1>3 DEF SignRefreshed, InPhase
  <2>3. JpcMoves(p, {"refreshing"}, {"signed"})
    BY <1>3, <2>2, TokenMoves DEF SignRefreshed, JpcMoves
  <2> QED
    BY <1>1, <2>1, <2>3, OneMoves, PlaceTypes DEF SpcMoves, JpcMoves, PhaseMoves, InPhase
<1>4. CASE AwaitToken(p)
  <2>1. UNCHANGED spc /\ PhaseMoves(p, {"signing"}) /\ phase[p] \in {"ready", "signing"}
    BY <1>4, Endings DEF AwaitToken, sessionVars
  <2>2. JpcMoves(p, {"idle", "waiting"}, {"waiting", "refreshing"})
    BY <1>4, TokenMoves, PlaceTypes DEF AwaitToken, JpcMoves
  <2> QED
    BY <1>1, <2>1, <2>2, OneMoves, PlaceTypes DEF JpcMoves, PhaseMoves, InPhase
<1>5. CASE SignFails(p)
  <2>1. UNCHANGED spc /\ phase[p] = "signing"
    BY <1>5 DEF SignFails, sessionVars
  <2>2. PhaseMoves(p, {"done"}) \/ PhaseMoves(p, {"backoff"})
    BY <1>5, Endings DEF SignFails
  <2>3. JpcMoves(p, {"waiting", "refreshing", "direct"}, {"idle"})
    BY <1>5, TokenMoves DEF SignFails, JpcMoves
  <2> QED
    BY <1>1, <2>1, <2>2, <2>3, OneMoves, PlaceTypes DEF JpcMoves, PhaseMoves, InPhase
<1> QED
  BY <1>2, <1>3, <1>4, <1>5

LEMMA RequestInPhase ==
    ASSUME IInv, NEW p \in Callers, Answered(p) \/ Unauthorized(p) \/ RequestFails(p)
    PROVE  PartsInPhase'
<1>1. InPhase(p) /\ p \in Procs
  BY DEF IInv, ClosingInv, PartsInPhase
<1>2. CASE Answered(p)
  <2>1. SpcMoves(p, {"inflight"}, {"idle"}) /\ JpcMoves(p, {"signed"}, {"idle"})
    BY <1>2, SessionMoves, TokenMoves DEF Answered, RequestOver
  <2>2. PhaseMoves(p, {"done", "backoff"})
    <3>1. PhaseMoves(p, {"done"}) \/ PhaseMoves(p, {"backoff"})
      BY <1>2, Endings DEF Answered
    <3> QED
      BY <3>1 DEF PhaseMoves
  <2> QED
    BY <1>1, <2>1, <2>2, OneMoves, PlaceTypes DEF SpcMoves, JpcMoves, PhaseMoves, InPhase
<1>3. CASE Unauthorized(p)
  <2>1. SpcMoves(p, {"inflight"}, {"idle"})
    BY <1>3, SessionMoves DEF Unauthorized, RequestOver
  <2>2. \/ JpcMoves(p, {"signed"}, {"direct"}) /\ PhaseMoves(p, {"refreshing"})
        \/ JpcMoves(p, {"signed"}, {"idle"}) /\ PhaseMoves(p, {"denied"})
    BY <1>3, TokenMoves, Endings DEF Unauthorized
  <2> QED
    BY <1>1, <2>1, <2>2, OneMoves, PlaceTypes DEF SpcMoves, JpcMoves, PhaseMoves, InPhase
<1>4. CASE RequestFails(p)
  <2>1. /\ SpcMoves(p, {"inflight"}, {"idle", "waiting", "closing"})
        /\ JpcMoves(p, {"signed"}, {"idle"})
    BY <1>4, SessionMoves, TokenMoves DEF RequestFails
  <2>2. IF spc'[p] = "idle" THEN PhaseMoves(p, {"done", "backoff"})
        ELSE PhaseMoves(p, {"cleanup"})
    BY <1>4, Endings DEF RequestFails
  <2> QED
    BY <1>1, <2>1, <2>2, OneMoves, PlaceTypes DEF SpcMoves, JpcMoves, PhaseMoves, InPhase
<1> QED
  BY <1>2, <1>3, <1>4

LEMMA CleanupInPhase ==
    ASSUME IInv, NEW p \in Callers, Cleanup(p) \/ CleanupCut(p)
    PROVE  PartsInPhase'
<1>1. InPhase(p) /\ p \in Procs
  BY DEF IInv, ClosingInv, PartsInPhase
<1>2. UNCHANGED jpc /\ phase[p] = "cleanup"
  BY DEF Cleanup, CleanupCut, tokenVars
<1>3. SpcMoves(p, {"waiting", "closing"}, {"idle", "closing"})
  BY SessionMoves DEF Cleanup, CleanupCut, SpcMoves
<1>4. IF spc'[p] = "idle" THEN PhaseMoves(p, {"done", "backoff"})
      ELSE PhaseMoves(p, {"cleanup"})
  <2>1. CASE Cleanup(p)
    BY <2>1, Endings DEF Cleanup
  <2>2. CASE CleanupCut(p)
    <3>1. SpcMoves(p, {"waiting", "closing"}, {"idle"})
      BY <2>2, SessionMoves DEF CleanupCut, SpcMoves
    <3> QED
      BY <2>2, <3>1, <1>1, Endings, PlaceTypes DEF CleanupCut, SpcMoves
  <2> QED
    BY <2>1, <2>2
<1> QED
  BY <1>1, <1>2, <1>3, <1>4, OneMoves, PlaceTypes DEF SpcMoves, PhaseMoves, InPhase

LEMMA AfterInPhase ==
    ASSUME IInv, NEW p \in Callers, Refreshed(p) \/ RefreshFails(p) \/ BackoffOver(p)
    PROVE  PartsInPhase'
<1>1. InPhase(p) /\ p \in Procs
  BY DEF IInv, ClosingInv, PartsInPhase
<1>2. UNCHANGED spc /\ (PhaseMoves(p, {"ready", "done"}) \/ PhaseMoves(p, {"done"}))
  BY Endings DEF Refreshed, RefreshFails, BackoffOver, sessionVars
<1>3. CASE Refreshed(p) \/ RefreshFails(p)
  <2>1. phase[p] = "refreshing" /\ jpc[p] = "direct"
    BY <1>1, <1>3 DEF Refreshed, RefreshFails, InPhase
  <2>2. JpcMoves(p, {"refreshing", "direct"}, {"idle"})
    BY <1>3, <2>1, TokenMoves DEF Refreshed, RefreshFails, JpcMoves
  <2> QED
    BY <1>1, <1>2, <2>1, <2>2, OneMoves, PlaceTypes DEF JpcMoves, PhaseMoves, InPhase
<1>4. CASE BackoffOver(p)
  <2>1. UNCHANGED jpc /\ phase[p] = "backoff"
    BY <1>4 DEF BackoffOver, tokenVars
  <2> QED
    BY <1>1, <1>2, <2>1, OneMoves, PlaceTypes DEF PhaseMoves, InPhase
<1> QED
  BY <1>3, <1>4

\* The steps of close().
LEMMA CloseRestSteps ==
    ASSUME IInv, NEW k \in Closers, CloseRest(k)
    PROVE  /\ InPhase(k) /\ k \in Procs
           /\ \/ SpcMoves(k, {"idle"}, {"idle", "waiting", "closing"}) /\ phase[k] = "idle"
              \/ SpcMoves(k, {"waiting", "closing"}, {"idle", "closing"}) /\ phase[k] = "rest"
           /\ \/ /\ spc'[k] # "idle" /\ PhaseMoves(k, {"rest"}) /\ UNCHANGED tokenVars
              \/ spc'[k] = "idle" /\ Jwt!StartClose(k) /\ PhaseMoves(k, {"jwt"})
              \/ /\ spc'[k] = "idle" /\ jwtSession \notin jopen
                 /\ PhaseMoves(k, {"closed"}) /\ UNCHANGED tokenVars
<1>1. InPhase(k) /\ k \in Procs
  BY DEF IInv, ClosingInv, PartsInPhase
<1>2. \/ SpcMoves(k, {"idle"}, {"idle", "waiting", "closing"}) /\ phase[k] = "idle"
      \/ SpcMoves(k, {"waiting", "closing"}, {"idle", "closing"}) /\ phase[k] = "rest"
  BY SessionMoves DEF CloseRest, SpcMoves
<1> QED
  BY <1>1, <1>2, Endings DEF CloseRest, CloseJwt

LEMMA CloserInPhase ==
    ASSUME IInv, NEW k \in Closers, CloseStep(k) \/ CloseFails(k)
    PROVE  PartsInPhase'
<1>1. InPhase(k) /\ k \in Procs
  BY DEF IInv, ClosingInv, PartsInPhase
<1>2. CASE CloseRest(k)
  <2>1. /\ spc' = [spc EXCEPT ![k] = spc'[k]]
        /\ spc'[k] \in {"idle", "waiting", "closing"}
    BY <1>1, <1>2, CloseRestSteps, PlaceTypes DEF SpcMoves
  <2>2. jpc[k] = "idle"
    BY <1>1, <1>2, CloseRestSteps, PlaceTypes DEF InPhase
  <2>3. CASE spc'[k] # "idle" /\ PhaseMoves(k, {"rest"}) /\ UNCHANGED tokenVars
    <3>1. UNCHANGED jpc /\ phase'[k] = "rest"
      BY <1>1, <2>3, PlaceTypes DEF tokenVars, PhaseMoves
    <3>2. InPhase(k)'
      BY <2>1, <2>2, <2>3, <3>1 DEF InPhase
    <3> QED
      BY <1>1, <2>1, <2>3, <3>1, <3>2, OneMoves
  <2>4. CASE spc'[k] = "idle" /\ Jwt!StartClose(k) /\ PhaseMoves(k, {"jwt"})
    <3>1. JpcMoves(k, {"idle"}, {"closing"})
      BY <2>4, TokenMoves
    <3>2. /\ jpc' = [jpc EXCEPT ![k] = jpc'[k]] /\ jpc'[k] = "closing"
          /\ phase'[k] = "jwt"
      BY <1>1, <2>4, <3>1, PlaceTypes DEF JpcMoves, PhaseMoves
    <3>3. InPhase(k)'
      BY <2>4, <3>2 DEF InPhase
    <3> QED
      BY <1>1, <2>1, <2>4, <3>2, <3>3, OneMoves
  <2>5. CASE spc'[k] = "idle" /\ PhaseMoves(k, {"closed"}) /\ UNCHANGED tokenVars
    <3>1. UNCHANGED jpc /\ phase'[k] = "closed"
      BY <1>1, <2>5, PlaceTypes DEF tokenVars, PhaseMoves
    <3>2. InPhase(k)'
      BY <2>2, <2>5, <3>1 DEF InPhase
    <3> QED
      BY <1>1, <2>1, <2>5, <3>1, <3>2, OneMoves
  <2> QED
    BY <1>2, <2>3, <2>4, <2>5, CloseRestSteps
<1>3. CASE JwtClosed(k) \/ CloseFails(k)
  <2>1. PhaseMoves(k, {"closed", "failed"})
    BY <1>3, Endings DEF JwtClosed, CloseFails, PhaseMoves
  <2>2. \/ /\ phase[k] = "jwt" /\ UNCHANGED spc
           /\ JpcMoves(k, {"closing"}, {"idle"})
        \/ /\ phase[k] = "rest" /\ UNCHANGED jpc
           /\ SpcMoves(k, {"waiting", "closing"}, {"idle"})
    BY <1>3, SessionMoves, TokenMoves
       DEF JwtClosed, CloseFails, sessionVars, tokenVars, SpcMoves
  <2> QED
    BY <1>1, <2>1, <2>2, OneMoves, PlaceTypes DEF SpcMoves, JpcMoves, PhaseMoves, InPhase
<1> QED
  BY <1>2, <1>3 DEF CloseStep

LEMMA NextInPhase == IInv /\ [Next]_vars => PartsInPhase'
<1>1. ASSUME IInv, Tick \/ Revoke \/ UNCHANGED vars
      PROVE  PartsInPhase'
  <2>1. UNCHANGED <<phase, spc, jpc>>
    BY <1>1 DEF Tick, Revoke, Jwt!Tick, vars, sessionVars, tokenVars, callVars
  <2> QED
    BY <1>1, <2>1 DEF IInv, ClosingInv, PartsInPhase, InPhase
<1> QED
  BY <1>1, SigningInPhase, RequestInPhase, CleanupInPhase, AfterInPhase, CloserInPhase
     DEF Next, CallStep

-----------------------------------------------------------------------------
(* What close() leaves behind.                                               *)

\* A step of a call is made while a call is under way.
LEMMA CallIsUnderWay ==
    ASSUME NEW p \in Callers, CallStep(p) \/ CleanupCut(p)
    PROVE  ~Quiet /\ quiet' = quiet
BY DEF CallStep, CleanupCut, Quiet, SignCached, SignRefreshed, Send, AwaitToken, SignFails,
       Answered, Unauthorized, RequestOver, RequestFails, Cleanup, Refreshed, RefreshFails,
       BackoffOver

\* Without calls under way nothing but the session of the client is open.
LEMMA NothingElseOpen ==
    ASSUME IInv, Quiet
    PROVE  open \subseteq {restSession} /\ jopen \subseteq {jwtSession}
<1>1. open \subseteq {restSession}
  BY DEF IInv, Session!IInv, Session!NoLeakedSession
<1>2. \A p \in Callers : using[p] = NoSession
  BY DEF IInv, ClosingInv, PartsInPhase, InPhase, Quiet, Jwt!IInv, Jwt!SessionsReferenced,
         Jwt!Refreshing
<1>3. NoSession \notin jopen
  BY PartsAssumptions DEF IInv, Jwt!IInv, Jwt!LockInv, Jwt!TypeOK
<1>4. jopen \subseteq {jwtSession}
  BY <1>2, <1>3 DEF IInv, Jwt!IInv, Jwt!SessionsReferenced
<1> QED
  BY <1>1, <1>4

\* close() opens nothing, whoever else is under way.
LEMMA ClosersShrink ==
    ASSUME NEW k \in Closers, CloseStep(k) \/ CloseFails(k)
    PROVE  open' \subseteq open /\ jopen' \subseteq jopen
<1>1. open' \subseteq open
  BY DEF CloseStep, CloseRest, JwtClosed, CloseFails, sessionVars, Session!StartClose,
         Session!ResumeClose, Session!CloseDone, Session!CloseInterrupted,
         Session!CancelWaiting, Session!EnterClose, Session!BeginClose, Session!Leave,
         Session!WaitForLock
<1>2. jopen' \subseteq jopen
  BY DEF CloseStep, CloseRest, CloseJwt, JwtClosed, CloseFails, tokenVars, Jwt!StartClose,
         Jwt!CloseDone, Jwt!CloseInterrupted, Jwt!sessionVars
<1> QED
  BY <1>1, <1>2

\* The first half of close(): when it goes past the lock the session is closed.
LEMMA RestClosed ==
    ASSUME IInv, Quiet, NEW k \in Closers, CloseRest(k), phase[k] = "rest" => quiet[k]
    PROVE  spc'[k] = "waiting" \/ open' = {}
<1>1. k \in Procs /\ open \subseteq {restSession}
  BY NothingElseOpen
<1>2. ASSUME NEW q, Session!EnterClose(k, q)
      PROVE  open' = {}
  BY <1>1, <1>2 DEF Session!EnterClose, Session!BeginClose, Session!Leave
<1>3. ASSUME Session!WaitForLock(k, NoSession)
      PROVE  spc'[k] = "waiting"
  BY <1>1, <1>3, PlaceTypes DEF Session!WaitForLock, Session!Suspend
<1>4. CASE Session!StartClose(k) \/ Session!ResumeClose(k)
  BY <1>2, <1>3, <1>4 DEF Session!StartClose, Session!ResumeClose
<1>5. CASE phase[k] = "rest" /\ Session!CloseDone(k)
  <2>1. spc[k] = "closing" /\ quiet[k] /\ open' = open
    BY <1>5 DEF Session!CloseDone, Session!Leave
  <2> QED
    BY <1>5, <2>1 DEF IInv, ClosingInv, QuietStaysClosed
<1> QED
  BY <1>4, <1>5 DEF CloseRest

\* The second half, which follows without an await.
LEMMA JwtIsClosed ==
    ASSUME IInv, Quiet, NEW k,
           Jwt!StartClose(k) \/ (jwtSession \notin jopen /\ UNCHANGED tokenVars)
    PROVE  jopen' = {}
BY NothingElseOpen DEF Jwt!StartClose, tokenVars

LEMMA CloserQuiet ==
    ASSUME IInv, NEW k \in Closers, CloseStep(k) \/ CloseFails(k)
    PROVE  QuietStaysClosed'
<1> SUFFICES ASSUME NEW c \in Closers, quiet'[c]
             PROVE  /\ Quiet'
                    /\ phase'[c] = "rest" /\ spc'[c] = "closing" => open' = {}
                    /\ phase'[c] \in {"jwt", "closed"} => open' = {} /\ jopen' = {}
  BY DEF QuietStaysClosed
<1>1. k \in Procs /\ c \in Procs /\ DOMAIN quiet = Closers
  BY DEF IInv, RevocationInv, TypeOK
<1>2. \E w : GoTo(k, w)
  BY DEF CloseStep, CloseRest, CloseJwt, JwtClosed, CloseFails
<1>3. \A q \in Procs \ {k} : phase'[q] = phase[q]
  BY <1>2, PlaceTypes DEF GoTo
<1>4. \/ quiet[c]
      \/ c = k /\ CloseRest(k) /\ phase[k] = "idle" /\ Quiet
  BY <1>1 DEF CloseStep, CloseRest, JwtClosed, CloseFails
<1>5. Quiet
  BY <1>4 DEF IInv, ClosingInv, QuietStaysClosed
<1>6. Quiet'
  BY <1>1, <1>3, <1>5, ProcsAssumption DEF Quiet
<1>7. CASE c # k
  <2>1. quiet[c] /\ phase'[c] = phase[c]
    BY <1>1, <1>3, <1>4, <1>7
  <2>2. spc'[c] = spc[c]
    BY <1>1, <1>7, SessionMoves, PlaceTypes
       DEF CloseStep, CloseRest, JwtClosed, CloseFails, sessionVars, SpcMoves
  <2> QED
    BY <1>6, <2>1, <2>2, ClosersShrink DEF IInv, ClosingInv, QuietStaysClosed
<1>8. CASE c = k /\ CloseRest(k)
  <2>1. phase[k] = "rest" => quiet[k]
    BY <1>4, <1>8
  <2>2. spc'[k] = "waiting" \/ open' = {}
    BY <1>5, <1>8, <2>1, RestClosed
  <2>3. phase'[k] \in {"jwt", "closed"} => spc'[k] = "idle" /\ jopen' = {}
    BY <1>1, <1>5, <1>8, CloseRestSteps, JwtIsClosed, PlaceTypes DEF PhaseMoves
  <2> QED
    BY <1>6, <1>8, <2>2, <2>3
<1>9. CASE c = k /\ JwtClosed(k)
  <2>1. phase[k] = "jwt" /\ quiet[k]
    BY <1>9, <1>4 DEF JwtClosed, CloseRest
  <2>2. open = {} /\ jopen = {} /\ phase'[k] = "closed"
    BY <1>1, <1>9, <2>1, PlaceTypes DEF JwtClosed, GoTo, IInv, ClosingInv, QuietStaysClosed
  <2> QED
    BY <1>6, <1>9, <2>2, ClosersShrink DEF CloseStep
<1>10. CASE c = k /\ CloseFails(k)
  BY <1>1, <1>6, <1>10, PlaceTypes DEF CloseFails, GoTo
<1> QED
  BY <1>7, <1>8, <1>9, <1>10 DEF CloseStep

LEMMA NextQuiet == IInv /\ [Next]_vars => QuietStaysClosed'
<1>1. ASSUME IInv, Tick \/ Revoke \/ UNCHANGED vars
      PROVE  QuietStaysClosed'
  <2>1. UNCHANGED <<phase, spc, open, jopen, quiet>>
    BY <1>1 DEF Tick, Revoke, Jwt!Tick, Jwt!sessionVars, vars, sessionVars, tokenVars, callVars
  <2> QED
    BY <1>1, <2>1 DEF IInv, ClosingInv, QuietStaysClosed, Quiet
<1>2. ASSUME IInv, NEW p \in Callers, CallStep(p) \/ CleanupCut(p)
      PROVE  QuietStaysClosed'
  BY <1>2, CallIsUnderWay DEF IInv, ClosingInv, QuietStaysClosed
<1> QED
  BY <1>1, <1>2, CloserQuiet DEF Next

-----------------------------------------------------------------------------
\* The inductive invariant holds in every reachable state.
THEOREM Inductive == Spec => []IInv
<1>1. Init => ClosingInv
  BY ProcsAssumption
     DEF Init, Session!Init, Session!Procs, Jwt!Init, Jwt!Procs, ClosingInv, PartsInPhase,
         InPhase, QuietStaysClosed
<1>2. RevocationInv /\ ClosingInv /\ Session!IInv /\ Jwt!IInv /\ [Next]_vars => ClosingInv'
  BY NextInPhase, NextQuiet DEF IInv, ClosingInv
<1>3. RevocationInv /\ ClosingInv /\ Session!IInv /\ Jwt!IInv => IInv
  BY DEF IInv
<1> QED
  BY <1>1, <1>2, <1>3, Revocation, PartsKeepTheirInvariants, PTL DEF Spec

\* However many tasks close the client at once, one whose close() began when no
\* call was under way leaves neither session open.
THEOREM CloseCloses == Spec => []ClosedIsClosed
<1>1. IInv => ClosedIsClosed
  BY DEF IInv, ClosingInv, QuietStaysClosed, ClosedIsClosed
<1> QED
  BY <1>1, Inductive, PTL

\* Whatever overlapped: when no call is under way, the client refers to every
\* session that is open.
THEOREM ClosesLater == Spec => []NothingForgotten
<1>1. IInv => NothingForgotten
  BY NothingElseOpen DEF NothingForgotten
<1> QED
  BY <1>1, Inductive, PTL
=============================================================================
