----------------------------- MODULE OrderCall -----------------------------
(***************************************************************************)
(* What a mutating REST call of AlorClient promises to the code that makes *)
(* it: the order is executed at most once, a returned call was executed, a *)
(* rejected one never is, and every other failure leaves the outcome open: *)
(* the broker may still execute the order after the call has failed.       *)
(***************************************************************************)
EXTENDS Naturals

VARIABLES
    executions,     \* how often the broker executed the order
    result          \* what the call told its user

vars == <<executions, result>>

Init == executions = 0 /\ result = "pending"

Execute ==
    /\ executions = 0
    /\ result # "rejected"
    /\ executions' = 1
    /\ UNCHANGED result

Return == result = "pending" /\ executions = 1 /\ result' = "ok" /\ UNCHANGED executions

Reject == result = "pending" /\ executions = 0 /\ result' = "rejected" /\ UNCHANGED executions

GiveUp == result = "pending" /\ result' = "unknown" /\ UNCHANGED executions

Answer == Return \/ Reject \/ GiveUp

Next == Execute \/ Answer

\* Every call comes back to its user.
Spec == Init /\ [][Next]_vars /\ WF_vars(Answer)
============================================================================
