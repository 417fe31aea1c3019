---------------------------- MODULE OneSession ----------------------------
(***************************************************************************)
(* What MBClient promises about the aiohttp session all its callers share: *)
(* at any time at most one session is open, and a new one is opened only   *)
(* after the previous one was closed, so that no connection pool is left   *)
(* open without an owner.                                                  *)
(***************************************************************************)
CONSTANT Sessions

VARIABLE open       \* the sessions that are open

Init == open = {}

Open  == open = {} /\ \E s \in Sessions : open' = {s}
Close == open # {} /\ open' = {}

Next == Open \/ Close

Spec == Init /\ [][Next]_open
============================================================================
