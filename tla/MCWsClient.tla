----------------------------- MODULE MCWsClient -----------------------------
(* Three subscription sets, one of them between two others in every walk.   *)
EXTENDS WsClient

=============================================================================
