----------------------------- MODULE MCJwtToken -----------------------------
(* Callers that sign requests, a task that closes the client, and a session  *)
(* identity for each other caller, for the client and for the next session.  *)
EXTENDS JwtToken

=============================================================================
