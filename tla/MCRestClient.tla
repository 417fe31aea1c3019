---------------------------- MODULE MCRestClient ----------------------------
(* Two calls and a close() with two attempts each, so that a 401 is the      *)
(* answer to the first or to the last attempt.                               *)
EXTENDS RestClient

=============================================================================
