--------------------------- MODULE MCRestSession ---------------------------
(* Three callers and a closer.  Sessions: one for each other task, the      *)
(* current one and one more, so that a fresh identity never runs out.       *)
EXTENDS RestSession

============================================================================
