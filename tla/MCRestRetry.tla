---------------------------- MODULE MCRestRetry ----------------------------
(* One call with the source's limits: three attempts, one 401 retry.        *)
EXTENDS RestRetry

============================================================================
