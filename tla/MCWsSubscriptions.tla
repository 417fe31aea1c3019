-------------------------- MODULE MCWsSubscriptions --------------------------
(* Two subscriptions from the start, one that is added later, and two calls  *)
(* of unsubscribe_subscriptions() for any of them.                           *)
EXTENDS WsSubscriptions, TLC

\* Sound for safety: neither the calls nor the first subscriptions differ.
Symmetry == Permutations(Initial) \cup Permutations(Calls)
=============================================================================
