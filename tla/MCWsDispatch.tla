---------------------------- MODULE MCWsDispatch ----------------------------
(* Three subscriptions: two ordinary callbacks, a callable without a name    *)
(* beside an ordinary one, and a plain function among ordinary ones.         *)
EXTENDS WsDispatch

MCCallbacks ==
    [bars   |-> <<"coroutine", "coroutine">>,
     orders |-> <<"coroutine", "nameless">>,
     trades |-> <<"coroutine", "plain", "coroutine">>]

=============================================================================
