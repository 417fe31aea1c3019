---------------------------- MODULE MCWsManager ----------------------------
(* A manager with two subscriptions that reconnects, as AlorWebsocket does.  *)
EXTENDS WsManager

=============================================================================
