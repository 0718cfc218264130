--------------------------- MODULE MCWebSocketHub ---------------------------
(* WebSocketHub for TLC. *)
EXTENDS WebSocketHub
=============================================================================
