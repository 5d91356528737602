---------------------------- MODULE MCTrapClient -----------------------------
(* The transports of the page: a WebSocket and, second in line, HTTP. *)
EXTENDS TrapClient

MCKind == <<"websocket", "http">>
=============================================================================
