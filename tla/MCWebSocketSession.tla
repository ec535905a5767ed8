-------------------------- MODULE MCWebSocketSession --------------------------
(* Model checking of the delivery of messages to interchangeable clients.    *)
EXTENDS WebSocketSession

CONSTANTS c1, c2

SessionSymmetry == Permutations(Session)
===============================================================================
