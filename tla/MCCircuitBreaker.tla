-------------------------- MODULE MCCircuitBreaker --------------------------
(* Small instances of CircuitBreaker for TLC. *)
EXTENDS CircuitBreaker

CONSTANTS c1, c2, c3

MCCallers2 == {c1, c2}
MCCallers3 == {c1, c2, c3}
=============================================================================
