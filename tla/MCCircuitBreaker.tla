-------------------------- MODULE MCCircuitBreaker --------------------------
(* CircuitBreaker for TLC: its constants are given in the .cfg files.       *)
EXTENDS CircuitBreaker

=============================================================================
