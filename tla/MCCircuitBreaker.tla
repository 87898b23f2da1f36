-------------------------- MODULE MCCircuitBreaker --------------------------
(* A small instance of CircuitBreaker: three concurrent calls, thresholds   *)
(* above one so that the counters matter, Timeout < ResetTimeout.           *)
EXTENDS CircuitBreaker

CONSTANTS c1, c2, c3
=============================================================================
