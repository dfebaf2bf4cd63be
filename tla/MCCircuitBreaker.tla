-------------------------- MODULE MCCircuitBreaker --------------------------
(* Three concurrent deliveries through a breaker that opens after two       *)
(* consecutive failures: enough for a probe and two stragglers.             *)
EXTENDS CircuitBreaker
=============================================================================
