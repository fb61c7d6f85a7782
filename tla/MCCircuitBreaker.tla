--------------------------- MODULE MCCircuitBreaker ---------------------------
(* Three threads: the trial, a call let through before the breaker tripped, *)
(* and a third caller.  Two half-second ticks to the second, and a recovery *)
(* timeout that is no whole number of seconds.                              *)
EXTENDS CircuitBreakerProps
=============================================================================
