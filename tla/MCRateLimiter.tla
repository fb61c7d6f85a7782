---------------------------- MODULE MCRateLimiter ----------------------------
(* Two requests per window of three half-second ticks, over more than two   *)
(* windows: windows that start anywhere, and a Retry-After rounded up.      *)
EXTENDS RateLimiter, TLC

Symmetry == Permutations(Clients)
=============================================================================
