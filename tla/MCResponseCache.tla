---------------------------- MODULE MCResponseCache ----------------------------
(* Three keys for two slots, two threads, and a clock that runs past the    *)
(* lifetime: eviction by age and by room, and sets later than their expiry. *)
EXTENDS ResponseCache

Symmetry == Permutations(Threads) \cup Permutations(Keys)
=============================================================================
