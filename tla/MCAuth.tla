------------------------------- MODULE MCAuth -------------------------------
(* Two requests and two keys that Entra may publish and withdraw in turn:   *)
(* a rotation under way while one request refreshes and the other decodes.  *)
EXTENDS Auth, TLC

Symmetry == Permutations(Slots) \cup Permutations(Kids)
=============================================================================
