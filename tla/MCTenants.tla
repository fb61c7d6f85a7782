------------------------------ MODULE MCTenants ------------------------------
(* Two requests at a time, of two users, about one service.                 *)
EXTENDS TenantsProps, TLC

Symmetry == Permutations(Slots) \cup Permutations(Places)
=============================================================================
