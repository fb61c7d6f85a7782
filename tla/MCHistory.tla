------------------------------- MODULE MCHistory ------------------------------
(* The analysis history on small sets.                                     *)
EXTENDS HistoryProps, TLC

Symmetry == Permutations(Slots) \cup Permutations(Tenants)
=============================================================================
