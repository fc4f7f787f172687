------------------------------ MODULE MCBudget ------------------------------
(* Instances of RequestBudget for TLC. *)
EXTENDS RequestBudget, TLC

Symmetry == Permutations(Proc)
=============================================================================
