---------------------------- MODULE MCLifecycle ----------------------------
(* Instances of ExecutionLifecycle for TLC. *)
EXTENDS ExecutionLifecycle, TLC

Symmetry == Permutations(Proc)
=============================================================================
