---- MODULE MCApproval ----
(* The approval queue for TLC: processes are alike. *)
EXTENDS ApprovalGate, TLC

Symmetry == Permutations(Proc)
====
