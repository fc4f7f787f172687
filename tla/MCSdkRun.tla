---- MODULE MCSdkRun ----
(* One agent run for TLC: operations and call slots are alike. *)
EXTENDS SdkRun, TLC

Symmetry == Permutations(Op) \cup Permutations(Slot)
====
