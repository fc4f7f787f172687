---- MODULE MCSignal ----
(* Signal work for TLC: processes, triggers and sources are alike. *)
EXTENDS SignalLifecycle, TLC

Symmetry == Permutations(Proc) \cup Permutations(Trigger) \cup Permutations(Source)
====
