----------------------------- MODULE MCJournal -----------------------------
(* Instances of OperationJournal for TLC. *)
EXTENDS OperationJournal, TLC

\* Nothing in the journal orders executions, keys, objects or workers.
Symmetry == Permutations(Exec) \cup Permutations(Key)
              \cup Permutations(Object) \cup Permutations(Worker)
=============================================================================
