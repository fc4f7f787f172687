--------------------------- MODULE RevisionOwners ---------------------------
(***************************************************************************)
(* What the signal lifecycle promises about source revisions, with no      *)
(* processes, locks, runs, reviews or artifacts in sight.  One WorkItem of *)
(* a trigger takes, in one step, what nobody owns of the batch it was      *)
(* given, and advances its stages one by one.  The others of the trigger   *)
(* own nothing.  SignalLifecycle implements this module.                   *)
(***************************************************************************)
EXTENDS Naturals

CONSTANTS Item,     \* the ids of WorkItems, naturals in the order they are read
          Trigger,  \* triggers
          Rev       \* revisions; a revision r is one of the source r.source

VARIABLES trigger,  \* the trigger each WorkItem was made for
          seen,     \* seen[i]: something has been decided about i
          owns,     \* owns[i]: the revisions i owns
          stages    \* stages[i]: how many stages of them are completed

vars == <<trigger, seen, owns, stages>>

Final == 4

Init ==
  /\ trigger \in [Item -> Trigger]
  /\ seen   = [i \in Item |-> FALSE]
  /\ owns   = [i \in Item |-> {}]
  /\ stages = [i \in Item |-> 0]

Unowned(r) == \A i \in Item : r \notin owns[i]

\* The WorkItems of the trigger of i about which something has been decided.
Rivals(i) == {j \in Item : trigger[j] = trigger[i] /\ seen[j]}

\* The first WorkItem of a trigger takes revisions that nobody owns, at most one of a
\* source; there may be none for it.
Admit(i) ==
  /\ Rivals(i) = {}
  /\ seen'   = [seen EXCEPT ![i] = TRUE]
  /\ stages' = [stages EXCEPT ![i] = 0]
  /\ UNCHANGED trigger
  /\ \E S \in SUBSET {r \in Rev : Unowned(r)} :
       /\ \A q, r \in S : q.source = r.source => q = r
       /\ owns' = [owns EXCEPT ![i] = S]

\* A later one is suppressed.  So is an earlier one, whatever it has done, when one
\* with a smaller id turns up.
Suppress(i) ==
  /\ \E j \in Rivals(i) : j # i /\ (seen[i] => j < i)
  /\ seen'   = [seen EXCEPT ![i] = TRUE]
  /\ owns'   = [owns EXCEPT ![i] = {}]
  /\ stages' = [stages EXCEPT ![i] = 0]
  /\ UNCHANGED trigger

\* An owner completes its next stage.
Advance(i) ==
  /\ owns[i] # {} /\ stages[i] < Final
  /\ stages' = [stages EXCEPT ![i] = @ + 1]
  /\ UNCHANGED <<trigger, seen, owns>>

Next ==
  \E i \in Item : Admit(i) \/ Suppress(i) \/ Advance(i)

Spec == Init /\ [][Next]_vars
=============================================================================
