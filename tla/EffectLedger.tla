---------------------------- MODULE EffectLedger ----------------------------
(***************************************************************************)
(* What the durable operation journal promises about provider effects,     *)
(* with no workers, receipts, caches or crashes in sight.  A mutation is   *)
(* identified by an execution and an operation key.  While its outcome is  *)
(* "uncertain" the provider may apply it; uncertainty ends either because  *)
(* nothing was applied or because the applied effect has been named.  A    *)
(* named effect is verified in the end, and may have to be verified again. *)
(* OperationJournal implements this module, and so do the runs of SdkRun.  *)
(***************************************************************************)
EXTENDS Naturals

CONSTANTS Exec,     \* durable executions
          Key,      \* operation keys: a tool and its normalised input
          Item,     \* WorkItems
          NoItem    \* the work_item_id of an execution bound to none

VARIABLES item,     \* item[e]: the WorkItem execution e works for
          outcome,  \* outcome[o]: "open", "uncertain", "named" or "verified"
          present,  \* present[o]: the effect of o is there at the provider
          writes    \* writes[o]: how often the provider applied o

vars == <<item, outcome, present, writes>>

Mutation == Exec \X Key

\* Two mutations contend when one execution issued both, or when both
\* executions work for the same WorkItem.
Contend(o, p) ==
  \/ o[1] = p[1]
  \/ item[o[1]] # NoItem /\ item[o[1]] = item[p[1]]

Init ==
  /\ item    = [e \in Exec |-> NoItem]
  /\ outcome = [o \in Mutation |-> "open"]
  /\ present = [o \in Mutation |-> FALSE]
  /\ writes  = [o \in Mutation |-> 0]

\* An execution is given its WorkItem before it has issued any mutation.
Claim(e, i) ==
  /\ item[e] = NoItem
  /\ \A k \in Key : outcome[<<e, k>>] = "open"
  /\ item' = [item EXCEPT ![e] = i]
  /\ UNCHANGED <<outcome, present, writes>>

\* A mutation may start only while everything it contends with is settled.
Issue(o) ==
  /\ outcome[o] = "open"
  /\ \A p \in Mutation : Contend(o, p) => outcome[p] \in {"open", "verified"}
  /\ outcome' = [outcome EXCEPT ![o] = "uncertain"]
  /\ UNCHANGED <<item, present, writes>>

\* The provider applies the mutation, or turns out to hold its effect already.
\* An effect that is there is never applied again.
Apply(o) ==
  /\ outcome[o] = "uncertain"
  /\ ~present[o]
  /\ present' = [present EXCEPT ![o] = TRUE]
  /\ \E n \in {0, 1} : writes' = [writes EXCEPT ![o] = @ + n]
  /\ UNCHANGED <<item, outcome>>

\* Nothing was applied: the mutation may be issued again.
Withdraw(o) ==
  /\ outcome[o] = "uncertain"
  /\ ~present[o]
  /\ outcome' = [outcome EXCEPT ![o] = "open"]
  /\ UNCHANGED <<item, present, writes>>

\* The applied effect is named, with or without proof by read-back; it is
\* never issued again.
Settle(o) ==
  /\ outcome[o] \in {"uncertain", "named", "verified"}
  /\ present[o]
  /\ \E s \in {"named", "verified"} : outcome' = [outcome EXCEPT ![o] = s]
  /\ UNCHANGED <<item, present, writes>>

Next ==
  \/ \E e \in Exec, i \in Item : Claim(e, i)
  \/ \E o \in Mutation : Issue(o) \/ Apply(o) \/ Withdraw(o) \/ Settle(o)

Spec == Init /\ [][Next]_vars
=============================================================================
