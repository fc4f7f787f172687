------------------------ MODULE EffectLedger_proofs ------------------------
(***************************************************************************)
(* What follows from the effect ledger alone, for any executions, keys and *)
(* WorkItems - and so for whatever implements it.                          *)
(***************************************************************************)
EXTENDS EffectLedger, TLAPS

Outcomes == {"open", "uncertain", "named", "verified"}

\* An effect is there once at most, and only of a mutation that was issued; what is named
\* or verified is there.  Of two mutations that contend one is settled.
LedgerInv ==
  /\ item    \in [Exec -> Item \cup {NoItem}]
  /\ outcome \in [Mutation -> Outcomes]
  /\ present \in [Mutation -> BOOLEAN]
  /\ writes  \in [Mutation -> {0, 1}]
  /\ \A o \in Mutation : writes[o] = 1 => present[o]
  /\ \A o \in Mutation : outcome[o] \in {"named", "verified"} => present[o]
  /\ \A o \in Mutation : outcome[o] = "open" => ~present[o]
  /\ \A o, p \in Mutation :
       outcome[o] = "uncertain" /\ outcome[p] = "uncertain" /\ Contend(o, p) => o = p

LEMMA ContendIsMutual ==
  ASSUME NEW o \in Mutation, NEW p \in Mutation, Contend(o, p)
  PROVE  Contend(p, o)
  BY DEF Contend

LEMMA ClaimKeepsInv ==
  ASSUME LedgerInv, NEW e \in Exec, NEW i \in Item, Claim(e, i)
  PROVE  LedgerInv'
  <1>1. /\ UNCHANGED <<outcome, present, writes>>
        /\ item' = [item EXCEPT ![e] = i] /\ item' \in [Exec -> Item \cup {NoItem}]
        /\ \A k \in Key : outcome[<<e, k>>] = "open"
    BY DEF Claim, LedgerInv
  <1>2. ASSUME NEW o \in Mutation, outcome[o] = "uncertain"
        PROVE  o[1] \in Exec /\ item'[o[1]] = item[o[1]]
    <2>1. PICK d \in Exec, k \in Key : o = <<d, k>>
      BY DEF Mutation
    <2>2. d # e
      BY <1>1, <1>2, <2>1
    <2> QED
      BY <1>1, <2>1, <2>2 DEF LedgerInv
  <1>3. ASSUME NEW o \in Mutation, NEW p \in Mutation,
               outcome[o] = "uncertain", outcome[p] = "uncertain",
               Contend(o, p)'
        PROVE  o = p
    <2>1. Contend(o, p)
      BY <1>2, <1>3 DEF Contend
    <2> QED
      BY <1>3, <2>1 DEF LedgerInv
  <1> QED
    BY <1>1, <1>3 DEF LedgerInv

LEMMA IssueKeepsInv ==
  ASSUME LedgerInv, NEW o \in Mutation, Issue(o)
  PROVE  LedgerInv'
  <1>1. /\ UNCHANGED <<item, present, writes>>
        /\ outcome' = [outcome EXCEPT ![o] = "uncertain"] /\ outcome' \in [Mutation -> Outcomes]
        /\ \A p \in Mutation : Contend(o, p) => outcome[p] \in {"open", "verified"}
    BY DEF Issue, LedgerInv, Outcomes
  <1>2. ASSUME NEW p \in Mutation, NEW q \in Mutation,
               outcome'[p] = "uncertain", outcome'[q] = "uncertain",
               Contend(p, q)'
        PROVE  p = q
    <2>1. Contend(p, q) /\ Contend(q, p)
      BY <1>1, <1>2, ContendIsMutual DEF Contend
    <2>2. CASE p # o /\ q # o
      BY <1>1, <1>2, <2>1, <2>2 DEF LedgerInv
    <2>3. CASE p = o /\ q # o
      BY <1>1, <1>2, <2>1, <2>3 DEF LedgerInv
    <2>4. CASE p # o /\ q = o
      BY <1>1, <1>2, <2>1, <2>4 DEF LedgerInv
    <2> QED
      BY <2>2, <2>3, <2>4
  <1> QED
    BY <1>1, <1>2 DEF LedgerInv

\* Applying, withdrawing and settling bring nobody into doubt.
LEMMA NobodyDoubted ==
  ASSUME LedgerInv, UNCHANGED item,
         \A p \in Mutation : outcome'[p] = "uncertain" => outcome[p] = "uncertain",
         NEW p \in Mutation, NEW q \in Mutation,
         outcome'[p] = "uncertain", outcome'[q] = "uncertain",
         Contend(p, q)'
  PROVE  p = q
  <1>1. Contend(p, q)
    BY DEF Contend
  <1> QED
    BY <1>1 DEF LedgerInv

LEMMA ApplyKeepsInv ==
  ASSUME LedgerInv, NEW o \in Mutation, Apply(o)
  PROVE  LedgerInv'
  <1>1. /\ UNCHANGED <<item, outcome>> /\ outcome[o] = "uncertain"
        /\ present' = [present EXCEPT ![o] = TRUE] /\ present' \in [Mutation -> BOOLEAN]
    BY DEF Apply, LedgerInv
  <1>2. writes[o] = 0
    BY DEF Apply, LedgerInv
  <1>3. writes' \in [Mutation -> {0, 1}] /\ \A p \in Mutation : p # o => writes'[p] = writes[p]
    <2>1. PICK n \in {0, 1} : writes' = [writes EXCEPT ![o] = @ + n]
      BY DEF Apply
    <2>2. writes[o] + n \in {0, 1}
      BY <1>2
    <2> QED
      BY <2>1, <2>2 DEF LedgerInv
  <1>4. \A p \in Mutation : /\ p # o => present'[p] = present[p]
                            /\ p = o => present'[p]
    BY <1>1 DEF LedgerInv
  <1>5. \A p \in Mutation : /\ writes'[p] = 1 => present'[p]
                            /\ outcome'[p] \in {"named", "verified"} => present'[p]
                            /\ outcome'[p] = "open" => ~present'[p]
    BY <1>1, <1>3, <1>4 DEF LedgerInv
  <1> QED
    BY <1>1, <1>3, <1>5, NobodyDoubted DEF LedgerInv

LEMMA EndKeepsInv ==
  ASSUME LedgerInv, NEW o \in Mutation, Withdraw(o) \/ Settle(o)
  PROVE  LedgerInv'
  <1>1. PICK s \in {"open", "named", "verified"} :
          /\ outcome' = [outcome EXCEPT ![o] = s]
          /\ s = "open" => ~present[o]
          /\ s # "open" => present[o]
    BY DEF Withdraw, Settle
  <1>2. UNCHANGED <<item, present, writes>>
    BY DEF Withdraw, Settle
  <1>3. /\ outcome' \in [Mutation -> Outcomes]
        /\ \A p \in Mutation : outcome'[p] = IF p = o THEN s ELSE outcome[p]
    BY <1>1 DEF LedgerInv, Outcomes
  <1> QED
    BY <1>1, <1>2, <1>3, NobodyDoubted DEF LedgerInv

\* The ledger's invariant holds whatever is claimed, issued, applied, withdrawn and
\* settled, in any order.
THEOREM LedgerHolds == Spec => []LedgerInv
  <1>1. Init => LedgerInv
    BY DEF Init, LedgerInv, Outcomes
  <1>2. LedgerInv /\ [Next]_vars => LedgerInv'
    <2> SUFFICES ASSUME LedgerInv, [Next]_vars PROVE LedgerInv'
      OBVIOUS
    <2>1. CASE UNCHANGED vars
      <3>1. UNCHANGED <<item, outcome, present, writes>>
        BY <2>1 DEF vars
      <3> QED
        BY <3>1 DEF LedgerInv, Contend
    <2>2. CASE Next
      BY <2>2, ClaimKeepsInv, IssueKeepsInv, ApplyKeepsInv, EndKeepsInv DEF Next
    <2> QED
      BY <2>1, <2>2
  <1> QED
    BY <1>1, <1>2, PTL DEF Spec
=============================================================================
