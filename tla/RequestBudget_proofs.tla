------------------------ MODULE RequestBudget_proofs ------------------------
(***************************************************************************)
(* The bounds of RequestBudget for every number of processes, every budget *)
(* and every ceiling, whatever children report; and that a limited ledger  *)
(* accounts for the requests of its children, for which CoverInv is        *)
(* inductive on top of those bounds.                                       *)
(***************************************************************************)
EXTENDS RequestBudget, FiniteSetTheorems, TLAPS

USE DEF ledger

\* Before anything runs, every ledger is empty.
LEMMA InitInv == Init => BudgetInv
  <1> SUFFICES ASSUME Init PROVE BudgetInv
    OBVIOUS
  <1>1. TypeOK /\ RowInv /\ FamilyInv /\ WithinLimit
    BY BudgetAssumption DEF Init, TypeOK, Amount, RowInv, FamilyInv, WithinLimit
  <1>2. LeaseInv
    BY BudgetAssumption DEF Init, LeaseInv, Leases
  <1> QED
    BY <1>1, <1>2 DEF BudgetInv

\* An open lease that is a number belongs to a limited ledger.
LEMMA LeaseFacts ==
  ASSUME BudgetInv, NEW c \in Proc, lease[c] # NoLease
  PROVE  /\ parent[c] \in Proc /\ parent[c] # c
         /\ state[c] # "fresh" /\ state[parent[c]] # "fresh"
         /\ lease[c] = NoLimit <=> limit[parent[c]] = NoLimit
         /\ lease[c] # NoLimit =>
              /\ lease[c] \in Nat /\ limit[c] \in Nat /\ limit[parent[c]] \in Nat
              /\ limit[c] <= lease[c]
  BY DEF BudgetInv, TypeOK, FamilyInv, Amount

\* Steps that leave leases, ledgers' limits and reservations alone keep LeaseInv,
\* unless they use up something of a ledger that has leased all it had.
LEMMA LeasesStay ==
  ASSUME BudgetInv, UNCHANGED <<parent, limit, reserved, lease>>,
         \A p \in Proc : used'[p] = used[p] \/ Leases(p) = {}
  PROVE  LeaseInv'
  <1>1. \A p \in Proc : Leases(p)' = Leases(p)
    BY DEF Leases
  <1> QED
    BY <1>1 DEF BudgetInv, LeaseInv

-----------------------------------------------------------------------------
(* One lemma per action.                                                   *)

\* A process starts with an empty ledger and nobody on its leases.
LEMMA StartKeepsInv ==
  ASSUME BudgetInv, NEW p \in Proc, Start(p)
  PROVE  BudgetInv'
  <1>1. PICK n \in {Ceiling, NoLimit} : limit' = [limit EXCEPT ![p] = n]
    BY DEF Start
  <1>2. /\ state[p] = "fresh" /\ state' = [state EXCEPT ![p] = "live"]
        /\ UNCHANGED <<row, parent, used, reserved, lease, calls, attempts, hidden>>
    BY DEF Start
  <1>3. /\ parent[p] = NoProc /\ lease[p] = NoLease /\ limit[p] = NoLimit
        /\ used[p] = 0 /\ reserved[p] = 0 /\ \A c \in Proc : parent[c] # p
    BY <1>2 DEF BudgetInv, FamilyInv
  <1>4. TypeOK'
    BY <1>1, <1>2, BudgetAssumption DEF BudgetInv, TypeOK, Amount
  <1>5. RowInv'
    BY <1>2 DEF BudgetInv, RowInv
  <1>6. FamilyInv'
    BY <1>1, <1>2, <1>3 DEF BudgetInv, FamilyInv, TypeOK
  <1>7. LeaseInv'
    <2>1. \A q \in Proc : Leases(q)' = Leases(q)
      BY <1>2 DEF Leases
    <2>2. Leases(p) = {}
      BY <1>3 DEF Leases
    <2> QED
      BY <1>1, <1>2, <1>3, <2>1, <2>2 DEF BudgetInv, LeaseInv, TypeOK
  <1>8. WithinLimit'
    BY <1>1, <1>2, <1>3, BudgetAssumption DEF BudgetInv, WithinLimit, TypeOK
  <1> QED
    BY <1>4, <1>5, <1>6, <1>7, <1>8 DEF BudgetInv

\* reserve_child: the first lease worth anything takes all that is left, the next
\* ones are worth nothing.
LEMMA SpawnKeepsInv ==
  ASSUME BudgetInv, NEW p \in Proc, NEW c \in Proc, Spawn(p, c)
  PROVE  BudgetInv'
  <1> DEFINE a == Remaining(p)
             r == IF a = NoLimit THEN 0 ELSE a
  <1>1. /\ state[p] = "live" /\ state[c] = "fresh" /\ c # p
        /\ state' = [state EXCEPT ![c] = "live"]
        /\ parent' = [parent EXCEPT ![c] = p]
        /\ lease' = [lease EXCEPT ![c] = a]
        /\ reserved' = [reserved EXCEPT ![p] = @ + r]
        /\ UNCHANGED <<row, used, calls, attempts, hidden>>
    BY DEF Spawn, Live
  <1>2. PICK n \in IF a = NoLimit THEN {NoLimit} ELSE 0 .. a :
               limit' = [limit EXCEPT ![c] = n]
    BY DEF Spawn
  <1>3. TypeOK /\ FamilyInv /\ LeaseInv /\ WithinLimit /\ RowInv
    BY DEF BudgetInv
  <1>4. /\ a = NoLimit <=> limit[p] = NoLimit
        /\ a # NoLimit => /\ a \in Nat /\ limit[p] \in Nat
                          /\ used[p] + reserved[p] + a = limit[p]
    BY <1>3, BudgetAssumption DEF Remaining, Minus, TypeOK, Amount, WithinLimit
  <1>5. r \in Nat
    BY <1>4
  <1>6. a # NoLimit => n \in Nat /\ n <= a
    BY <1>2, <1>4
  <1>7. a = NoLimit => n = NoLimit
    BY <1>2
  <1>8. /\ parent[c] = NoProc /\ lease[c] = NoLease /\ limit[c] = NoLimit
        /\ used[c] = 0 /\ reserved[c] = 0 /\ \A d \in Proc : parent[d] # c
    BY <1>1, <1>3 DEF FamilyInv
  <1> HIDE DEF a, r
  <1>9. TypeOK'
    <2>1. reserved' \in [Proc -> Nat]
      BY <1>1, <1>3, <1>5 DEF TypeOK
    <2>2. limit' \in [Proc -> Amount]
      BY <1>2, <1>3, <1>6, <1>7 DEF TypeOK, Amount
    <2>3. lease' \in [Proc -> Amount \cup {NoLease}]
      BY <1>1, <1>3, <1>4 DEF TypeOK, Amount
    <2>4. /\ state' \in [Proc -> {"fresh", "live", "gone"}]
          /\ parent' \in [Proc -> Proc \cup {NoProc}]
      BY <1>1, <1>3 DEF TypeOK
    <2> QED
      BY <1>1, <1>3, <2>1, <2>2, <2>3, <2>4 DEF TypeOK
  <1>10. RowInv'
    BY <1>1, <1>3 DEF RowInv
  <1>11. FamilyInv'
    <2>1. \A q \in Proc : state'[q] = "fresh" =>
            /\ parent'[q] = NoProc /\ lease'[q] = NoLease /\ limit'[q] = NoLimit
            /\ used'[q] = 0 /\ \A d \in Proc : parent'[d] # q
      BY <1>1, <1>2, <1>3 DEF FamilyInv, TypeOK
    <2>2. \A q \in Proc : limit'[q] = NoLimit => reserved'[q] = 0
      BY <1>1, <1>2, <1>3, <1>4, <1>8 DEF FamilyInv, TypeOK, r
    <2>3. ASSUME NEW d \in Proc, lease'[d] # NoLease
          PROVE  /\ parent'[d] \in Proc \ {d}
                 /\ lease'[d] = NoLimit <=> limit'[parent'[d]] = NoLimit
                 /\ lease'[d] # NoLimit => limit'[d] # NoLimit /\ limit'[d] <= lease'[d]
      <3>1. /\ parent'[c] = p /\ lease'[c] = a /\ limit'[c] = n
            /\ \A q \in Proc \ {c} : /\ parent'[q] = parent[q] /\ lease'[q] = lease[q]
                                    /\ limit'[q] = limit[q]
        BY <1>1, <1>2, <1>3 DEF TypeOK
      <3>2. CASE d = c
        BY <1>1, <1>4, <1>6, <3>1, <3>2, BudgetAssumption
      <3>3. CASE d # c
        <4>1. /\ parent[d] \in Proc \ {d} /\ parent[d] # c
              /\ lease[d] = NoLimit <=> limit[parent[d]] = NoLimit
              /\ lease[d] # NoLimit => limit[d] # NoLimit /\ limit[d] <= lease[d]
          BY <1>3, <1>8, <2>3, <3>1, <3>3 DEF FamilyInv
        <4> QED
          BY <3>1, <3>3, <4>1
      <3> QED
        BY <3>2, <3>3
    <2> QED
      BY <2>1, <2>2, <2>3 DEF FamilyInv
  <1>12. LeaseInv'
    <2>1. \A q \in Proc \ {p} : Leases(q)' = Leases(q)
      BY <1>1, <1>3, <1>8, BudgetAssumption DEF Leases, TypeOK
    <2>2. Leases(p)' = Leases(p) \cup (IF r = 0 THEN {} ELSE {c})
      BY <1>1, <1>3, <1>4, <1>5, <1>8, BudgetAssumption DEF Leases, TypeOK, r
    <2>3. r # 0 => Leases(p) = {} /\ reserved[p] = 0
      <3>1. r # 0 => a # NoLimit /\ r = a
        BY DEF r
      <3>2. r # 0 => used[p] + reserved[p] # limit[p]
        <4>1. used[p] + reserved[p] \in Nat
          BY <1>3 DEF TypeOK
        <4> QED
          BY <1>4, <3>1, <4>1
      <3>3. r # 0 => Leases(p) = {}
        BY <1>3, <3>2 DEF LeaseInv
      <3> QED
        BY <1>3, <3>3 DEF LeaseInv
    <2>4. \A q \in Proc : Leases(q) # {} => q # c
      BY <1>8 DEF Leases
    <2>5. \A q \in Proc \ {p} :
            /\ \A d, e \in Leases(q)' : d = e
            /\ \A d \in Leases(q)' : reserved'[q] = lease'[d] /\ used'[q] + reserved'[q] = limit'[q]
            /\ reserved'[q] # 0 => Leases(q)' # {}
      <3>1. \A q \in Proc \ {p} : reserved'[q] = reserved[q]
        BY <1>1, <1>3 DEF TypeOK
      <3>2. \A q \in Proc : Leases(q) # {} => limit'[q] = limit[q]
        BY <1>2, <1>3, <2>4 DEF TypeOK
      <3>3. \A d \in Proc : d # c => lease'[d] = lease[d]
        BY <1>1, <1>3 DEF TypeOK
      <3>4. \A q \in Proc : c \notin Leases(q)
        BY <1>8, BudgetAssumption DEF Leases
      <3>5. \A q \in Proc : Leases(q) \subseteq Proc
        BY DEF Leases
      <3>6. used' = used
        BY <1>1
      <3> QED
        BY <1>3, <2>1, <3>1, <3>2, <3>3, <3>4, <3>5, <3>6 DEF LeaseInv
    <2>6. CASE r = 0
      <3>1. reserved' = reserved /\ Leases(p)' = Leases(p) /\ c \notin Leases(p)
        <4>1. c \notin Leases(p)
          BY <1>8, BudgetAssumption DEF Leases
        <4>2. reserved' = reserved
          BY <1>1, <1>3, <2>6 DEF TypeOK
        <4> QED
          BY <2>2, <2>6, <4>1, <4>2
      <3>2. \A d \in Leases(p) : lease'[d] = lease[d]
        BY <1>1, <1>3, <3>1 DEF TypeOK, Leases
      <3>3. limit'[p] = limit[p] /\ used' = used
        BY <1>1, <1>2, <1>3 DEF TypeOK
      <3> QED
        BY <1>3, <2>5, <3>1, <3>2, <3>3 DEF LeaseInv
    <2>7. CASE r # 0
      <3>1. Leases(p)' = {c} /\ reserved'[p] = r /\ lease'[c] = a /\ a = r
        BY <1>1, <1>3, <1>5, <2>2, <2>3, <2>7 DEF TypeOK, r
      <3>2. used'[p] + reserved'[p] = limit'[p]
        BY <1>1, <1>2, <1>3, <1>4, <2>3, <2>7, <3>1 DEF TypeOK, r
      <3>3. /\ \A d, e \in Leases(p)' : d = e
            /\ \A d \in Leases(p)' :
                 reserved'[p] = lease'[d] /\ used'[p] + reserved'[p] = limit'[p]
            /\ reserved'[p] # 0 => Leases(p)' # {}
        BY <3>1, <3>2
      <3> QED
        BY <2>5, <3>3 DEF LeaseInv
    <2> QED
      BY <2>6, <2>7
  <1>13. WithinLimit'
    <2>1. reserved'[p] = reserved[p] + r /\ \A q \in Proc \ {p} : reserved'[q] = reserved[q]
      BY <1>1, <1>3 DEF TypeOK
    <2>2. limit'[c] = n /\ \A q \in Proc \ {c} : limit'[q] = limit[q]
      BY <1>2, <1>3 DEF TypeOK
    <2>3. limit'[c] # NoLimit => used'[c] + reserved'[c] <= limit'[c]
      BY <1>1, <1>4, <1>6, <1>7, <1>8, <2>1, <2>2
    <2>4. limit'[p] # NoLimit => used'[p] + reserved'[p] <= limit'[p]
      <3>1. limit[p] # NoLimit => used[p] + (reserved[p] + r) <= limit[p]
        <4>1. used[p] \in Nat /\ reserved[p] \in Nat
          BY <1>3 DEF TypeOK
        <4>2. limit[p] # NoLimit => r = a
          BY <1>4 DEF r
        <4> QED
          BY <1>4, <4>1, <4>2
      <3> QED
        BY <1>1, <2>1, <2>2, <3>1
    <2>5. \A q \in Proc \ {p, c} : limit'[q] # NoLimit => used'[q] + reserved'[q] <= limit'[q]
      BY <1>1, <1>3, <2>1, <2>2 DEF WithinLimit
    <2> QED
      BY <2>3, <2>4, <2>5 DEF WithinLimit
  <1> QED
    BY <1>9, <1>10, <1>11, <1>12, <1>13 DEF BudgetInv

\* consume: a ledger with a lease worth anything out is full.
LEMMA AdmitKeepsInv ==
  ASSUME BudgetInv, NEW p \in Proc, Admit(p)
  PROVE  BudgetInv'
  <1>1. /\ state[p] = "live" /\ LedgerOpen(p)
        /\ used' = [used EXCEPT ![p] = @ + 1]
        /\ calls' = [calls EXCEPT ![p] = @ + 1]
        /\ UNCHANGED <<row, state, parent, limit, reserved, lease, attempts, hidden>>
    BY DEF Admit, Live
  <1>2. TypeOK' /\ RowInv'
    BY <1>1 DEF BudgetInv, TypeOK, RowInv
  <1>3. FamilyInv'
    BY <1>1 DEF BudgetInv, TypeOK, FamilyInv
  <1>4. limit[p] # NoLimit => limit[p] \in Nat /\ used[p] + reserved[p] < limit[p]
    BY <1>1 DEF LedgerOpen, BudgetInv, TypeOK, Amount
  <1>5. Leases(p) = {}
    <2> SUFFICES ASSUME NEW c \in Leases(p) PROVE FALSE
      OBVIOUS
    <2>1. limit[p] # NoLimit
      BY LeaseFacts, BudgetAssumption DEF Leases
    <2>2. used[p] + reserved[p] = limit[p]
      BY DEF BudgetInv, LeaseInv
    <2> QED
      BY <1>4, <2>1, <2>2 DEF BudgetInv, TypeOK
  <1>6. LeaseInv'
    BY <1>1, <1>5, LeasesStay DEF BudgetInv, TypeOK
  <1>7. WithinLimit'
    BY <1>1, <1>4 DEF BudgetInv, TypeOK, WithinLimit
  <1> QED
    BY <1>2, <1>3, <1>6, <1>7 DEF BudgetInv

\* reserve_model: one more attempt, one more in the row.
LEMMA SendKeepsInv ==
  ASSUME BudgetInv, NEW p \in Proc, Send(p)
  PROVE  BudgetInv'
  <1>0. /\ calls[p] \in Nat /\ calls[p] > 0 /\ row \in Nat /\ attempts \in Seq(Proc)
        /\ row = Len(attempts) /\ row < Budget /\ Budget \in Nat
    BY BudgetAssumption DEF Send, RowOpen, BudgetInv, TypeOK, RowInv
  <1>1. TypeOK' /\ RowInv'
    <2>1. row' \in Nat /\ attempts' \in Seq(Proc) /\ RowInv'
      BY <1>0 DEF Send, RowInv
    <2>2. calls[p] - 1 \in Nat
      BY <1>0
    <2>3. calls' \in [Proc -> Nat]
      BY <2>2 DEF Send, BudgetInv, TypeOK
    <2> QED
      BY <2>1, <2>3 DEF Send, BudgetInv, TypeOK
  <1>2. FamilyInv' /\ WithinLimit'
    BY DEF Send, BudgetInv, FamilyInv, WithinLimit
  <1>3. LeaseInv'
    BY LeasesStay DEF Send
  <1> QED
    BY <1>1, <1>2, <1>3 DEF BudgetInv

\* A refused request changes no ledger.
LEMMA RefuseKeepsInv ==
  ASSUME BudgetInv, NEW p \in Proc, Refuse(p)
  PROVE  BudgetInv'
  <1>0. /\ calls[p] \in Nat /\ calls[p] > 0 /\ calls' = [calls EXCEPT ![p] = @ - 1]
        /\ UNCHANGED <<row, state, parent, ledger, lease, attempts, hidden>>
    BY DEF Refuse, BudgetInv, TypeOK
  <1>1. TypeOK'
    <2>1. calls[p] - 1 \in Nat
      BY <1>0
    <2> QED
      BY <1>0, <2>1 DEF BudgetInv, TypeOK
  <1>2. LeaseInv'
    BY LeasesStay DEF Refuse
  <1>3. RowInv' /\ FamilyInv' /\ WithinLimit'
    BY <1>0 DEF BudgetInv, RowInv, FamilyInv, WithinLimit
  <1> QED
    BY <1>1, <1>2, <1>3 DEF BudgetInv

\* Nor does the end of a process.
LEMMA StopKeepsInv ==
  ASSUME BudgetInv, NEW p \in Proc, Stop(p)
  PROVE  BudgetInv'
  <1>0. /\ state' = [state EXCEPT ![p] = "gone"] /\ calls' = [calls EXCEPT ![p] = 0]
        /\ UNCHANGED <<row, parent, ledger, lease, attempts, hidden>>
    BY DEF Stop
  <1>1. TypeOK' /\ RowInv'
    BY <1>0 DEF BudgetInv, TypeOK, RowInv
  <1>3. FamilyInv' /\ WithinLimit'
    BY <1>0 DEF BudgetInv, TypeOK, FamilyInv, WithinLimit
  <1>2. LeaseInv'
    BY LeasesStay DEF Stop
  <1> QED
    BY <1>1, <1>2, <1>3 DEF BudgetInv

\* A report is a number or missing, and what is charged for a numbered lease is
\* at most that number.
LEMMA ChargeFacts ==
  ASSUME BudgetInv, NEW c \in Proc, NEW report \in Reports(c), lease[c] # NoLease
  PROVE  /\ Charge(c, report) \in Nat
         /\ lease[c] # NoLimit => Charge(c, report) <= lease[c]
  <1>1. report = NoLimit \/ report \in Nat
    BY DEF Reports, BudgetInv, TypeOK
  <1>2. lease[c] = NoLimit \/ lease[c] \in Nat
    BY DEF BudgetInv, TypeOK, Amount
  <1>3. CASE report = NoLimit
    BY <1>2, <1>3 DEF Charge
  <1>4. CASE report # NoLimit
    BY <1>1, <1>2, <1>4 DEF Charge, AtMost
  <1> QED
    BY <1>3, <1>4

\* _settle_child: the lease is closed, its reservation goes, and the charge fits
\* where the reservation was.
LEMMA SettleKeepsInv ==
  ASSUME BudgetInv, NEW c \in Proc, NEW report \in Reports(c), Settle(c, report)
  PROVE  BudgetInv'
  <1>0. PICK p \in Proc : p = parent[c] /\ p # c
    BY LeaseFacts DEF Settle
  <1> DEFINE cost == Charge(c, report)
             back == IF lease[c] = NoLimit THEN 0 ELSE lease[c]
             left == IF report = NoLimit THEN 0 ELSE Minus(used[c], report)
  <1>1. /\ state[c] = "gone" /\ lease[c] # NoLease /\ state[p] = "live"
        /\ reserved' = [reserved EXCEPT ![p] = Minus(@, back)]
        /\ used' = [used EXCEPT ![p] = IF limit[p] = NoLimit THEN @ + cost
                                       ELSE AtMost(@ + cost, limit[p])]
        /\ lease' = [lease EXCEPT ![c] = NoLease]
        /\ hidden' = [hidden EXCEPT ![p] = @ + left]
        /\ UNCHANGED <<row, state, parent, limit, calls, attempts>>
    BY <1>0 DEF Settle, Live
  <1>2. /\ lease[c] = NoLimit <=> limit[p] = NoLimit
        /\ lease[c] # NoLimit => lease[c] \in Nat /\ limit[p] \in Nat
    BY <1>0, <1>1, LeaseFacts
  <1>3. cost \in Nat /\ (lease[c] # NoLimit => cost <= lease[c])
    BY <1>1, ChargeFacts
  <1>4. back \in Nat /\ left \in Nat
    <2>1. (report = NoLimit \/ report \in Nat) /\ used[c] \in Nat
      BY DEF Reports, BudgetInv, TypeOK
    <2> QED
      BY <1>2, <2>1 DEF Minus
  <1>5. TypeOK /\ FamilyInv /\ LeaseInv /\ WithinLimit /\ RowInv
    BY DEF BudgetInv
  <1> HIDE DEF cost, back, left
  <1>6. used[p] \in Nat /\ reserved[p] \in Nat
    BY <1>2, <1>5 DEF TypeOK
  <1>7. TypeOK'
    <2>1. reserved' \in [Proc -> Nat]
      <3>1. Minus(reserved[p], back) \in Nat
        BY <1>4, <1>6 DEF Minus
      <3> QED
        BY <1>1, <1>5, <3>1 DEF TypeOK
    <2>2. used' \in [Proc -> Nat]
      <3>1. limit[p] # NoLimit => AtMost(used[p] + cost, limit[p]) \in Nat
        BY <1>2, <1>3, <1>6 DEF AtMost
      <3>2. used[p] + cost \in Nat
        BY <1>3, <1>6
      <3> QED
        BY <1>1, <1>5, <3>1, <3>2 DEF TypeOK
    <2>3. hidden' \in [Proc -> Nat]
      <3>1. hidden[p] + left \in Nat
        BY <1>4, <1>5 DEF TypeOK
      <3> QED
        BY <1>1, <1>5, <3>1 DEF TypeOK
    <2>4. lease' \in [Proc -> Amount \cup {NoLease}]
      BY <1>1, <1>5 DEF TypeOK
    <2> QED
      BY <1>1, <1>5, <2>1, <2>2, <2>3, <2>4 DEF TypeOK
  <1>8. RowInv'
    BY <1>1, <1>5 DEF RowInv
  <1>9. limit[p] = NoLimit => reserved'[p] = 0
    BY <1>1, <1>2, <1>4, <1>5, <1>6 DEF FamilyInv, TypeOK, Minus, back
  <1>10. FamilyInv'
    <2>1. \A q \in Proc \ {p} : reserved'[q] = reserved[q] /\ used'[q] = used[q]
      BY <1>1, <1>5 DEF TypeOK
    <2>2. \A d \in Proc \ {c} : lease'[d] = lease[d]
      BY <1>1, <1>5 DEF TypeOK
    <2>3. lease'[c] = NoLease
      BY <1>1, <1>5 DEF TypeOK
    <2>4. \A q \in Proc : state'[q] = "fresh" =>
            /\ parent'[q] = NoProc /\ lease'[q] = NoLease /\ limit'[q] = NoLimit
            /\ used'[q] = 0 /\ \A d \in Proc : parent'[d] # q
      BY <1>1, <1>5, <2>1, <2>2 DEF FamilyInv
    <2>5. \A q \in Proc : limit'[q] = NoLimit => reserved'[q] = 0
      BY <1>1, <1>5, <1>9, <2>1 DEF FamilyInv
    <2>6. \A d \in Proc : lease'[d] # NoLease =>
            /\ parent'[d] \in Proc \ {d}
            /\ lease'[d] = NoLimit <=> limit'[parent'[d]] = NoLimit
            /\ lease'[d] # NoLimit => limit'[d] # NoLimit /\ limit'[d] <= lease'[d]
      BY <1>1, <1>5, <2>2, <2>3 DEF FamilyInv
    <2> QED
      BY <2>4, <2>5, <2>6 DEF FamilyInv
  <1>11. \A q \in Proc \ {p} : Leases(q)' = Leases(q)
    BY <1>0, <1>1, <1>5 DEF Leases, TypeOK
  <1>12. Leases(p)' = Leases(p) \ {c}
    BY <1>0, <1>1, <1>5, BudgetAssumption DEF Leases, TypeOK
  <1>13. \A q \in Proc \ {p} : reserved'[q] = reserved[q] /\ used'[q] = used[q]
    BY <1>1, <1>5 DEF TypeOK
  <1>14. \A d \in Proc \ {c} : lease'[d] = lease[d]
    BY <1>1, <1>5 DEF TypeOK
  <1>15. \A q \in Proc \ {p} : c \notin Leases(q)
    BY <1>0 DEF Leases
  <1>16. \A q \in Proc \ {p} :
           /\ \A d, e \in Leases(q)' : d = e
           /\ \A d \in Leases(q)' : reserved'[q] = lease'[d] /\ used'[q] + reserved'[q] = limit'[q]
           /\ reserved'[q] # 0 => Leases(q)' # {}
    BY <1>1, <1>5, <1>11, <1>13, <1>14, <1>15 DEF LeaseInv, Leases
  <1>17. CASE c \in Leases(p)
    <2>1. /\ lease[c] \in Nat \ {0} /\ limit[p] \in Nat /\ back = lease[c]
          /\ reserved[p] = lease[c] /\ used[p] + reserved[p] = limit[p]
          /\ Leases(p)' = {}
      BY <1>2, <1>5, <1>12, <1>17, BudgetAssumption DEF Leases, LeaseInv, back
    <2>2. reserved'[p] = 0 /\ used'[p] <= limit[p]
      BY <1>1, <1>2, <1>3, <1>5, <1>6, <2>1, BudgetAssumption DEF TypeOK, Minus, AtMost
    <2>3. LeaseInv'
      <3>1. /\ \A d, e \in Leases(p)' : d = e
            /\ \A d \in Leases(p)' :
                 reserved'[p] = lease'[d] /\ used'[p] + reserved'[p] = limit'[p]
            /\ reserved'[p] # 0 => Leases(p)' # {}
        BY <2>1, <2>2
      <3> QED
        BY <1>16, <3>1 DEF LeaseInv
    <2>4. WithinLimit'
      BY <1>1, <1>5, <1>7, <1>13, <2>1, <2>2 DEF WithinLimit, TypeOK
    <2> QED
      BY <1>7, <1>8, <1>10, <2>3, <2>4 DEF BudgetInv
  <1>18. CASE c \notin Leases(p)
    <2>1. lease[c] = NoLimit \/ lease[c] = 0
      BY <1>0, <1>2, <1>18 DEF Leases
    <2>2. reserved'[p] = reserved[p] /\ Leases(p)' = Leases(p)
      BY <1>1, <1>2, <1>5, <1>6, <1>12, <1>18, <2>1 DEF TypeOK, Minus, back
    <2>3. limit[p] # NoLimit => used'[p] = used[p]
      BY <1>1, <1>2, <1>3, <1>5, <1>6, <2>1 DEF TypeOK, AtMost, WithinLimit
    <2>4. limit[p] = NoLimit => Leases(p) = {}
      BY BudgetAssumption, LeaseFacts DEF Leases
    <2>5. LeaseInv'
      <3>1. \A d \in Leases(p) : lease'[d] = lease[d] /\ used'[p] = used[p]
        BY <1>14, <1>18, <2>3, <2>4 DEF Leases
      <3>2. /\ \A d, e \in Leases(p)' : d = e
            /\ \A d \in Leases(p)' :
                 reserved'[p] = lease'[d] /\ used'[p] + reserved'[p] = limit'[p]
            /\ reserved'[p] # 0 => Leases(p)' # {}
        BY <1>1, <1>5, <2>2, <3>1 DEF LeaseInv
      <3> QED
        BY <1>16, <3>2 DEF LeaseInv
    <2>6. WithinLimit'
      BY <1>1, <1>5, <1>13, <2>2, <2>3 DEF WithinLimit
    <2> QED
      BY <1>7, <1>8, <1>10, <2>5, <2>6 DEF BudgetInv
  <1> QED
    BY <1>17, <1>18

\* Every step keeps the bounds.
LEMMA StepKeepsInv ==
  ASSUME BudgetInv, [Next]_vars
  PROVE  BudgetInv'
  <1>1. CASE UNCHANGED vars
    <2>1. TypeOK' /\ RowInv' /\ FamilyInv' /\ WithinLimit'
      BY <1>1 DEF vars, BudgetInv, TypeOK, RowInv, FamilyInv, WithinLimit
    <2>2. LeaseInv'
      BY <1>1, LeasesStay DEF vars
    <2> QED
      BY <2>1, <2>2 DEF BudgetInv
  <1>2. CASE Next
    BY <1>2, StartKeepsInv, SpawnKeepsInv, AdmitKeepsInv, SendKeepsInv, RefuseKeepsInv,
       StopKeepsInv, SettleKeepsInv
    DEF Next
  <1> QED
    BY <1>1, <1>2

-----------------------------------------------------------------------------

\* The inductive invariant of ModelRequestBudget, its leases and reserve_model.
THEOREM BudgetInvariance == Spec => []BudgetInv
  BY InitInv, StepKeepsInv, PTL DEF Spec

\* The counters keep their types; in particular none becomes negative.
THEOREM BudgetTyped == Spec => []TypeOK
  <1>1. BudgetInv => TypeOK
    BY DEF BudgetInv
  <1> QED
    BY <1>1, BudgetInvariance, PTL

\* reserve_model lets at most budget_limit requests out, however many processes
\* begin, resume or survive the execution and whatever children report.
THEOREM NeverOverBudget == Spec => []WithinBudget
  <1>1. BudgetInv => WithinBudget
    BY DEF BudgetInv, RowInv, WithinBudget
  <1> QED
    BY <1>1, BudgetInvariance, PTL

\* consume, reserve_child and _settle_child keep what is used and what is leased
\* within the limit.
THEOREM NeverOverLimit == Spec => []WithinLimit
  <1>1. BudgetInv => WithinLimit
    BY DEF BudgetInv
  <1> QED
    BY <1>1, BudgetInvariance, PTL

\* A child on a lease never gets more through its ledger than its parent holds
\* back for it.
THEOREM LeasesKept == Spec => []LeasesAreKept
  <1>1. BudgetInv => LeasesAreKept
    <2> SUFFICES ASSUME BudgetInv, NEW c \in Proc, lease[c] \in Nat
                 PROVE  used[c] <= reserved[parent[c]]
      BY DEF LeasesAreKept
    <2>1. /\ lease[c] # NoLease /\ lease[c] # NoLimit
          /\ parent[c] \in Proc /\ limit[c] \in Nat /\ limit[c] <= lease[c]
      BY LeaseFacts, BudgetAssumption
    <2>2. used[c] \in Nat /\ reserved[c] \in Nat /\ used[c] + reserved[c] <= limit[c]
      BY <2>1, BudgetAssumption DEF BudgetInv, TypeOK, WithinLimit
    <2>3. reserved[parent[c]] \in Nat
      BY <2>1 DEF BudgetInv, TypeOK
    <2>4. lease[c] # 0 => reserved[parent[c]] = lease[c]
      BY <2>1 DEF BudgetInv, LeaseInv, Leases
    <2> QED
      BY <2>1, <2>2, <2>3, <2>4
  <1> QED
    BY <1>1, BudgetInvariance, PTL

-----------------------------------------------------------------------------
(* Counting a log.                                                         *)

Positions(log, S) == {i \in DOMAIN log : log[i] \in S}

\* What Sent counts is finite, so the counts are numbers.
LEMMA PositionsFinite ==
  ASSUME NEW log \in Seq(Proc), NEW S
  PROVE  /\ IsFiniteSet(Positions(log, S))
         /\ Sent(log, S) = Cardinality(Positions(log, S))
         /\ Sent(log, S) \in Nat
  <1>1. IsFiniteSet(1 .. Len(log))
    BY FS_Interval
  <1>2. Positions(log, S) \in SUBSET (1 .. Len(log))
    BY DEF Positions
  <1>3. IsFiniteSet(Positions(log, S))
    BY <1>1, <1>2, FS_Subset
  <1>4. Sent(log, S) = Cardinality(Positions(log, S))
    BY DEF Sent, Positions
  <1> QED
    BY <1>3, <1>4, FS_CardinalityType

\* One more request counts for the sets its sender is in.
LEMMA SentAppend ==
  ASSUME NEW log \in Seq(Proc), NEW p \in Proc, NEW S
  PROVE  Sent(Append(log, p), S) = Sent(log, S) + IF p \in S THEN 1 ELSE 0
  <1> DEFINE next == Append(log, p)
             n    == Len(log) + 1
  <1>1. /\ next \in Seq(Proc) /\ DOMAIN next = DOMAIN log \cup {n}
        /\ \A i \in DOMAIN log : next[i] = log[i]
        /\ next[n] = p /\ n \notin DOMAIN log
    OBVIOUS
  <1> HIDE DEF next, n
  <1>2. Positions(next, S) = Positions(log, S) \cup IF p \in S THEN {n} ELSE {}
    BY <1>1 DEF Positions
  <1>3. n \notin Positions(log, S)
    BY <1>1 DEF Positions
  <1>4. Sent(next, S) = Cardinality(Positions(next, S))
    BY <1>1, PositionsFinite
  <1>5. /\ IsFiniteSet(Positions(log, S)) /\ Sent(log, S) \in Nat
        /\ Sent(log, S) = Cardinality(Positions(log, S))
    BY PositionsFinite
  <1>6. Cardinality(Positions(log, S) \cup {n}) = Cardinality(Positions(log, S)) + 1
    BY <1>3, <1>5, FS_AddElement
  <1>7. p \in S => Sent(next, S) = Sent(log, S) + 1
    BY <1>2, <1>4, <1>5, <1>6
  <1>8. p \notin S => Positions(next, S) = Positions(log, S)
    BY <1>2
  <1> QED
    BY <1>4, <1>5, <1>7, <1>8 DEF next

\* Requests of two sets of senders with nobody in common add up.
LEMMA SentDisjoint ==
  ASSUME NEW log \in Seq(Proc), NEW S, NEW T, S \cap T = {}
  PROVE  Sent(log, S \cup T) = Sent(log, S) + Sent(log, T)
  <1>1. /\ Positions(log, S \cup T) = Positions(log, S) \cup Positions(log, T)
        /\ Positions(log, S) \cap Positions(log, T) = {}
    BY DEF Positions
  <1>2. Cardinality(Positions(log, S) \cup Positions(log, T))
          = Cardinality(Positions(log, S)) + Cardinality(Positions(log, T)) - 0
    BY <1>1, PositionsFinite, FS_Union, FS_EmptySet
  <1>3. /\ Sent(log, S) = Cardinality(Positions(log, S)) /\ Sent(log, S) \in Nat
        /\ Sent(log, T) = Cardinality(Positions(log, T)) /\ Sent(log, T) \in Nat
        /\ Sent(log, S \cup T) = Cardinality(Positions(log, S \cup T))
    BY PositionsFinite
  <1>4. Sent(log, S \cup T) = Sent(log, S) + Sent(log, T) - 0
    BY <1>1, <1>2, <1>3
  <1> QED
    BY <1>3, <1>4

-----------------------------------------------------------------------------
(* The parts of CoverInv, for one process.                                 *)

Unsettled(p) == Live(p) /\ parent[p] # NoProc => lease[p] # NoLease

CountsOwn(p) == Sent(attempts, {p}) + calls[p] <= used[p]

\* Everybody who counts against p, without the holder of the lease it has out.
Charged(p) == Family(p) \ Leases(p)

CountsCharged(p) ==
  limit[p] # NoLimit => Sent(attempts, Charged(p)) + calls[p] <= used[p] + hidden[p]

\* CoverInv, by the names used below.
LEMMA CoverParts ==
  CoverInv <=> \A p \in Proc : Unsettled(p) /\ CountsOwn(p) /\ CountsCharged(p)
  BY DEF CoverInv, Unsettled, CountsOwn, CountsCharged, Charged

\* Everything CoverInv adds up is a number.
LEMMA CountTypes ==
  ASSUME BudgetInv, NEW p \in Proc
  PROVE  /\ \A S : Sent(attempts, S) \in Nat
         /\ calls[p] \in Nat /\ used[p] \in Nat /\ hidden[p] \in Nat
         /\ reserved[p] \in Nat /\ attempts \in Seq(Proc)
  BY PositionsFinite DEF BudgetInv, TypeOK

\* Nothing has been sent yet.
LEMMA InitCover == Init => AccountInv
  <1> SUFFICES ASSUME Init PROVE AccountInv
    OBVIOUS
  <1>1. BudgetInv
    BY InitInv
  <1>2. \A S : Sent(attempts, S) = 0
    <2> TAKE S
    <2>1. attempts = <<>> /\ attempts \in Seq(Proc)
      BY DEF Init
    <2>2. Positions(attempts, S) = {}
      BY <2>1 DEF Positions
    <2> QED
      BY <2>1, <2>2, PositionsFinite, FS_EmptySet
  <1>3. CoverInv
    BY <1>2 DEF Init, CoverInv, Live
  <1> QED
    BY <1>1, <1>3 DEF AccountInv

\* A process that starts has no children and has sent nothing.
LEMMA StartKeepsCover ==
  ASSUME AccountInv, NEW p \in Proc, Start(p)
  PROVE  CoverInv'
  <1>1. BudgetInv /\ CoverInv
    BY DEF AccountInv
  <1>2. /\ state[p] = "fresh" /\ state' = [state EXCEPT ![p] = "live"]
        /\ \E n \in {Ceiling, NoLimit} : limit' = [limit EXCEPT ![p] = n]
        /\ UNCHANGED <<row, parent, used, reserved, lease, calls, attempts, hidden>>
    BY DEF Start
  <1>3. /\ parent[p] = NoProc /\ used[p] = 0 /\ \A c \in Proc : parent[c] # p
    BY <1>1, <1>2 DEF BudgetInv, FamilyInv
  <1>4. \A q \in Proc : Charged(q)' = Charged(q)
    BY <1>2 DEF Charged, Family, Leases
  <1>5. Charged(p) = {p}
    BY <1>3, BudgetAssumption DEF Charged, Family, Leases
  <1>6. \A q \in Proc : Unsettled(q)'
    BY <1>1, <1>2, <1>3, CoverParts DEF Unsettled, Live, BudgetInv, TypeOK
  <1>7. \A q \in Proc : CountsOwn(q)'
    BY <1>1, <1>2, CoverParts DEF CountsOwn
  <1>8. CountsCharged(p)'
    <2>1. Sent(attempts, {p}) + calls[p] <= used[p]
      BY <1>1, CoverParts DEF CountsOwn
    <2>2. /\ Sent(attempts, {p}) \in Nat /\ calls[p] \in Nat
          /\ used[p] \in Nat /\ hidden[p] \in Nat
      BY <1>1, CountTypes
    <2>3. Charged(p)' = {p}
      BY <1>4, <1>5
    <2>4. Sent(attempts', Charged(p)') = Sent(attempts, {p})
      BY <1>2, <2>3
    <2> QED
      BY <1>2, <2>1, <2>2, <2>4 DEF CountsCharged
  <1>9. \A q \in Proc \ {p} : limit'[q] = limit[q]
    BY <1>1, <1>2 DEF BudgetInv, TypeOK
  <1>10. \A q \in Proc \ {p} : CountsCharged(q)'
    BY <1>1, <1>2, <1>4, <1>9, CoverParts DEF CountsCharged
  <1> QED
    BY <1>6, <1>7, <1>8, <1>10, CoverParts DEF CoverInv, Unsettled, CountsOwn, CountsCharged, Charged

\* A new child has sent nothing; it joins those charged only if its lease is worth
\* nothing.
LEMMA SpawnKeepsCover ==
  ASSUME AccountInv, NEW p \in Proc, NEW c \in Proc, Spawn(p, c)
  PROVE  CoverInv'
  <1> DEFINE a == Remaining(p)
  <1>1. BudgetInv /\ CoverInv
    BY DEF AccountInv
  <1>2. /\ state[p] = "live" /\ parent[p] = NoProc /\ state[c] = "fresh" /\ c # p
        /\ state' = [state EXCEPT ![c] = "live"]
        /\ parent' = [parent EXCEPT ![c] = p]
        /\ lease' = [lease EXCEPT ![c] = a]
        /\ UNCHANGED <<row, used, calls, attempts, hidden>>
        /\ \A q \in Proc \ {c} : limit'[q] = limit[q]
    BY <1>1 DEF Spawn, Live, BudgetInv, TypeOK
  <1>3. a = NoLimit \/ a \in Nat
    BY <1>1 DEF Remaining, Minus, BudgetInv, TypeOK, Amount
  <1> HIDE DEF a
  <1>4. /\ parent[c] = NoProc /\ lease[c] = NoLease /\ used[c] = 0
        /\ \A d \in Proc : parent[d] # c
    BY <1>1, <1>2 DEF BudgetInv, FamilyInv
  <1>5. /\ parent \in [Proc -> Proc \cup {NoProc}] /\ state \in [Proc -> {"fresh", "live", "gone"}]
        /\ lease \in [Proc -> Amount \cup {NoLease}]
    BY <1>1 DEF BudgetInv, TypeOK
  <1>6. \A q \in Proc : CountsOwn(q)'
    BY <1>1, <1>2, CoverParts DEF CountsOwn
  <1>7. \A q \in Proc : Unsettled(q)'
    BY <1>1, <1>2, <1>3, <1>5, CoverParts, BudgetAssumption DEF Unsettled, Live
  <1>8. \A q \in Proc \ {p, c} : Charged(q)' = Charged(q)
    BY <1>2, <1>4, <1>5, BudgetAssumption DEF Charged, Family, Leases
  <1>9. Charged(c)' = {c}
    BY <1>2, <1>4, <1>5, BudgetAssumption DEF Charged, Family, Leases
  <1>10. Charged(p)' = Charged(p) \/ Charged(p)' = Charged(p) \cup {c}
    BY <1>2, <1>4, <1>5, BudgetAssumption DEF Charged, Family, Leases
  <1>11. c \notin Charged(p)
    BY <1>2, <1>4, BudgetAssumption DEF Charged, Family
  <1>12. /\ Sent(attempts, {c}) = 0 /\ calls[c] = 0 /\ hidden[c] \in Nat
    <2>1. Sent(attempts, {c}) + calls[c] <= used[c]
      BY <1>1, CoverParts DEF CountsOwn
    <2>2. Sent(attempts, {c}) \in Nat /\ calls[c] \in Nat /\ hidden[c] \in Nat
      BY <1>1, CountTypes
    <2> QED
      BY <1>4, <2>1, <2>2
  <1>13. CountsCharged(c)'
    <2>1. Sent(attempts', Charged(c)') = 0
      BY <1>2, <1>9, <1>12
    <2> QED
      BY <1>2, <1>4, <1>12, <2>1 DEF CountsCharged
  <1>14. CountsCharged(p)'
    <2>1. Sent(attempts, Charged(p) \cup {c}) = Sent(attempts, Charged(p)) + Sent(attempts, {c})
      BY <1>1, <1>11, CountTypes, SentDisjoint
    <2>2. Sent(attempts, Charged(p)) \in Nat
      BY <1>1, CountTypes
    <2>3. Sent(attempts', Charged(p)') = Sent(attempts, Charged(p))
      <3>1. Sent(attempts, Charged(p) \cup {c}) = Sent(attempts, Charged(p))
        BY <1>12, <2>1, <2>2
      <3>2. Sent(attempts, Charged(p)') = Sent(attempts, Charged(p))
        BY <1>10, <3>1
      <3> QED
        BY <1>2, <3>2
    <2>4. CountsCharged(p)
      BY <1>1, CoverParts
    <2> QED
      BY <1>2, <2>3, <2>4 DEF CountsCharged
  <1>15. \A q \in Proc \ {p, c} : CountsCharged(q)'
    BY <1>1, <1>2, <1>8, CoverParts DEF CountsCharged
  <1> QED
    BY <1>6, <1>7, <1>13, <1>14, <1>15
    DEF CoverInv, Unsettled, CountsOwn, CountsCharged, Charged

\* consume counts before the request may be sent.
LEMMA AdmitKeepsCover ==
  ASSUME AccountInv, NEW p \in Proc, Admit(p)
  PROVE  CoverInv'
  <1>1. BudgetInv /\ CoverInv
    BY DEF AccountInv
  <1>2. /\ used'  = [used EXCEPT ![p] = @ + 1]
        /\ calls' = [calls EXCEPT ![p] = @ + 1]
        /\ UNCHANGED <<row, state, parent, limit, reserved, lease, attempts, hidden>>
    BY DEF Admit
  <1>3. \A q \in Proc : Unsettled(q)' /\ Charged(q)' = Charged(q)
    BY <1>1, <1>2, CoverParts DEF Unsettled, Live, Charged, Family, Leases
  <1>4. \A q \in Proc : CountsOwn(q)' /\ CountsCharged(q)'
    <2> TAKE q \in Proc
    <2>1. CountsOwn(q) /\ CountsCharged(q)
      BY <1>1, CoverParts
    <2>2. /\ Sent(attempts, {q}) \in Nat /\ Sent(attempts, Charged(q)) \in Nat
          /\ calls[q] \in Nat /\ used[q] \in Nat /\ hidden[q] \in Nat
      BY <1>1, CountTypes
    <2>3. \/ used'[q] = used[q] /\ calls'[q] = calls[q]
          \/ used'[q] = used[q] + 1 /\ calls'[q] = calls[q] + 1
      BY <1>1, <1>2 DEF BudgetInv, TypeOK
    <2>4. Sent(attempts', Charged(q)') = Sent(attempts, Charged(q))
      BY <1>2, <1>3
    <2> QED
      BY <1>2, <2>1, <2>2, <2>3, <2>4 DEF CountsOwn, CountsCharged
  <1> QED
    BY <1>3, <1>4 DEF CoverInv, Unsettled, CountsOwn, CountsCharged, Charged

\* A request that the row admits moves from calls to attempts.  It counts against
\* the parent as well only if the sender's lease is not worth anything, and then
\* the sender has no request to send.
LEMMA SendKeepsCover ==
  ASSUME AccountInv, NEW p \in Proc, Send(p)
  PROVE  CoverInv'
  <1>1. BudgetInv /\ CoverInv
    BY DEF AccountInv
  <1>2. /\ Live(p) /\ calls[p] > 0
        /\ calls' = [calls EXCEPT ![p] = @ - 1]
        /\ attempts' = Append(attempts, p)
        /\ UNCHANGED <<state, parent, limit, used, reserved, lease, hidden>>
    BY DEF Send
  <1>3. \A q \in Proc : Unsettled(q)' /\ Charged(q)' = Charged(q)
    BY <1>1, <1>2, CoverParts DEF Unsettled, Live, Charged, Family, Leases
  <1>4. \A S : Sent(attempts', S) = Sent(attempts, S) + IF p \in S THEN 1 ELSE 0
    BY <1>1, <1>2, SentAppend DEF BudgetInv, TypeOK
  <1>5. \A q \in Proc \ {p} : calls'[q] = calls[q]
    BY <1>1, <1>2 DEF BudgetInv, TypeOK
  <1>6. calls'[p] = calls[p] - 1
    BY <1>1, <1>2 DEF BudgetInv, TypeOK
  <1>7. \A q \in Proc \ {p} : limit[q] # NoLimit => p \notin Charged(q)
    <2> SUFFICES ASSUME NEW q \in Proc \ {p}, limit[q] # NoLimit, p \in Charged(q)
                 PROVE  FALSE
      OBVIOUS
    <2>1. parent[p] = q /\ p \notin Leases(q)
      BY DEF Charged, Family
    <2>2. lease[p] # NoLease
      BY <1>1, <1>2, <2>1, CoverParts, BudgetAssumption DEF Unsettled
    <2>3. /\ lease[p] # NoLimit /\ lease[p] \in Nat
          /\ limit[p] \in Nat /\ limit[p] <= lease[p]
      BY <1>1, <2>1, <2>2, LeaseFacts
    <2>4. lease[p] = 0
      BY <2>1, <2>3 DEF Leases
    <2>5. used[p] + reserved[p] <= limit[p]
      BY <1>1, <2>3, BudgetAssumption DEF BudgetInv, WithinLimit
    <2>6. Sent(attempts, {p}) + calls[p] <= used[p]
      BY <1>1, CoverParts DEF CountsOwn
    <2>7. /\ Sent(attempts, {p}) \in Nat /\ calls[p] \in Nat /\ used[p] \in Nat
          /\ reserved[p] \in Nat
      BY <1>1, CountTypes
    <2> QED
      BY <1>2, <2>3, <2>4, <2>5, <2>6, <2>7
  <1>8. \A q \in Proc : CountsOwn(q)' /\ CountsCharged(q)'
    <2> TAKE q \in Proc
    <2>1. CountsOwn(q) /\ CountsCharged(q)
      BY <1>1, CoverParts
    <2>2. /\ Sent(attempts, {q}) \in Nat /\ Sent(attempts, Charged(q)) \in Nat
          /\ calls[q] \in Nat /\ used[q] \in Nat /\ hidden[q] \in Nat
      BY <1>1, CountTypes
    <2>3. Sent(attempts', {q}) + calls'[q] = Sent(attempts, {q}) + calls[q]
      BY <1>4, <1>5, <1>6, <2>2
    <2>4. limit[q] # NoLimit =>
            Sent(attempts', Charged(q)) + calls'[q] <= Sent(attempts, Charged(q)) + calls[q]
      BY <1>4, <1>5, <1>6, <1>7, <2>2
    <2>5. CountsOwn(q)'
      BY <1>2, <2>1, <2>3 DEF CountsOwn
    <2>6. Sent(attempts', Charged(q)') = Sent(attempts', Charged(q))
      BY <1>3
    <2>7. Sent(attempts', Charged(q)) \in Nat /\ calls'[q] \in Int
      BY <1>4, <1>5, <1>6, <2>2
    <2>8. CountsCharged(q)'
      <3> DEFINE old == Sent(attempts, Charged(q))
                 new == Sent(attempts', Charged(q))
      <3>1. limit[q] # NoLimit => old + calls[q] <= used[q] + hidden[q]
        BY <2>1 DEF CountsCharged
      <3>2. /\ old \in Nat /\ new \in Nat
            /\ limit[q] # NoLimit => new + calls'[q] <= old + calls[q]
        BY <2>2, <2>4, <2>7
      <3> HIDE DEF old, new
      <3>3. limit[q] # NoLimit => new + calls'[q] <= used[q] + hidden[q]
        BY <2>2, <2>7, <3>1, <3>2
      <3> QED
        BY <1>2, <2>6, <3>3 DEF CountsCharged, new
    <2> QED
      BY <2>5, <2>8
  <1> QED
    BY <1>3, <1>8 DEF CoverInv, Unsettled, CountsOwn, CountsCharged, Charged

\* Steps that only drop requests, or end a process, keep what is counted.
LEMMA DropKeepsCover ==
  ASSUME AccountInv, NEW p \in Proc, Refuse(p) \/ Stop(p)
  PROVE  CoverInv'
  <1>1. BudgetInv /\ CoverInv
    BY DEF AccountInv
  <1>2. /\ \/ calls[p] > 0 /\ calls' = [calls EXCEPT ![p] = @ - 1]
           \/ calls' = [calls EXCEPT ![p] = 0]
        /\ UNCHANGED <<parent, limit, used, reserved, lease, attempts, hidden>>
        /\ \A q \in Proc : Live(q)' => Live(q)
    BY <1>1 DEF Refuse, Stop, Live, BudgetInv, TypeOK
  <1>3. \A q \in Proc : Unsettled(q)' /\ Charged(q)' = Charged(q)
    BY <1>1, <1>2, CoverParts DEF Unsettled, Charged, Family, Leases
  <1>4. \A q \in Proc : calls'[q] \in Nat /\ calls'[q] <= calls[q]
    <2>1. calls \in [Proc -> Nat]
      BY <1>1 DEF BudgetInv, TypeOK
    <2>2. CASE calls[p] > 0 /\ calls' = [calls EXCEPT ![p] = @ - 1]
      BY <2>1, <2>2
    <2>3. CASE calls' = [calls EXCEPT ![p] = 0]
      BY <2>1, <2>3
    <2> QED
      BY <1>2, <2>2, <2>3
  <1>5. \A q \in Proc : CountsOwn(q)' /\ CountsCharged(q)'
    <2> TAKE q \in Proc
    <2>1. CountsOwn(q) /\ CountsCharged(q)
      BY <1>1, CoverParts
    <2>2. /\ Sent(attempts, {q}) \in Nat /\ Sent(attempts, Charged(q)) \in Nat
          /\ calls[q] \in Nat /\ used[q] \in Nat /\ hidden[q] \in Nat
      BY <1>1, CountTypes
    <2>3. Sent(attempts', Charged(q)') = Sent(attempts, Charged(q))
      BY <1>2, <1>3
    <2> QED
      BY <1>2, <1>4, <2>1, <2>2, <2>3 DEF CountsOwn, CountsCharged
  <1> QED
    BY <1>3, <1>5 DEF CoverInv, Unsettled, CountsOwn, CountsCharged, Charged

\* When a child is settled its requests join those charged to the parent; the
\* charge and what the report left out make up for them.
LEMMA SettleKeepsCover ==
  ASSUME AccountInv, NEW c \in Proc, NEW report \in Reports(c), Settle(c, report)
  PROVE  CoverInv'
  <1>1. BudgetInv /\ CoverInv
    BY DEF AccountInv
  <1>2. PICK p \in Proc : p = parent[c] /\ p # c
    BY <1>1, LeaseFacts DEF Settle
  <1> DEFINE cost == Charge(c, report)
             left == IF report = NoLimit THEN 0 ELSE Minus(used[c], report)
  <1>3. /\ state[c] = "gone" /\ lease[c] # NoLease
        /\ lease' = [lease EXCEPT ![c] = NoLease]
        /\ used' = [used EXCEPT ![p] = IF limit[p] = NoLimit THEN @ + cost
                                       ELSE AtMost(@ + cost, limit[p])]
        /\ hidden' = [hidden EXCEPT ![p] = @ + left]
        /\ UNCHANGED <<row, state, parent, limit, calls, attempts>>
    BY <1>2 DEF Settle
  <1>4. cost \in Nat /\ (lease[c] # NoLimit => cost <= lease[c])
    BY <1>1, <1>3, ChargeFacts
  <1>5. (report = NoLimit \/ report \in Nat) /\ used[c] \in Nat /\ used[p] \in Nat
    BY <1>1 DEF Reports, BudgetInv, TypeOK
  <1>6. left \in Nat
    BY <1>5 DEF Minus
  <1>7. /\ lease[c] = NoLimit <=> limit[p] = NoLimit
        /\ lease[c] # NoLimit => /\ lease[c] \in Nat /\ limit[c] \in Nat
                                 /\ limit[p] \in Nat /\ limit[c] <= lease[c]
    BY <1>1, <1>2, <1>3, LeaseFacts
  <1>8. lease[c] # NoLimit => used[c] <= cost + left
    <2> SUFFICES ASSUME lease[c] # NoLimit PROVE used[c] <= cost + left
      OBVIOUS
    <2>1. used[c] + reserved[c] <= limit[c] /\ reserved[c] \in Nat
      BY <1>1, <1>7, BudgetAssumption DEF BudgetInv, WithinLimit, TypeOK
    <2>2. used[c] <= lease[c] /\ lease[c] \in Nat
      BY <1>5, <1>7, <2>1
    <2>3. CASE report = NoLimit
      BY <1>3, <1>5, <2>2, <2>3 DEF Charge
    <2>4. CASE report # NoLimit
      BY <1>5, <2>2, <2>4 DEF Charge, AtMost, Minus
    <2> QED
      BY <2>3, <2>4
  <1> HIDE DEF cost, left
  <1>9. /\ used \in [Proc -> Nat] /\ hidden \in [Proc -> Nat]
        /\ lease \in [Proc -> Amount \cup {NoLease}]
    BY <1>1 DEF BudgetInv, TypeOK
  <1>10. \A q \in Proc \ {p} : used'[q] = used[q] /\ hidden'[q] = hidden[q]
    BY <1>3, <1>9
  <1>11. hidden'[p] = hidden[p] + left
    BY <1>3, <1>9
  <1>12. used'[p] \in Nat /\ used[p] <= used'[p]
    <2>1. CASE limit[p] = NoLimit
      BY <1>3, <1>4, <1>9, <2>1
    <2>2. CASE limit[p] # NoLimit
      <3>1. used[p] + reserved[p] <= limit[p] /\ reserved[p] \in Nat /\ limit[p] \in Nat
        BY <1>1, <1>7, <2>2 DEF BudgetInv, WithinLimit, TypeOK
      <3>2. used'[p] = AtMost(used[p] + cost, limit[p])
        BY <1>3, <1>9, <2>2
      <3> QED
        BY <1>4, <1>5, <3>1, <3>2 DEF AtMost
    <2> QED
      BY <2>1, <2>2
  <1>13. \A q \in Proc \ {p} : Charged(q)' = Charged(q)
    BY <1>2, <1>3, <1>9 DEF Charged, Family, Leases
  <1>14. Charged(p)' = Charged(p) \cup IF c \in Leases(p) THEN {c} ELSE {}
    BY <1>2, <1>3, <1>9, BudgetAssumption DEF Charged, Family, Leases
  <1>15. \A q \in Proc : Unsettled(q)'
    BY <1>1, <1>3, <1>9, CoverParts DEF Unsettled, Live
  <1>16. \A q \in Proc : CountsOwn(q)'
    <2> TAKE q \in Proc
    <2>1. /\ CountsOwn(q) /\ Sent(attempts, {q}) \in Nat /\ calls[q] \in Nat
          /\ used[q] \in Nat
      BY <1>1, CoverParts, CountTypes
    <2>2. used[q] <= used'[q] /\ used'[q] \in Nat
      BY <1>10, <1>12, <2>1
    <2> QED
      BY <1>3, <2>1, <2>2 DEF CountsOwn
  <1>17. \A q \in Proc \ {p} : CountsCharged(q)'
    BY <1>1, <1>3, <1>10, <1>13, CoverParts DEF CountsCharged
  <1>18. CountsCharged(p)'
    <2> SUFFICES ASSUME limit[p] # NoLimit
                 PROVE  Sent(attempts, Charged(p)') + calls[p] <= used'[p] + hidden'[p]
      BY <1>3 DEF CountsCharged
    <2>1. Sent(attempts, Charged(p)) + calls[p] <= used[p] + hidden[p]
      BY <1>1, CoverParts DEF CountsCharged
    <2>2. /\ Sent(attempts, Charged(p)) \in Nat /\ Sent(attempts, {c}) \in Nat
          /\ calls[p] \in Nat /\ hidden[p] \in Nat /\ calls[c] \in Nat
      BY <1>1, CountTypes
    <2>3. CASE c \notin Leases(p)
      <3>1. Sent(attempts, Charged(p)') = Sent(attempts, Charged(p))
        BY <1>14, <2>3
      <3> QED
        BY <1>5, <1>6, <1>11, <1>12, <2>1, <2>2, <3>1
    <2>4. CASE c \in Leases(p)
      <3>1. Sent(attempts, Charged(p)') = Sent(attempts, Charged(p)) + Sent(attempts, {c})
        BY <1>1, <1>14, <2>4, CountTypes, SentDisjoint DEF Charged
      <3>2. Sent(attempts, {c}) <= used[c]
        <4>1. Sent(attempts, {c}) + calls[c] <= used[c]
          BY <1>1, CoverParts DEF CountsOwn
        <4> QED
          BY <1>5, <2>2, <4>1
      <3>3. /\ used[p] + lease[c] = limit[p] /\ lease[c] \in Nat /\ limit[p] \in Nat
            /\ lease[c] # NoLimit
        BY <1>1, <1>7, <2>4 DEF BudgetInv, LeaseInv
      <3>4. used'[p] = used[p] + cost
        <4>1. used'[p] = AtMost(used[p] + cost, limit[p])
          BY <1>3, <1>9
        <4> QED
          BY <1>4, <1>5, <3>3, <4>1 DEF AtMost
      <3>5. used[c] <= cost + left
        BY <1>8, <3>3
      <3> QED
        BY <1>4, <1>5, <1>6, <1>11, <2>1, <2>2, <3>1, <3>2, <3>4, <3>5
    <2> QED
      BY <2>3, <2>4
  <1> QED
    BY <1>15, <1>16, <1>17, <1>18
    DEF CoverInv, Unsettled, CountsOwn, CountsCharged, Charged

\* Every step of the budget keeps the account.
LEMMA StepKeepsAccount ==
  ASSUME AccountInv, [Next]_vars
  PROVE  AccountInv'
  <1>1. BudgetInv'
    BY StepKeepsInv DEF AccountInv
  <1>2. CASE UNCHANGED vars
    <2>1. CoverInv'
      BY <1>2 DEF vars, AccountInv, CoverInv, Live, Family, Leases
    <2> QED
      BY <1>1, <2>1 DEF AccountInv
  <1>3. CASE Next
    <2>1. CoverInv'
      BY <1>3, StartKeepsCover, SpawnKeepsCover, AdmitKeepsCover, SendKeepsCover,
         DropKeepsCover, SettleKeepsCover
      DEF Next
    <2> QED
      BY <1>1, <2>1 DEF AccountInv
  <1> QED
    BY <1>2, <1>3

-----------------------------------------------------------------------------

\* The ledgers, the leases and the row stay together, and a ledger stays ahead
\* of the requests charged to it.
THEOREM AccountInvariance == Spec => []AccountInv
  BY InitCover, StepKeepsAccount, PTL DEF Spec

\* No child - killed, silent, or one whose report is short - makes a limited
\* ledger lose sight of a request without a report having left it out.
THEOREM LedgerCovers == Spec => []LedgerCoversChildren
  <1>1. AccountInv => LedgerCoversChildren
    <2> SUFFICES ASSUME AccountInv, NEW p \in Proc, limit[p] # NoLimit
                 PROVE  Sent(attempts, Family(p)) <= used[p] + reserved[p] + hidden[p]
      BY DEF LedgerCoversChildren
    <2>1. BudgetInv /\ CoverInv
      BY DEF AccountInv
    <2>2. Sent(attempts, Charged(p)) + calls[p] <= used[p] + hidden[p]
      BY <2>1, CoverParts DEF CountsCharged
    <2>3. /\ \A S : Sent(attempts, S) \in Nat
          /\ calls[p] \in Nat /\ used[p] \in Nat /\ hidden[p] \in Nat
          /\ reserved[p] \in Nat /\ attempts \in Seq(Proc)
      BY <2>1, CountTypes
    <2>4. CASE Leases(p) = {}
      <3>1. Charged(p) = Family(p)
        BY <2>4 DEF Charged
      <3> QED
        BY <2>2, <2>3, <3>1
    <2>5. CASE Leases(p) # {}
      <3>1. PICK c \in Leases(p) : TRUE
        BY <2>5
      <3>2. c \in Proc /\ Leases(p) = {c} /\ reserved[p] = lease[c]
        BY <2>1, <3>1 DEF BudgetInv, LeaseInv, Leases
      <3>3. Family(p) = Charged(p) \cup {c} /\ Charged(p) \cap {c} = {}
        BY <3>2 DEF Charged, Family, Leases
      <3>4. Sent(attempts, Family(p)) = Sent(attempts, Charged(p)) + Sent(attempts, {c})
        BY <2>3, <3>3, SentDisjoint
      <3>5. Sent(attempts, {c}) <= reserved[p]
        <4>1. /\ lease[c] # NoLimit /\ lease[c] \in Nat
              /\ limit[c] \in Nat /\ limit[c] <= lease[c]
          BY <2>1, <3>1, LeaseFacts, BudgetAssumption DEF Leases
        <4>2. used[c] + reserved[c] <= limit[c]
          BY <2>1, <3>2, <4>1, BudgetAssumption DEF BudgetInv, WithinLimit
        <4>3. Sent(attempts, {c}) + calls[c] <= used[c]
          BY <2>1, <3>2, CoverParts DEF CountsOwn
        <4>4. /\ Sent(attempts, {c}) \in Nat /\ calls[c] \in Nat
              /\ used[c] \in Nat /\ reserved[c] \in Nat
          BY <2>1, <3>2, CountTypes
        <4> QED
          BY <3>2, <4>1, <4>2, <4>3, <4>4
      <3> DEFINE charged == Sent(attempts, Charged(p))
                 leased  == Sent(attempts, {c})
      <3>6. /\ charged \in Nat /\ leased \in Nat /\ calls[p] \in Nat
            /\ used[p] \in Nat /\ hidden[p] \in Nat /\ reserved[p] \in Nat
        BY <2>3
      <3>7. charged + calls[p] <= used[p] + hidden[p] /\ leased <= reserved[p]
        BY <2>2, <3>5
      <3> HIDE DEF charged, leased
      <3>8. charged + leased <= used[p] + reserved[p] + hidden[p]
        BY <3>6, <3>7
      <3> QED
        BY <3>4, <3>8 DEF charged, leased
    <2> QED
      BY <2>4, <2>5
  <1> QED
    BY <1>1, AccountInvariance, PTL
=============================================================================
