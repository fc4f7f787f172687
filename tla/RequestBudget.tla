--------------------------- MODULE RequestBudget ---------------------------
(***************************************************************************)
(* How many model requests one execution may send.  Every process that     *)
(* works for it counts its requests in a ledger of its own                 *)
(* (runtime/request_budget.py); a child process, a preflight or an         *)
(* experiment runs on a lease of its parent's ledger.  On top of that all  *)
(* of them - the process that began the execution, the one that resumed    *)
(* it after a crash, and children that outlived their parent - count in    *)
(* the execution's row (ExecutionStore.reserve_model).                     *)
(*                                                                         *)
(* A request passes the ledger, then the row, then goes out (sdk.py,       *)
(* on_llm_start); the first two are separate steps, so that concurrent     *)
(* tasks and processes interleave between them.  Deadlines are left out:   *)
(* they only refuse more.  Leases are one level deep, as in the CLI.       *)
(***************************************************************************)
EXTENDS Naturals, Sequences, FiniteSets

CONSTANTS Proc,         \* processes and preflight scopes, each used once
          NoProc,       \* "no parent"
          Budget,       \* executions.budget_limit
          Ceiling,      \* limit of the ledger of the process that begins
          NoLimit,      \* the limit of a ledger that has none
          NoLease,      \* "no open lease"
          Cap           \* bound: requests a ledger without limit admits

ASSUME BudgetAssumption ==
  /\ NoProc \notin Proc
  /\ Budget \in Nat /\ Ceiling \in Nat /\ Cap \in Nat
  /\ NoLimit \notin Nat
  /\ NoLease \notin Nat \cup {NoLimit}

VARIABLES row,       \* executions.consumed
          state,     \* of each process: "fresh", "live" or "gone"
          parent,    \* the process on whose lease it runs
          limit,     \* ledger: limit
          used,      \* ledger: _consumed
          reserved,  \* ledger: _reserved
          lease,     \* its open lease: the parent's allocation
          calls,     \* its requests past the ledger, not yet past the row
          attempts,  \* execution_model_attempts, by ordinal: who sent the request
          hidden     \* history: requests that reports to p have left out

ledger == <<limit, used, reserved>>
vars   == <<row, state, parent, ledger, lease, calls, attempts, hidden>>

Amount == Nat \cup {NoLimit}

TypeOK ==
  /\ row      \in Nat
  /\ state    \in [Proc -> {"fresh", "live", "gone"}]
  /\ parent   \in [Proc -> Proc \cup {NoProc}]
  /\ limit    \in [Proc -> Amount]
  /\ used     \in [Proc -> Nat]
  /\ reserved \in [Proc -> Nat]
  /\ lease    \in [Proc -> Amount \cup {NoLease}]
  /\ calls    \in [Proc -> Nat]
  /\ attempts \in Seq(Proc)
  /\ hidden   \in [Proc -> Nat]

Init ==
  /\ row      = 0
  /\ state    = [p \in Proc |-> "fresh"]
  /\ parent   = [p \in Proc |-> NoProc]
  /\ limit    = [p \in Proc |-> NoLimit]
  /\ used     = [p \in Proc |-> 0]
  /\ reserved = [p \in Proc |-> 0]
  /\ lease    = [p \in Proc |-> NoLease]
  /\ calls    = [p \in Proc |-> 0]
  /\ attempts = <<>>
  /\ hidden   = [p \in Proc |-> 0]

-----------------------------------------------------------------------------

Live(p)  == state[p] = "live"
Roots    == {p \in Proc : Live(p) /\ parent[p] = NoProc}
AtMost(m, n) == IF m <= n THEN m ELSE n
Minus(m, n)  == IF n <= m THEN m - n ELSE 0

\* A slip the checks must notice: one request too many passes.
LedgerOpenPastLimit(p) ==
  IF limit[p] = NoLimit THEN used[p] < Cap ELSE used[p] + reserved[p] <= limit[p]

\* The ledger admits another request.
LedgerOpen(p) ==
  IF limit[p] = NoLimit THEN used[p] < Cap ELSE used[p] + reserved[p] < limit[p]

\* Slip: what is out on a lease is forgotten.
RemainingUnleased(p) == IF limit[p] = NoLimit THEN NoLimit ELSE Minus(limit[p], used[p])

Remaining(p) ==
  IF limit[p] = NoLimit THEN NoLimit ELSE Minus(limit[p], used[p] + reserved[p])

\* Slip: the row is not asked.
RowOpenAlways == TRUE

RowOpen == row < Budget

\* Slip: a child that says nothing is charged nothing.
ChargeTrusting(c, report) == IF report = NoLimit THEN 0 ELSE report

\* What a lease costs: at most what it allocated, and all of it if the child is
\* silent.  Without a limit there is nothing to hold back.
Charge(c, report) ==
  CASE report = NoLimit /\ lease[c] = NoLimit -> 0
    [] report = NoLimit /\ lease[c] # NoLimit -> lease[c]
    [] report # NoLimit /\ lease[c] = NoLimit -> report
    [] OTHER -> AtMost(report, lease[c])

\* What a child may be found to have used: what its ledger counted, less when its
\* output was written before it was done, one more when its usage events count a
\* request twice, or NoLimit when it reports nothing.
Reports(c) == {NoLimit} \cup 0 .. used[c] + 1

-----------------------------------------------------------------------------

\* A process begins or resumes the execution, one at a time.  The one that
\* begins it has the ledger whose limit the row records; a resumed one may
\* have none.
Start(p) ==
  /\ state[p] = "fresh"
  /\ Roots = {}
  /\ \E n \in {Ceiling, NoLimit} : limit' = [limit EXCEPT ![p] = n]
  /\ state' = [state EXCEPT ![p] = "live"]
  /\ UNCHANGED <<row, parent, used, reserved, lease, calls, attempts, hidden>>

\* reserve_child: the lease takes all that is left; the child's own limit may be
\* smaller (preflight, experiments).
Spawn(p, c) ==
  LET allocation == Remaining(p) IN
  /\ Live(p) /\ parent[p] = NoProc
  /\ state[c] = "fresh" /\ c # p
  /\ state'    = [state EXCEPT ![c] = "live"]
  /\ parent'   = [parent EXCEPT ![c] = p]
  /\ lease'    = [lease EXCEPT ![c] = allocation]
  /\ reserved' = [reserved EXCEPT ![p] = @ + IF allocation = NoLimit THEN 0 ELSE allocation]
  /\ \E n \in IF allocation = NoLimit THEN {NoLimit} ELSE 0 .. allocation :
        limit' = [limit EXCEPT ![c] = n]
  /\ UNCHANGED <<row, used, calls, attempts, hidden>>

\* consume: counted before it is sent.
Admit(p) ==
  /\ Live(p)
  /\ LedgerOpen(p)
  /\ used'  = [used EXCEPT ![p] = @ + 1]
  /\ calls' = [calls EXCEPT ![p] = @ + 1]
  /\ UNCHANGED <<row, state, parent, limit, reserved, lease, attempts, hidden>>

\* reserve_model: counted in the row in one transaction, then sent.
Send(p) ==
  /\ Live(p) /\ calls[p] > 0
  /\ RowOpen
  /\ row'   = row + 1
  /\ calls' = [calls EXCEPT ![p] = @ - 1]
  /\ attempts' = Append(attempts, p)
  /\ UNCHANGED <<state, parent, ledger, lease, hidden>>

\* The row is full, or the parent's execution is not running any more; what the
\* ledger counted stays counted.
Refuse(p) ==
  /\ Live(p) /\ calls[p] > 0
  /\ ~RowOpen \/ parent[p] # NoProc
  /\ calls' = [calls EXCEPT ![p] = @ - 1]
  /\ UNCHANGED <<row, state, parent, ledger, lease, attempts, hidden>>

\* A process ends, is killed on a time-out, or dies.  Its children live on.
Stop(p) ==
  /\ Live(p)
  /\ state' = [state EXCEPT ![p] = "gone"]
  /\ calls' = [calls EXCEPT ![p] = 0]
  /\ UNCHANGED <<row, parent, ledger, lease, attempts, hidden>>

\* _settle_child: once, when the child is gone.
Settle(c, report) ==
  LET p == parent[c] IN
  /\ state[c] = "gone" /\ lease[c] # NoLease
  /\ Live(p)
  /\ reserved' = [reserved EXCEPT ![p] = Minus(@, IF lease[c] = NoLimit THEN 0 ELSE lease[c])]
  /\ used' = [used EXCEPT ![p] = IF limit[p] = NoLimit THEN @ + Charge(c, report)
                                 ELSE AtMost(@ + Charge(c, report), limit[p])]
  /\ lease' = [lease EXCEPT ![c] = NoLease]
  /\ hidden' = [hidden EXCEPT ![p] =
                   @ + IF report = NoLimit THEN 0 ELSE Minus(used[c], report)]
  /\ UNCHANGED <<row, state, parent, limit, calls, attempts>>

Next ==
  \/ \E p \in Proc : Start(p) \/ Admit(p) \/ Send(p) \/ Refuse(p) \/ Stop(p)
  \/ \E p, c \in Proc : Spawn(p, c)
  \/ \E c \in Proc : \E report \in Reports(c) : Settle(c, report)

Spec == Init /\ [][Next]_vars

-----------------------------------------------------------------------------
(* Properties.                                                             *)

\* How many of the requests in a log were sent by members of S.
Sent(log, S) == Cardinality({i \in DOMAIN log : log[i] \in S})

\* The execution never sends more model requests than it was given, over all the
\* processes that began, resumed or survived it and whatever children report.
WithinBudget == Len(attempts) <= Budget

\* No ledger promises more than its limit: what was used and what is out on
\* leases fit together.
WithinLimit ==
  \A p \in Proc : limit[p] # NoLimit => used[p] + reserved[p] <= limit[p]

\* A process and those that run on its leases.
Family(p) == {q \in Proc : q = p \/ parent[q] = p}

\* A ledger accounts for its children: what a process and the children it leased
\* to have sent is never more than what it has counted, still reserves, or was
\* not told of in a report - killed children and silent ones included.
LedgerCoversChildren ==
  \A p \in Proc : limit[p] # NoLimit =>
    Sent(attempts, Family(p)) <= used[p] + reserved[p] + hidden[p]

\* A lease is a promise: no request the child has passed by its ledger can make
\* the parent exceed its own limit.
LeasesAreKept ==
  \A c \in Proc : Live(c) /\ lease[c] \in Nat => used[c] <= reserved[parent[c]]

-----------------------------------------------------------------------------
(* Why they hold: an inductive invariant, in named parts.                  *)

RowInv == row = Len(attempts) /\ row <= Budget

\* A process that has not started has nothing; a lease has a parent, and the
\* limit of its holder stays within what was allocated.
FamilyInv ==
  /\ \A p \in Proc : state[p] = "fresh" =>
       /\ parent[p] = NoProc /\ lease[p] = NoLease /\ limit[p] = NoLimit
       /\ used[p] = 0 /\ \A c \in Proc : parent[c] # p
  /\ \A p \in Proc : limit[p] = NoLimit => reserved[p] = 0
  /\ \A c \in Proc : lease[c] # NoLease =>
       /\ parent[c] \in Proc \ {c}
       /\ lease[c] = NoLimit <=> limit[parent[c]] = NoLimit
       /\ lease[c] # NoLimit => limit[c] # NoLimit /\ limit[c] <= lease[c]

Leases(p) == {c \in Proc : parent[c] = p /\ lease[c] \in Nat \ {0}}

\* reserve_child takes all that is left, so at most one lease of a ledger is worth
\* anything; it is all that is reserved, and leaves nothing over.
LeaseInv ==
  \A p \in Proc :
    /\ \A c, d \in Leases(p) : c = d
    /\ \A c \in Leases(p) : reserved[p] = lease[c] /\ used[p] + reserved[p] = limit[p]
    /\ reserved[p] # 0 => Leases(p) # {}

BudgetInv == TypeOK /\ RowInv /\ FamilyInv /\ LeaseInv /\ WithinLimit

\* A ledger is ahead of its own requests, and with the lease it has out set
\* aside it is ahead of those of its children as well.  A child that runs has
\* not been settled.
CoverInv ==
  \A p \in Proc :
    /\ Live(p) /\ parent[p] # NoProc => lease[p] # NoLease
    /\ Sent(attempts, {p}) + calls[p] <= used[p]
    /\ limit[p] # NoLimit =>
         Sent(attempts, Family(p) \ Leases(p)) + calls[p] <= used[p] + hidden[p]

AccountInv == BudgetInv /\ CoverInv
=============================================================================
