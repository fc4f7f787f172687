-------------------------- MODULE OperationJournal --------------------------
(***************************************************************************)
(* The durable operation journal (runtime/durable_execution.py,            *)
(* ExecutionStore) together with the tool wrapper that drives it           *)
(* (receipts/journal.py): every provider mutation is journalled as an      *)
(* intent before the provider is called, observed afterwards, and replayed *)
(* only from a verified receipt.                                           *)
(*                                                                         *)
(* An action is one SQLite transaction (BEGIN IMMEDIATE) or one step       *)
(* outside the database, so whatever can happen between two transactions   *)
(* - a crash, a cancelled call whose thread keeps running, a request still *)
(* on the wire, a worker of this or of another execution - is an           *)
(* interleaving.  The one exception is the pair observe_operation,         *)
(* save_stage at the end of a call: no await separates them, so only a     *)
(* crash can, and Return covers both outcomes.  Branches that only raise   *)
(* change no row: they are the absence of a step, or Lose when they end a  *)
(* call.  Replaying a verified operation changes nothing here either.      *)
(***************************************************************************)
EXTENDS Naturals

CONSTANTS Exec,      \* durable executions, all in status "running"
          Key,       \* operation keys: hash of tool name and normalised input
          Item,      \* WorkItems
          NoItem,    \* work_item_id = ''
          Object,    \* provider object ids a receipt may name
          NoObject,  \* a receipt that names no object
          Worker,    \* tool calls in flight, of any process
          NoOp       \* "no operation"

Op == Exec \X Key

ASSUME SentinelAssumption ==
  /\ NoItem \notin Item
  /\ NoObject \notin Object
  /\ NoOp \notin Op
  /\ NoOp \notin Op \X Object

VARIABLES item,     \* executions.work_item_id
          status,   \* execution_operations.status, "absent" when there is no row
          object,   \* object id of the row's receipt
          cache,    \* stage tool_result:<tool>: whose output is replayed
          present,  \* provider truth: the effect is there, written or found
          writes,   \* provider truth: how often it was written
          phase,    \* phase[w]: where call w is
          target,   \* target[w]: the operation of call w
          recon     \* reconcile_operation between its read and its write

journal  == <<item, status, object, cache>>
provider == <<present, writes>>
calls    == <<phase, target>>
vars     == <<item, status, object, cache, present, writes, phase, target, recon>>

Status     == {"absent", "intent", "no_effect", "observed", "unknown", "verified"}
Unresolved == {"intent", "observed", "unknown"}
Output     == {"none", "preview", "unproven", "real"}

\* "calling": the tool runs and has had no effect yet; "effected": the effect
\* exists; "detached...": the same, but nobody awaits the call any more;
\* "on_the_wire": nothing of the call is left but a request in transit.
Phase == {"idle", "calling", "effected", "detached", "detached_effected",
          "on_the_wire"}

TypeOK ==
  /\ item    \in [Exec -> Item \cup {NoItem}]
  /\ status  \in [Op -> Status]
  /\ object  \in [Op -> Object \cup {NoObject}]
  /\ cache   \in [Op -> Output]
  /\ present \in [Op -> BOOLEAN]
  /\ writes  \in [Op -> Nat]
  /\ phase   \in [Worker -> Phase]
  /\ target  \in [Worker -> Op \cup {NoOp}]
  /\ recon   \in (Op \X Object) \cup {NoOp}

Init ==
  /\ item    = [e \in Exec |-> NoItem]
  /\ status  = [o \in Op |-> "absent"]
  /\ object  = [o \in Op |-> NoObject]
  /\ cache   = [o \in Op |-> "none"]
  /\ present = [o \in Op |-> FALSE]
  /\ writes  = [o \in Op |-> 0]
  /\ phase   = [w \in Worker |-> "idle"]
  /\ target  = [w \in Worker |-> NoOp]
  /\ recon   = NoOp

-----------------------------------------------------------------------------
(* Decisions the transactions take.                                        *)

\* A slip the checks must notice: the barrier forgets the WorkItem.
SameScopeWithinExecution(o, p) == o[1] = p[1]

\* Operations the uncertainty barrier looks at together: those of one
\* execution, and those of executions bound to the same non-empty WorkItem.
SameScope(o, p) ==
  \/ o[1] = p[1]
  \/ item[p[1]] # NoItem /\ item[p[1]] = item[o[1]]

\* Slip: only calls that have not answered yet block.
BarrierClearOfIntents(o) == \A p \in Op : SameScope(o, p) => status[p] # "intent"

BarrierClear(o) == \A p \in Op : SameScope(o, p) => status[p] \notin Unresolved

\* A row whose receipt already fixes the provider object of the operation.
Identified(o) == status[o] # "no_effect" /\ object[o] # NoObject

\* Slip: a later receipt may name any object.
CompatibleAlways(o, x) == TRUE

\* A receipt naming another object raises ExecutionConflict and changes nothing.
Compatible(o, x) == Identified(o) /\ x # NoObject => x = object[o]

\* Slip: a receipt without an object counts as an observation.
ReceiptStatusInferred(x, passed) == IF passed THEN "verified" ELSE "observed"

\* Slip: the receipt's own status word is stored.
ReceiptStatusRaw(x, passed) == IF x = NoObject THEN "failed" ELSE "verified"

\* The status a receipt naming x, read back successfully or not, leads to.
ReceiptStatus(x, passed) ==
  CASE x = NoObject -> "unknown"
    [] x # NoObject /\ passed -> "verified"
    [] OTHER -> "observed"

\* An unidentified answer never replaces an identified one.
Observe(o, x, passed) ==
  /\ Compatible(o, x)
  /\ IF Identified(o) /\ x = NoObject
     THEN UNCHANGED <<status, object>>
     ELSE /\ status' = [status EXCEPT ![o] = ReceiptStatus(x, passed)]
          /\ object' = [object EXCEPT ![o] = x]

\* Slip: a dry-run answer clears whatever was recorded.
PreviewStatusClears(s) == "no_effect"

\* An attested preview settles an operation only while nothing was observed.
PreviewStatus(s) == IF s \in {"intent", "no_effect"} THEN "no_effect" ELSE s

\* Slip: the output staged by a preview survives the next admission.
DiscardedNever(s, old) == old

\* What admission over a row leaves of the staged output.
Discarded(s, old) == IF s = "no_effect" THEN "none" ELSE old

\* INSERT OR IGNORE: the first staged output of an operation stays.
Staged(old, new) == IF old = "none" THEN new ELSE old

-----------------------------------------------------------------------------
(* Executions and tool calls.                                              *)

\* prepare_work_item_step binds the execution before any specialist, model or
\* tool runs; binding it again to the same WorkItem changes nothing.  The guards are
\* assumed of the callers: ExecutionStore.update itself would bind it anew at any time.
Bind(e, i) ==
  /\ item[e] = NoItem
  /\ \A k \in Key : status[<<e, k>>] = "absent"
  /\ item' = [item EXCEPT ![e] = i]
  /\ UNCHANGED <<status, object, cache, provider, calls, recon>>

\* before_operation returns None: the intent is on disk, the tool may run.
\* An output kept from a preview is discarded in the same transaction.
Admit(w, o) ==
  /\ phase[w] = "idle"
  /\ status[o] \in {"absent", "no_effect"}
  /\ BarrierClear(o)
  /\ status' = [status EXCEPT ![o] = "intent"]
  /\ object' = [object EXCEPT ![o] = NoObject]
  /\ cache'  = [cache EXCEPT ![o] = Discarded(status[o], @)]
  /\ phase'  = [phase EXCEPT ![w] = "calling"]
  /\ target' = [target EXCEPT ![w] = o]
  /\ UNCHANGED <<item, provider, recon>>

\* The provider performs the write - also for a cancelled caller, whose thread
\* runs on, and for a request whose sender is gone.
Write(w) ==
  /\ phase[w] \in {"calling", "detached", "on_the_wire"}
  /\ present' = [present EXCEPT ![target[w]] = TRUE]
  /\ writes'  = [writes EXCEPT ![target[w]] = @ + 1]
  /\ phase'   = [phase EXCEPT ![w] =
                   CASE @ = "calling" -> "effected"
                     [] @ = "detached" -> "detached_effected"
                     [] @ = "on_the_wire" -> "idle"]
  /\ target'  = [target EXCEPT ![w] = IF phase[w] = "on_the_wire" THEN NoOp ELSE @]
  /\ UNCHANGED <<journal, recon>>

\* The tool reads before it writes and finds the object it was to create.
FindExisting(w) ==
  /\ phase[w] = "calling"
  /\ present' = [present EXCEPT ![target[w]] = TRUE]
  /\ phase'   = [phase EXCEPT ![w] = "effected"]
  /\ UNCHANGED <<journal, writes, target, recon>>

\* record_provider_observation: a tool reports the object as soon as the
\* provider returned it, before it verifies; composite tools do so repeatedly.
Record(w, x, passed) ==
  /\ phase[w] \in {"effected", "detached_effected"}
  /\ Observe(target[w], x, passed)
  /\ UNCHANGED <<item, cache, provider, calls, recon>>

\* Call w is over.
Finish(w) ==
  /\ phase'  = [phase EXCEPT ![w] = "idle"]
  /\ target' = [target EXCEPT ![w] = NoOp]

\* Call w is over, but a request it sent may still be in transit.
GiveUp(w) ==
  \/ Finish(w)
  \/ /\ phase[w] \in {"calling", "detached"}
     /\ phase' = [phase EXCEPT ![w] = "on_the_wire"]
     /\ UNCHANGED target

\* The tool returned and its receipt is observed.  Without an effect the
\* receipt names no object: a refusal, a time-out, a preview nobody attests.  This is
\* assumed of tools: observe_operation accepts whatever object a receipt names.
\* save_stage follows for a successful result, unless the process dies first.
Return(w, x, passed) ==
  LET o == target[w] IN
  /\ phase[w] \in {"calling", "effected"}
  /\ phase[w] = "calling" => x = NoObject
  /\ Observe(o, x, passed)
  /\ \/ GiveUp(w) /\ UNCHANGED cache
     \/ /\ Finish(w)
        /\ cache' = [cache EXCEPT ![o] =
             Staged(@, IF phase[w] = "effected" THEN "real" ELSE "unproven")]
  /\ UNCHANGED <<item, provider, recon>>

\* The tool returned an attested or explicit dry-run receipt.  A tool that did
\* write answers so only after it reported the object it wrote.
ReturnPreview(w) ==
  LET o == target[w] IN
  /\ \/ phase[w] = "calling"
     \/ phase[w] = "effected" /\ status[o] # "intent"
  /\ status' = [status EXCEPT ![o] = PreviewStatus(@)]
  /\ Finish(w)
  /\ \/ UNCHANGED cache
     \/ cache' = [cache EXCEPT ![o] =
          Staged(@, IF phase[w] = "effected" THEN "real" ELSE "preview")]
  /\ UNCHANGED <<item, object, provider, recon>>

\* The call ends with no further transaction: the tool raised, a conflicting
\* receipt raised, or the process died.
Lose(w) ==
  /\ phase[w] # "idle"
  /\ GiveUp(w)
  /\ UNCHANGED <<journal, provider, recon>>

\* The awaiting coroutine is cancelled; a synchronous tool runs on in its
\* thread, may still write and report, and is never observed at its return.
Detach(w) ==
  /\ phase[w] \in {"calling", "effected"}
  /\ phase' = [phase EXCEPT ![w] =
                 IF @ = "calling" THEN "detached" ELSE "detached_effected"]
  /\ UNCHANGED <<journal, provider, target, recon>>

-----------------------------------------------------------------------------
(* Reconciliation by read-back.                                            *)

\* A read-only look-up at the provider establishes the object of an
\* unresolved operation.
ObserveReadBack(o, x, passed) ==
  /\ present[o]
  /\ status[o] \in Unresolved
  /\ Observe(o, x, passed)
  /\ UNCHANGED <<item, cache, provider, calls, recon>>

\* reconcile_operation, first half: the row is read outside a transaction and
\* the read-back must verify the very object it names.
ReconcileRead(o) ==
  /\ recon = NoOp
  /\ status[o] \notin {"absent", "no_effect"}
  /\ object[o] # NoObject
  /\ recon' = <<o, object[o]>>
  /\ UNCHANGED <<journal, provider, calls>>

\* reconcile_operation, second half: observe_operation in a later transaction.
ReconcileWrite ==
  /\ recon # NoOp
  /\ Observe(recon[1], recon[2], TRUE)
  /\ recon' = NoOp
  /\ UNCHANGED <<item, cache, provider, calls>>

-----------------------------------------------------------------------------

CallStep(w) ==
  \/ \E o \in Op : Admit(w, o)
  \/ Write(w)
  \/ FindExisting(w)
  \/ \E x \in Object, passed \in BOOLEAN : Record(w, x, passed)
  \/ \E x \in Object \cup {NoObject}, passed \in BOOLEAN : Return(w, x, passed)
  \/ ReturnPreview(w)
  \/ Lose(w)
  \/ Detach(w)

Next ==
  \/ \E e \in Exec, i \in Item : Bind(e, i)
  \/ \E w \in Worker : CallStep(w)
  \/ \E o \in Op, x \in Object, passed \in BOOLEAN : ObserveReadBack(o, x, passed)
  \/ \E o \in Op : ReconcileRead(o)
  \/ ReconcileWrite

Spec == Init /\ [][Next]_vars

-----------------------------------------------------------------------------
(* The abstract view.                                                      *)

OutcomeOf(s) ==
  CASE s \in {"absent", "no_effect"} -> "open"
    [] s \in {"intent", "unknown"}   -> "uncertain"
    [] s = "observed"                -> "named"
    [] s = "verified"                -> "verified"

Outcome == [o \in Op |-> OutcomeOf(status[o])]

Ledger == INSTANCE EffectLedger WITH outcome <- Outcome

\* Every step of journal, tools and provider is a step of the ledger or leaves
\* it alone: mutations of a WorkItem start one after another, an effect is
\* applied once, and what is withdrawn was never applied.
ImplementsLedger == Ledger!Spec

-----------------------------------------------------------------------------
(* Properties.                                                             *)

\* The provider performs the write of one operation at most once, whatever
\* crashes, cancellations, retries, previews and duplicate calls happen:
\* before_operation never hands out a second intent over a possible effect.
AtMostOneWrite == \A o \in Op : writes[o] <= 1

\* A row says "nothing happened" (no row, or no_effect) only while the effect
\* is absent at the provider and no call that could still produce it is alive,
\* a cancelled one or a request in transit included.
NoEffectIsTrue ==
  \A o \in Op : status[o] \in {"absent", "no_effect"} =>
    ~present[o] /\ \A w \in Worker : target[w] # o

\* The journal never infers success: a row that names an object stands for an
\* effect that exists at the provider.
IdentifiedIsPresent ==
  \A o \in Op : status[o] \in {"observed", "verified"} => present[o]

\* Within one execution, and across executions of one WorkItem, at most one
\* operation at a time may have had an effect nobody can name.
OneUnnamedEffect ==
  \A o, p \in Op :
    /\ status[o] \in {"intent", "unknown"}
    /\ status[p] \in {"intent", "unknown"}
    /\ \/ o[1] = p[1]
       \/ item[o[1]] # NoItem /\ item[o[1]] = item[p[1]]
    => o = p

\* Once a row names a provider object, no later report, late report, final
\* receipt or reconciliation makes it name another one or none.
IdentityIsFinal ==
  [][\A o \in Op : object[o] # NoObject => object'[o] = object[o]]_vars

\* The output replayed for a verified operation comes from the call that had
\* the effect, never from a preview that was cached before it.
ReplayIsReal ==
  \A o \in Op : status[o] = "verified" => cache[o] \in {"none", "real"}

-----------------------------------------------------------------------------
(* Why the properties hold: an inductive invariant, in named parts.        *)

\* A call in flight has an operation, and no two calls have the same one.
CallsInv ==
  /\ \A w \in Worker : phase[w] = "idle" <=> target[w] = NoOp
  /\ \A v, w \in Worker : target[v] = target[w] /\ target[v] # NoOp => v = w

\* Whether the effect is there is decided by where its one call stands.
EffectInv ==
  /\ \A w \in Worker : phase[w] \in {"calling", "detached", "on_the_wire"} =>
                        ~present[target[w]]
  /\ \A w \in Worker : phase[w] \in {"effected", "detached_effected"} =>
                        present[target[w]]
  /\ \A o \in Op : present[o] \/ writes[o] = 0

\* A row is observed or verified exactly when its receipt names an object,
\* and what reconcile_operation read is still what the row names.
NameInv ==
  /\ \A o \in Op : object[o] # NoObject <=> status[o] \in {"observed", "verified"}
  /\ recon # NoOp => object[recon[1]] = recon[2]

\* Nothing is staged while a call runs, and afterwards only a real output may be
\* staged where the effect is there.
CacheInv ==
  /\ \A w \in Worker : target[w] # NoOp => cache[target[w]] = "none"
  /\ \A o \in Op : status[o] = "absent" => cache[o] = "none"
  /\ \A o \in Op : cache[o] \in {"preview", "unproven"} => ~present[o]

\* Together with the safety properties above the parts about calls, effects and
\* names are preserved by every step.
JournalInv ==
  /\ TypeOK
  /\ CallsInv
  /\ NoEffectIsTrue
  /\ EffectInv
  /\ AtMostOneWrite
  /\ NameInv
  /\ IdentifiedIsPresent
  /\ OneUnnamedEffect
=============================================================================
