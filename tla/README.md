# Specifications of Keystone Business Agents

Keystone Business Agents (KBA) runs business requests through language-model
agents.  A request becomes an *execution*: a row in a SQLite database beside
the business database, driven by one operating system process at a time, with
tool calls that change the outside world (calendar events, documents, messages)
and model calls that cost money.  A process may be killed at any moment, an
operator or a duplicate Slack event may start a second one, and a call that was
cancelled may still have its effect.  The TLA+ modules here state what must stay
true all the same, TLC checks it on small instances, and TLAPS proves the safety
part for every size.

Paths below are relative to `src/src/keystone_agents/` unless they begin with
`docs/` or `tests/` (`src/docs/`, `src/tests/`).

## 1. The system

| Component | Code | State it keeps | Operations |
|---|---|---|---|
| Durable operation journal | `runtime/durable_execution.py` (`ExecutionStore`), `receipts/journal.py` | `execution_operations` (status, receipt), stages `tool_result:*`, `tool_read:*` | `before_operation`, `observe_operation`, `reconcile_operation`, `save_stage`; the wrapper `invoke_and_record` round every tool |
| Execution lifecycle | `orchestration/checkpoints.py`, `entrypoints/cli_impl.py`, `runtime/execution_attempt.py` | `executions` (status, result), LangGraph checkpoints, `agent_runs` attempt, stages `entry_attempt`, `public_result`, `public_text` | `run_durable_direct`, `run_durable_graph`, `resume_graph_execution`, the CLI entry scope |
| Locks | `durable_execution.execution_lock`, `runtime/work_item_lock.py` | `flock` files; a context variable with leases | nonblocking acquire, release, reuse by nested stages |
| Model request budget | `runtime/request_budget.py`, `ExecutionStore.reserve_model`, `sdk.py` hooks, `child_process.py` | ledger per process (`limit`, `_consumed`, `_reserved`), `executions.consumed` | `consume`, `reserve_child`, `settle`, `reserve_model` |
| Agent run | `run.py` (`run_typed_sdk_agent`), `receipts/journal.py`, `runtime/tool_call_budget.py` | retry counters, tool-call ledger, recorded invocations, disabled tools; journal and saved reads when durable | attempts, corrections, repairs, schema and rate-limit retries; `admit`, `observe_hosted_calls`; saved reads |
| Deadline | `runtime/execution_deadline.py` | monotonic deadline | admission, child inheritance |
| Approvals and WorkItems | `storage/sqlite_store.py`, `work_items.py`, `slack_interactions.py` | `approval_queue`, `work_items` (gates, version by hash), drafts at Gmail | button clicks, revision forms, `update_approval_status`, `save_approval_item`, feedback |
| Signal lifecycle | `tools/signal_lifecycle_tools.py`, `workflow_runner.py` (signal steps and their review) | the WorkItem's checkpoint, artifact, review, status and lock; the admission lock | `prepare_...` and `advance_signal_lifecycle_checkpoint`, runs of the WorkItem |
| Delivery | `ExecutionStore.prepare_delivery`, `acknowledge_delivery` | `execution_deliveries` | prepare, acknowledge |
| Graph workflow, agents, planning, reporting, evals | `langgraph_workflow.py`, `agents/`, ... | data in flight | routing over model output |

How they interact: the CLI entry begins an execution and takes its execution
lock; the graph runner inside it takes the WorkItem lock and drives the graph;
the graph's tools go through the journal; its model calls go through the ledgers
and the row's counter; approvals come from outside through the WorkItem; resume
is another process that goes through the same locks; the audit link and the
cached answer tie the CLI attempt to the execution.  Shared state is the two
SQLite databases and the lock files; there are no messages between processes.

What is hard: the steps *between* SQLite transactions.  A process reads a row,
takes a lock, reads again; it commits an intent, calls the provider, commits a
receipt; it counts in a ledger, then in a row.  Crashes, cancellations and other
processes come between any two of these.  `PROJECT.json` lists each such place
with its line under "hazards".

What makes each component correct:

- journal: one effect per operation, nothing declared undone that may be done,
  nothing declared done that is not, one uncertain operation per WorkItem at a
  time, and replays that are the real answer;
- lifecycle: one driver, no decision on a stale read, completed work left alone,
  rows that agree with checkpoints, locks always given back;
- budget: never more model requests than were given, whatever children report;
- agent run: no write is repeated by a retry, a resumption or a late call; saved
  reads show what was verified when they were asked for; the contract's limits
  hold over all attempts; a repair reaches no tool;
- approvals and WorkItems: statuses move by their table, one draft with the
  approved text, answers that are true after any earlier crash, gates that only
  show recorded decisions;
- signal lifecycle: one owner per source revision, owners keep what they have, no
  stage is done twice, and "done" means that nothing is left.

## 2. Modules

| Module | What it is |
|---|---|
| `EffectLedger` | abstract: an operation is open, uncertain, named or verified; effects happen once, one uncertain operation per WorkItem |
| `EffectLedger_proofs` | what follows from that for whatever implements it |
| `OperationJournal` | the journal and the tool wrapper; ends with the refinement mapping to `EffectLedger` |
| `OperationJournal_proofs` | its invariants and the refinement, proved |
| `DrivenWork` | abstract: one driver at a time, work that goes forward and past a pause only with approval, reports that follow it |
| `ExecutionLifecycle` | begin, drive, crash, resume, answer; implements `DrivenWork` |
| `ExecutionLifecycle_proofs` | its safety properties, proved |
| `ExecutionAttempt_proofs` | that running work is not taken for abandoned, and the refinement, proved on top |
| `RequestBudget` | ledgers, leases and the execution's counter |
| `RequestBudget_proofs` | its bounds, and that ledgers account for their children, proved |
| `ApprovalGate` | one item of the approval queue, the WorkItem gate linked to it, its Gmail drafts |
| `ApprovalGate_proofs` | its properties, proved |
| `SdkRun` | the attempts of an agent run and the tool calls in them, durable or not; implements `EffectLedger` |
| `SdkRun_proofs` | its properties, proved |
| `RevisionOwners` | abstract: a batch's free revisions go to one WorkItem of a trigger, which completes their stages one by one |
| `SignalLifecycle` | WorkItems of triggered source work: who owns a revision, how far it got; implements `RevisionOwners` |
| `SignalLifecycle_proofs` | its properties, proved |
| `MCJournal`, `MCLifecycle`, `MCBudget`, `MCApproval`, `MCSdkRun`, `MCSignal` | symmetry sets for TLC |

Each model has, just before some definitions, a second version with a longer name
(`BarrierClearOfIntents`, `RecheckNothing`, `ChargeTrusting` ...).  These are
plausible slips: nothing uses them, and each shows that some property would
notice the slip if it were made.

### 2.1 OperationJournal

An action is one `BEGIN IMMEDIATE` transaction or one step outside the database.

| Model | Code |
|---|---|
| `item`, `status`, `object`, `cache` | `executions.work_item_id`; `execution_operations.status`; the object id in `receipt_json`; stage `tool_result:<tool>` |
| `present`, `writes` | provider truth, which the code cannot see |
| `phase`, `target` | where each call of `invoke_and_record` stands, and for which operation |
| `recon` | what `reconcile_operation` read before it reports |
| `Admit` | `before_operation`: replay, reject, barrier, intent, discard of a preview's output |
| `Write`, `FindExisting` | a tool with a deterministic id, such as the calendar's: find the object or create it |
| `Record` | a composite tool reports its object before verification (`record_provider_observation`) |
| `Return`, `ReturnPreview` | the wrapper's observe and save, and the crash between the two |
| `Finish`, `GiveUp`, `Lose`, `Detach` | a detached call's end, an exception or crash, a cancelled await with the thread still running |
| `ObserveReadBack`, `ReconcileRead`, `ReconcileWrite` | the operator's read-back and reconciliation |
| `Bind` | `prepare_work_item_step`: an execution learns its WorkItem |

In the ledger's terms `absent` and `no_effect` are open, `intent` and `unknown`
uncertain, `observed` is named and `verified` verified; `item`, `present` and `writes`
are the ledger's own.

The receipt is abstracted to what the journal's decisions depend on: whether it
names an object, which one, and whether verification passed.  Arguments are
abstracted to the operation key.

Three things are assumed of those who use the journal, which itself does not check them:

- An execution is bound before its first operation, and to one WorkItem (`Bind`).
  `prepare_work_item_step` does so (`workflow_runner.py:1088-1094`), and later updates repeat
  the same id; `ExecutionStore.update` (`durable_execution.py:239-259`) would set any
  other id at any time.  `OneUnnamedEffect` and `ImplementsLedger` rest on this: two
  executions with an uncertain operation each, bound to one WorkItem afterwards, would break them.
- A tool that had no effect names no object (the second guard of `Return`):
  `observe_operation` accepts whatever object a receipt names (419-421).
- An operator's read-back names an object only if there is one (`ObserveReadBack`).

`IdentifiedIsPresent` rests on the last two.  What it checks of the journal is how a
receipt becomes a status.

`Return` and `ReturnPreview` stand for two transactions, the observation and the saving of
the output.  The asynchronous wrapper has no await between them, so no call of the same
event loop comes between; another process would have to work on the same execution,
which its lock excludes; and a crash between them is modelled.  The synchronous wrapper in a
thread that outlives its caller has neither guarantee and is not modelled (section 7, item 6).

### 2.2 ExecutionLifecycle

A process has a role - `entry`, `graph`, `direct` or `resume` - and goes through
numbered places of one skeleton: read the row, take the execution lock without
blocking, look again, take the WorkItem lock, drive, record, report.  `Roles`
says which requests can meet on one execution: `begin` rejects an identity whose
request hash differs, so a direct execution is only begun directly, a CLI
execution by the CLI entry, and a graph execution by the graph runner; the last
two may be resumed.

| Model | Code |
|---|---|
| `row`, `result` | `executions.status`, kind of `result_json` |
| `graph` | position of the last LangGraph checkpoint: none, at work, paused at the approval, done |
| `approved` | the WorkItem's authoritative approval; `Decide` is anybody's change of it |
| `lock`, `wlock` | holder of the execution's and of the WorkItem's `flock` |
| `attempt`, `owner` | the linked `agent_runs` row, and the live process it belongs to |
| `public`, `text` | stages `public_result` and `public_text`, first writer wins |
| `linked` | resume read the stage `entry_attempt` when it began |
| `Crash` | the process dies; the operating system frees its locks, rows stay |

`DrivenWork` sees the approval, the checkpoints and the results as they are.  Its driver
of an execution is the process at a driving place, and an execution is closed when its row
is completed with a result.  That may be undone: a CLI entry whose answer could not be
saved marks its completed row failed (`Reopen`).

The CLI entry of the model runs the graph, as the code does for a known WorkItem
(`langgraph_workflow.py:159`) unless an environment variable switches it off; that path
takes no WorkItem lock (section 6) and is not modelled.

All executions of an instance advance one known WorkItem, the case in which the
WorkItem lock matters.  Left out: contract, fingerprint and capability checks
(they only refuse), a failing telemetry store in the CLI's finalize, the contents
of requests and results.

### 2.3 RequestBudget

A process is fresh, live or gone.  `Start` begins or resumes the execution, with
the ceiling or without one; `Spawn` leases all that is left to a child; `Admit`
is the ledger, `Send` the row and the request, `Refuse` the row's rejection,
`Stop` the end or the death of a process at any point, `Settle` the parent's
reckoning.  `attempts` is the table `execution_model_attempts`, by ordinal.
What a parent finds of a child's requests (`Reports`) may be nothing, any part of
what the child's ledger counted, when its output was written before it was done, or
one more, when its usage events count a request twice.  The history variable
`hidden` adds up what reports have left out: the code cannot know it, and the
properties say that nothing else is ever lost.
Leases are one level deep, as the CLI uses them.  Deadlines are left out: they
only refuse more.

### 2.4 ApprovalGate

A reviewer's click runs in a process of its own
(`scripts/handle_slack_approval_action.py:64`), and so does each other operation
on the item.  An action is one store call - a read, a check or a write, since
every call opens a connection of its own - or one call to Gmail; between any two,
other processes act and this one may die.

| Model | Code |
|---|---|
| `row` | the item's row of `approval_queue`: status, text, and in its metadata the draft id and a form's feedback |
| `gate`, `moves` | the WorkItem's gate; the gate events recorded for it |
| `drafts` | what Gmail has, by draft id |
| `Click`, `SubmitForm`, `Update`, `Feedback` | a button, a revision form, a status set by script or tool, an operator's feedback on the agent |
| `ReadItem`, `ReadWorkItem`, `CheckUpdate`, `WriteStatus`, `ReadUpdated` | the first half of `handle_approval_button_action` and `update_approval_status` |
| `RecordGateMove`, `SaveGate` | `apply_slack_approval_to_work_item_gate` |
| `Decided`, `MakeDraft` | what follows the decision: a draft, metadata only, or nothing |
| `CheckSave`, `WriteItem`, `ReadSaved` | `save_approval_item`: whole row, validated in one connection and written in another |
| `ReviseText` | `_revise_approval_item_direct` |

`overlap` is a history variable: two operations were under way at once.  The
program does not exclude that, and most properties cannot hold then (section 6); they
are stated for operations that come one after the other, with crashes anywhere
in them.  `GateMovesAreRecorded` holds in any interleaving.  Modelled are email
items whose metadata allow a draft, with Gmail live.  A form on a linked
item runs the WorkItem's workflow, which has items of its own, and ends there.
A text is named by the operation that wrote it.

### 2.5 SdkRun

An action is what runs between two awaits of one event loop, or a step of the
provider.  Calls of one attempt are open at the same time in different slots; an
exception of one ends the attempt, and the SDK is taken to cancel the others, of
which a thread may still write (`late`).

| Model | Code |
|---|---|
| `done`, `Attempt` | the retry counters of `run_typed_sdk_agent` |
| `used`, `Admitted`, `Overage` | `ToolCallBudgetLedger`: `admit`, `observe_hosted_calls` |
| `invoked` | the invocation records: tool and how it ended |
| `disabled`, `TakenForRetry`, `TakenForRepair`, `UnsafeRetry` | `_prepare_tools_for_retry`, `_disable_decision_repair_tools`, `UnsafeMutationRetryError` |
| `rows`, `cache` | the operation journal, one status per operation; stages `tool_read:*` |
| `InvokeRead` ... `LookAtAnswer` | a read through `invoke_and_record` |
| `InvokeWrite`, `Write`, `Expire`, `ReturnWrite` | a write; its journal part is what `OperationJournal` has in detail |
| `StartAttempt`, `EndAttempt`, `FailAttempt`, `Waited` | the loop of attempts |
| `Crash`, `Resume`, `Reconcile` | a durable execution dies, is run again, and has named objects read back |
| `made`, `writes` | history and provider truth: calls that reached the tool, attempts that wrote |

In the ledger's terms a durable run is one execution without a WorkItem and its writes
are its operations, with `rows` for outcomes as in the journal.  A run without a durable
execution has no rows, so its writes do not enter the ledger: `WriteIsNotRepeated`
says what holds of them.

A saved read's key is the statuses of the journal, where the code has a hash of
the rows: the model finds a saved read in more states than the code does.
Deadline refusals are a nondeterministic failure.  Calls a provider hosts are external,
and disabling concerns function tools only.  A run without a durable execution is not
resumed.  Nested agent runs (`specialist_agent_tools.py`) and runs with a recovery
store are not modelled.

### 2.6 SignalLifecycle

A process is a run of a WorkItem or a single call of one of the two tools; both
hold the WorkItem's lock, and decide about a batch under the one admission lock
of the database.

| Model | Code |
|---|---|
| `cp` | the `SignalLifecycleCheckpoint` in the WorkItem's metadata: status, stages, admitted revisions, owners of a duplicate |
| `artifact`, `review`, `done` | the context artifact, a review on record that does not block, the WorkItem's status |
| `owner`, `guard` | `work_item_execution_lock`, `_signal_admission_guard` |
| `Prepared`, `Classified` | `_prepare_signal_lifecycle_checkpoint_under_guard` |
| `Advanced` | `_advance_signal_lifecycle_checkpoint_locked` |
| `TakeGuard`, `Decide`, `Persist` | the admission lock, the reads and the decision, the transaction |
| `Look`, `Fetch`, `FetchFails`, `Stage` | `_advance_announcement_context_agent` |
| `Evidence`, `Finalize` | `_complete_signal_lifecycle_stages`, `_finalize_signal_context_work_item` |
| `Closes`, `Pauses`, `Blocks` | the three ways a step ends early |
| `Review`, `Leave` | the manager loop's review of a step, and a run of a single step |

`RevisionOwners` sees only the checkpoints: whether a WorkItem has one, what it admitted,
how many stages it completed.  Everything between the read of a batch and the
transaction that writes the checkpoint is a stutter, so the refinement says that the
decision is still right when it is written.  That an owner with a larger id can be
suppressed (`Suppress`, section 6, item 5) is part of it, because the code does it.

There is one source kind and one dedupe scope; a WorkItem has one trigger, and tool
calls use it.  The lock's holder is the only writer of its WorkItem, so saving it
whole saves what is stored.  A run that makes its WorkItem does not hold the lock
yet (`workflow_runner.py:1092`): nobody else is taken to know it before that
run has ended.  Agents inside a run may not use the two tools
(`runtime/signal_context.py:51,113`), and Slack's unlocked saves concern WorkItems
with approval items, which these have not.  Dry runs and refusals by route or
validation change nothing and are left out.  The loop may end after any step,
which covers its step limit.

## 3. Runs

| Run | Instance | Shows |
|---|---|---|
| `journal_shared_work_item` | 3 executions, 1 key, 1 WorkItem, 2 objects, 2 calls | the journal's safety properties, that identities are final, and that it implements the ledger |
| `lifecycle` | 2 processes; a CLI and a graph execution | safety of the lifecycle, and that it implements `DrivenWork`; no deadlock |
| `lifecycle_liveness` | 2 processes; a CLI and a direct execution | every lock is given back |
| `lifecycle_busy_retry` | same | violated: see section 6 |
| `lifecycle_original_text` | 2 processes, 1 CLI execution | violated: see section 6 |
| `budget` | 4 processes, budget 2, ceiling 2, `Cap` 3 | budget, limits and leases hold, and parents account for their children, whatever these report |
| `approval` | 2 processes, 3 operations | serial operations, crashed ones included, follow the table, make one approved draft and answer truly; gates show recorded decisions in any interleaving |
| `approval_failed_revision` | 1 process, 1 operation | violated: see section 6 |
| `sdk_run` | 2 operations, 2 open calls, one retry of each kind, 2 runs | no write is repeated, saved reads are current, the contract holds, repairs reach no tool, and a durable run implements the ledger |
| `sdk_hosted` | 1 operation, 1 open call, no repair, 1 run | violated: see section 6 |
| `signal` | 2 processes, 2 WorkItems, 2 triggers, 1 source of 2 revisions | one owner per revision, owners keep their work, no context is read twice, done means over, and it implements `RevisionOwners`; no deadlock |
| `signal_circular` | same | violated: see section 6 |

**Bounds.**  The journal and the lifecycle are finite without any: their counters
are the sets of the instance, and `writes` cannot pass 1 unless
`AtMostOneWrite` is violated.  `Cap` bounds what a ledger without a limit
counts in `RequestBudget`: it is larger than `Budget`, so the row refuses before
the bound is met and the bound hides nothing.  `MaxOps` bounds the operations of
the approval run: three leave a crashed one, its repetition and a change of mind.
`MaxRuns` lets a durable execution be run again once after a crash, `MaxSearch` bounds
the hosted calls of a run (one, and two where a second attempt's call is the point), and the contract of `sdk_run` has room for two writes
and one read but not for all three, so that both its limits and its total are met.
`Last` and `Newest` are what two competing WorkItems and an updated source need;
`Reported`, the stages that tool calls report, has the first and the last in `signal`
and the third too in `signal_circular`; the runs of a WorkItem complete all of them.  Two processes suffice for the
races of the lifecycle, which are all between one that acts and one that
overtakes it; a process that ended or died starts again, so longer histories are
covered.  Three executions let two that are bound race with one that is bound
late.  Four processes give the budget a parent, two children and a root that
resumes the execution.  The proofs of section 5 do away with these
bounds for the safety properties they are about.

**Deadlock** is checked in the lifecycle runs and the signal runs: a process can
always start.  It is off in the others: once every operation is verified, every
process used, every operation begun or the last run over, nothing is left to happen.

**Fairness.**  Only `lifecycle_liveness` and `lifecycle_busy_retry` use it:
`FairSpec` has weak fairness of each process's own next step.  A live process's
code runs on, since locks are nonblocking and no step waits for another process.
There is none for beginning, resuming, deciding or crashing: nobody has to do
these.  The graph and the model are assumed to return at last; the code's own
time limits are the reason, and they are not part of the model.

The inductive invariants (`JournalInv`, `LifecycleInv`, `ApprovalInv` and the others) were
checked by TLC before they were proved; the runs leave them out now, except `AccountInv`,
since the theorems state them for every instance.

## 4. Symmetry

The journal's instances and the budget's permute everything; `lifecycle` permutes
processes; the new modules' instances permute processes, operations, slots,
triggers and sources.  WorkItems of `SignalLifecycle` are numbers and not permuted:
the code goes by the order of their ids.  None of these runs checks liveness; the
action properties and the refinements, checked under symmetry, are of the form
Init and box action, to which permuting identical elements does no harm.

## 5. Proofs

There are three kinds of results: the safety and action properties of the runs, the
refinements of `EffectLedger`, `DrivenWork` and `RevisionOwners`, and the inductive
invariants both rest on.  Everything is proved from the modules' named assumptions alone: that sentinels
are not members (`SentinelAssumption`), how the roster is split
(`RosterAssumption`), that amounts and limits are numbers (`BudgetAssumption`,
`SdkRunAssumption`), that scripts set statuses the item has (`ApprovalAssumption`), and
that there is a WorkItem, with numbers for ids and revisions (`SignalAssumption`).

*Journal.*  `JournalInv` is inductive.  The safety properties are not so by
themselves: that a second write is impossible needs to know that a row which
admits a new intent means no effect and no live call (`NoEffectIsTrue`), which in turn
needs to know where each live call stands (`CallsInv`, `EffectInv`); that a
receipt cannot rename an object needs to know that only observed and verified
rows have names and that reconciliation's earlier read is still current
(`NameInv`).  `ReplayIsReal` has a second invariant on top, `CacheInv`: nothing
is staged while a call is alive.  `JournalImplementsLedger` shows the initial
states and each action of the journal to be an initial state, a step or a
stutter of `EffectLedger`.

*The ledger.*  `LedgerHolds` is proved of `EffectLedger` alone: `LedgerInv` says that an
effect is there once at most, that what is named is there and what is open is not, and
that of two mutations that contend one is settled.  Through the refinements it holds of
the journal and of agent runs.  `OneWriteIsInDoubt` is drawn from it for runs: it needs no look at
attempts, calls or retries.

*Lifecycle.*  `LifecycleInv` relates every place of the skeleton to what is held
there (`LockInv`), to the row (`RunningInv`, `DecisionStands`) and to the
checkpoint (`GraphInv`).  `OneDriver` follows from `LockInv` alone;
`CompletedIsQuiet` and `RowMatchesGraph` need all of it; `FinalResultStays`
needs that a driver whose execution has a final result finds a finished graph.
`RunningIsNotAbandoned` needs more: `AttemptInv` adds that an attempt has an owner only
while a CLI process is at work on its execution (`OwnerInv`), and that whoever answers
from a result without a lock sees an execution that has completed, or whose attempt is
nobody's (`AnsweredInv`).

`LifecycleImplementsDrivenWork` maps each action to a step or a stutter.  Most need only
`LifecycleInv`: that a driver holds the WorkItem's lock makes `Take` find nobody driving,
and `GraphInv` makes `Report` agree with the graph.  One step needs more: the last word of a
CLI entry, which marks its row completed or failed when the work is long reported.  It may
open an answered execution again (`Reopen`; its lock keeps everybody else from driving it),
but must not close one.  `EntryInv` says why not: an entry that is about to say
"completed" has nothing on record, or its row is already interrupted or completed.
`EntryInv` itself rests on `AttemptInv`.

*Approvals.*  `ApprovalInv` has three parts.  `Fits` says which operations come to which
steps, in any interleaving.  `GateInv` is `GateMovesAreRecorded` with the step that
makes it inductive: whoever is about to save a gate has recorded the event.
`SerialInv` speaks of runs whose operations follow one another: at most one process is
busy, and what it has in hand is the truth (`Sound`): before the check, the item and
the gate as they are; after it, the status it asked for; and for what it is about to save,
the text and the draft's id that the row has or should have.  An operation that died
leaves an item whose draft is known while it still waits for review (`Known`), which is
what the next one starts from.  The properties but `GateMovesAreRecorded` are false of
operations that overlap, and the theorems say so: each has the disjunct `overlap`.

*Budget.*  `BudgetInv` says that at most one lease of a ledger is worth
anything, because a lease takes all that is left (`LeaseInv`), and that a
holder's limit stays within its lease (`FamilyInv`).  `WithinBudget` follows from
the row's counter equalling the attempts (`RowInv`).

`LedgerCoversChildren` is not inductive even with these: when a child is
settled, the reservation that covered it is gone.  `CoverInv` says what takes its
place.  A ledger is ahead of its own requests, and a limited one, its open lease set
aside, is ahead of those of its children too.  A request sent under a lease
worth something therefore needs no account yet, and settling moves the child's requests
to the ones charged, paid for by the charge and by what its report left out; a lease
worth nothing never sends.  The requests of a set of senders are counted by
`Sent`; its two lemmas (`SentAppend`, `SentDisjoint`) come from the library's facts about cardinalities, so no induction is needed.

*Agent run.*  `SdkRunInv` says where each of the run's records is ahead of what has
happened.  The ledger is ahead of the calls that reach our tools (`LedgerInv`), so the
contract holds over all attempts.  With a journal (`DurableInv`), a call that
may still write has a row in doubt, there is only one such call, and a row
says "nothing happened" or names an object only if that is so: whatever is asked next is
rejected or replayed.  Without a journal (`AttemptInv`), as long as the write tool is
left, all writes and all calls that may still write are of the attempt that runs,
and each is on record as open or completed: so the end of the attempt either takes the tool
away or ends the run.  Once the tool is gone only calls that were given up write, and
they belong to the attempt that wrote before (`OneAttempt`).  For the refinement
`DurableInv` is enough: a write is issued when no row is in doubt, is applied while its own
is, and a given-up or crashed call leaves it so until a read-back settles it.  A saved or running read
shows what its key calls verified (`ReadInv`), since verified rows never change.

*Signal work.*  `SignalInv` rests on the locks (`LockInv`): a WorkItem is touched by
one process at a time, and only the holder of the admission lock writes
checkpoints, so what it decided is still current when it is written
(`DecisionIsCurrent`).  `OneOwner` follows, since what a decision admits was nobody's.
`DoneIsOver` and `ReadOnce` also need that whoever goes through the stages has the artifact
(`ArtifactInv`).  `OwnersKeepWork` follows from the invariant with one fact about a
decision: the smallest id with a checkpoint of the trigger keeps its own.  That sets of ids
have a smallest and a largest member comes from the library's theorem that strict
inclusion of finite sets is well-founded.  `SignalsImplementOwners` needs `DecisionIsCurrent` at
one step, the transaction that writes a decision (`Persist`), where what was admitted is
still nobody's and the trigger's other WorkItems are as they were read; no other step
changes a checkpoint.

Only model-checked: `LocksAreReleased` and `BusyCanRetry` (liveness, out of the
prover's reach), and the violations.  No model uses a recursive operator.

## 6. Where code and documents differ

1. `lifecycle_busy_retry`.  `docs/KBA_V2_IMPLEMENTATION.md:58` says busy
   competitors "are rejected before advancement and can retry after release".  The
   CLI entry has marked its row `running` before the WorkItem lock is asked for,
   so the rejected execution ends `failed` without a checkpoint: the same event is
   then refused for its progress, and resume is refused for lack of a checkpoint.
   A new command works.
2. `lifecycle_original_text`.  `orchestration/checkpoints.py:388` says no plain text is
   invented for an originally captured response.  When resume finds no
   response yet and the CLI saves its own before resume does, the payload is the
   CLI's and the text is resume's.
3. `approval_failed_revision`.  `slack_interactions.py:2149` answers that "revision
   feedback was saved for retry" with status `revise`.  What is saved is the form's
   first copy of the item: the row is pending again and the feedback is gone.
4. `sdk_hosted`.  `runtime/tool_call_budget.py:139` says one ledger is shared by
   every turn and repair.  The hosted calls of an attempt that ends in an exception
   are never counted, so that a run may end well over its search limit.
5. `signal_circular`.  `workflow_runner.py:12278` says existing canonical WorkItems
   remain authoritative.  The WorkItem that decides about a trigger is the first by
   id with any checkpoint of it, a suppressed duplicate's too: an owner that is
   prepared again after a crash becomes a duplicate of its own duplicate, and
   nobody does the work.  `OwnersKeepWork` says that nothing else takes it.

Met while reading, on a path no model has: `docs/KBA_V2_IMPLEMENTATION.md:58` says that
"a shared lock protects a known WorkItem across distinct graph/direct executions".
With the graph switched off by environment, a CLI entry has an active execution,
so `advance_work_item_manager_loop` (`workflow_runner.py:1836`) and `advance_work_item`
(1002) do not go through `run_durable_direct`, which would take the lock, and run
without it.  `OneDriver` says nothing of such entries.

Met while modelling, without a run of their own, since no document promises
otherwise or since they heal themselves:

- Approval operations that overlap can undo each other (`sqlite_store.py:4380,
  4490`: checked in one connection, written in another), and two first clicks
  that overlap make two drafts (`slack_interactions.py:282`).  The model has both races, and
  no property excludes them.
- Resume's answer for a completed row (`checkpoints.py:445`) marks the attempt of
  a CLI process that is still finalizing as interrupted; the process overwrites
  that.  `RunningIsNotAbandoned` says it happens to no other.
- Across triggers an older revision of a source that an earlier WorkItem has in a newer
  one is admitted as an update.
- A review that failed after a step which did not get on, or that asked for a
  repair, is on record as not blocking (`workflow_runner.py:3758-3791`) and
  counts as evidence for the review stage (12536-12545).

## 7. Plan

In this order; the first five are done.

1. `EffectLedger`, `OperationJournal`, `ExecutionLifecycle`, `RequestBudget`, with
   proofs (done).
2. `ApprovalGate` (done).
3. `SdkRun`: tool-call budget, retries, read reuse (done).
4. `SignalLifecycle` (done).
5. Proofs about 2, 3 and 4, and the refinements of `EffectLedger` by agent runs, of
   `DrivenWork` and of `RevisionOwners` (done).
6. The thread variant of the tool wrapper (`durable_provider_tool`) in
   `OperationJournal`, and `Delivery` beside it.
7. `WorkItemLease`: nested stages, copied contexts, closed leases, and entries that take none.  To prove: only
   the holder's own stages run under a lease.
8. `Deadline`: inherited deadlines, late answers.
9. `ResumedWork`: `DrivenWork` composed with `EffectLedger`, so that crashes and
   resumes of executions are the cause of lost calls, and "a resumed execution
   repeats no effect" becomes a theorem of both.

## 8. Not modelled

Agents, prompts, planning and routing (functions of model output), which are most of
this repository's lines: what they decide is a free choice in the models, and
what is done about it is modelled.  Not modelled either: reporting,
evaluation, costing (offline); provider adapters but for the find-or-create
of the calendar; Slack's transport, which this repository does not own;
inspection and forks of checkpoints, which only read.  LangGraph, SQLite and
`flock` are taken to do what they promise: synchronous checkpoints, serialised
immediate transactions, release on process death.
