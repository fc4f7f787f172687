------------------------- MODULE ExecutionLifecycle -------------------------
(***************************************************************************)
(* How an execution is begun, driven, crashed, resumed and answered:       *)
(* orchestration/checkpoints.py (run_durable_direct, run_durable_graph,    *)
(* resume_graph_execution), the CLI entry scope of entrypoints/cli_impl.py *)
(* and the audit link of runtime/execution_attempt.py, over the locks of   *)
(* durable_execution.py and work_item_lock.py.                             *)
(*                                                                         *)
(* A process plays one of four roles, and each role is one thread of the   *)
(* same skeleton: read the execution row, take the execution lock without  *)
(* blocking, read the row again, take the WorkItem lock, drive, report.    *)
(* Steps are SQLite transactions and lock operations; a process may die    *)
(* between any two of them, and the operating system then frees its locks. *)
(* All executions advance one WorkItem.  LangGraph and its checkpointer    *)
(* are reduced to the position of the last checkpoint.                     *)
(***************************************************************************)
EXTENDS Naturals

CONSTANTS Exec,     \* executions
          Direct,   \* those begun by run_durable_direct
          Cli,      \* those begun by a CLI entry; the rest by run_durable_graph
          Proc,     \* operating system processes
          NoExec,   \* no execution
          NoProc    \* no process: a lock nobody holds

ASSUME RosterAssumption ==
  /\ Direct \subseteq Exec
  /\ Cli \subseteq Exec \ Direct
  /\ NoExec \notin Exec
  /\ NoProc \notin Proc

VARIABLES row,      \* executions.status, "none" when there is no row
          result,   \* executions.result_json: "none", "interrupted" or "final"
          graph,    \* last native checkpoint
          approved, \* authoritative approval of the WorkItem
          lock,     \* lock[e]: holder of the execution lock
          wlock,    \* holder of the WorkItem lock
          attempt,  \* attempt[e]: agent_runs.status of the linked CLI attempt
          owner,    \* owner[e]: the live process whose attempt that is
          public,   \* public[e]: stage public_result
          text,     \* text[e]: stage public_text
          pc, role, job,  \* of each process: its next step, role and execution
          linked    \* linked[p]: resume found an attempt linked when it began

durable == <<row, result, graph>>
locks   == <<lock, wlock>>
audit   == <<attempt, owner>>
answer  == <<public, text>>
procs   == <<pc, role, job, linked>>
vars    == <<row, result, graph, approved, lock, wlock, attempt, owner,
             public, text, pc, role, job, linked>>

RowStatus == {"none", "pending", "running", "failed", "interrupted", "completed"}
Role      == {"entry", "graph", "direct", "resume"}

\* Steps taken while driving the work, and steps under the execution lock.
Driving == {"start", "drive", "approve", "return"}
Locked  == Driving \cup {"recheck", "prepare", "link", "enter", "check", "audit_running",
              "report", "audit_failed", "audit_end", "turned_away", "finalize_ok",
              "finalize_failed", "entry_public", "entry_text", "entry_ok", "entry_failed"}

\* Steps of resume that run with the lock or, on its fast path, without it.
Answering == {"recover", "public_read", "public_save", "text_save"}
Step      == {"idle", "lock"} \cup Locked \cup Answering

TypeOK ==
  /\ row      \in [Exec -> RowStatus]
  /\ result   \in [Exec -> {"none", "interrupted", "final"}]
  /\ graph    \in [Exec -> {"none", "working", "paused", "done"}]
  /\ approved \in BOOLEAN
  /\ lock     \in [Exec -> Proc \cup {NoProc}]
  /\ wlock    \in Proc \cup {NoProc}
  /\ attempt  \in [Exec -> {"none", "started", "interrupted", "completed", "failed"}]
  /\ owner    \in [Exec -> Proc \cup {NoProc}]
  /\ public   \in [Exec -> {"none", "original", "recovered"}]
  /\ text     \in [Exec -> {"none", "original", "rendered"}]
  /\ pc       \in [Proc -> Step]
  /\ role     \in [Proc -> Role \cup {"none"}]
  /\ job      \in [Proc -> Exec \cup {NoExec}]
  /\ linked   \in [Proc -> BOOLEAN]

Init ==
  /\ row      = [e \in Exec |-> "none"]
  /\ result   = [e \in Exec |-> "none"]
  /\ graph    = [e \in Exec |-> "none"]
  /\ approved = FALSE
  /\ lock     = [e \in Exec |-> NoProc]
  /\ wlock    = NoProc
  /\ attempt  = [e \in Exec |-> "none"]
  /\ owner    = [e \in Exec |-> NoProc]
  /\ public   = [e \in Exec |-> "none"]
  /\ text     = [e \in Exec |-> "none"]
  /\ pc       = [p \in Proc |-> "idle"]
  /\ role     = [p \in Proc |-> "none"]
  /\ job      = [p \in Proc |-> NoExec]
  /\ linked   = [p \in Proc |-> FALSE]

-----------------------------------------------------------------------------
(* What a role makes of the row it reads.                                  *)

\* begin refuses an identity that was begun with another kind of request.
Roles(e) ==
  CASE e \in Direct -> {"direct"}
    [] e \in Cli    -> {"entry", "resume"}
    [] OTHER        -> {"graph", "resume"}

\* The row's result may be returned instead of running anything.
Reusable(e) == row[e] = "completed" /\ result[e] # "none"

\* The row lets role r run, or go on running, execution e.
MayRun(r, e) ==
  CASE r = "entry"  -> row[e] = "pending"
    [] r = "graph"  -> /\ row[e] \notin {"running", "failed"}
                       /\ row[e] \in {"completed", "interrupted"} => result[e] = "none"
    [] r = "direct" -> ~Reusable(e)
    [] r = "resume" -> ~Reusable(e)

Goto(p, s) == pc' = [pc EXCEPT ![p] = s] /\ UNCHANGED <<role, job, linked>>

\* Process p ends or dies: its locks are freed, its attempt is nobody's.
Freed(f, p) == [e \in DOMAIN f |-> IF f[e] = p THEN NoProc ELSE f[e]]

Leave(p) ==
  /\ pc'     = [pc EXCEPT ![p] = "idle"]
  /\ job'    = [job EXCEPT ![p] = NoExec]
  /\ role'   = [role EXCEPT ![p] = "none"]
  /\ linked' = [linked EXCEPT ![p] = FALSE]

Exit(p) ==
  /\ Leave(p)
  /\ lock'  = Freed(lock, p)
  /\ wlock' = IF wlock = p THEN NoProc ELSE wlock
  /\ owner' = Freed(owner, p)

Record(e, s)     == row' = [row EXCEPT ![e] = s]

\* A slip the checks must notice: an interrupted outcome counts as completed.
OutcomeAlwaysCompleted(e) == "completed"

Outcome(e)       == IF graph[e] = "paused" THEN "interrupted" ELSE "completed"
RecordOutcome(e) ==
  /\ Record(e, Outcome(e))
  /\ result' = [result EXCEPT ![e] = IF graph[e] = "paused" THEN "interrupted" ELSE "final"]

\* INSERT OR IGNORE into execution_stages.
Kept(old, new) == IF old = "none" THEN new ELSE old

\* Slip: the recovery's own status is stored.
ReconciledRaw(a) == IF a = "started" THEN "running" ELSE a

\* record_execution_attempt_recovery: an attempt that is finalized is left
\* alone; one that is not is taken to be abandoned.
Reconciled(a) == IF a = "started" THEN "interrupted" ELSE a

\* record_recovery: resume reconciles only through the link it read at first.
RecordRecovery(p) ==
  attempt' = IF linked[p] THEN [attempt EXCEPT ![job[p]] = Reconciled(@)] ELSE attempt

-----------------------------------------------------------------------------
(* Read, lock, read again.                                                 *)

\* ExecutionStore.begin inserts the row or returns it as it is; resume needs one.
\* Whoever may neither run nor reuse it is turned away without a trace.
Read(p, r, e) ==
  /\ pc[p] = "idle"
  /\ r \in Roles(e)
  /\ r = "resume" => row[e] # "none"
  /\ Record(e, IF row[e] = "none" THEN "pending" ELSE row[e])
  /\ \/ row[e] = "none" \/ MayRun(r, e)
     \/ r = "resume" /\ Reusable(e)
  /\ pc'   = [pc EXCEPT ![p] = IF r = "resume" /\ Reusable(e) THEN "recover" ELSE "lock"]
  /\ role' = [role EXCEPT ![p] = r]
  /\ job'  = [job EXCEPT ![p] = e]
  /\ linked' = [linked EXCEPT ![p] = r = "resume" /\ attempt[e] # "none"]
  /\ UNCHANGED <<result, graph, approved, locks, audit, answer>>

\* Slip: the execution lock does not exclude another process.
TakeLockShared(p) ==
  /\ pc[p] = "lock"
  /\ lock' = [lock EXCEPT ![job[p]] = p]
  /\ Goto(p, "recheck")
  /\ UNCHANGED <<durable, approved, wlock, audit, answer>>

\* execution_lock: LOCK_NB, so a busy lock raises (Exit).
TakeLock(p) ==
  LET e == job[p] IN
  /\ pc[p] = "lock"
  /\ IF lock[e] = NoProc
     THEN lock' = [lock EXCEPT ![e] = p] /\ Goto(p, "recheck") /\ UNCHANGED <<wlock, owner>>
     ELSE Exit(p)
  /\ UNCHANGED <<durable, approved, attempt, answer>>

\* Slip: the row read before the lock is trusted.
RecheckNothing(p) ==
  /\ pc[p] = "recheck"
  /\ Goto(p, IF role[p] = "entry" THEN "prepare" ELSE "enter")
  /\ UNCHANGED <<durable, approved, locks, audit, answer>>

\* The second look at the row, under the lock.
Recheck(p) ==
  LET e == job[p] IN
  /\ pc[p] = "recheck"
  /\ CASE MayRun(role[p], e) ->
            Goto(p, IF role[p] = "entry" THEN "prepare" ELSE "enter")
              /\ UNCHANGED <<locks, owner>>
       [] role[p] = "resume" /\ Reusable(e) -> Goto(p, "recover") /\ UNCHANGED <<locks, owner>>
       [] OTHER -> Exit(p)
  /\ UNCHANGED <<durable, approved, attempt, answer>>

\* _start_entry_execution_attempt: the row is running before the attempt is
\* linked to it.
Prepare(p) ==
  /\ pc[p] = "prepare"
  /\ Record(job[p], "running")
  /\ Goto(p, "link")
  /\ UNCHANGED <<result, graph, approved, locks, audit, answer>>

Link(p) ==
  /\ pc[p] = "link"
  /\ attempt' = [attempt EXCEPT ![job[p]] = "started"]
  /\ owner'   = [owner EXCEPT ![job[p]] = p]
  /\ Goto(p, "enter")
  /\ UNCHANGED <<durable, approved, locks, answer>>

\* Slip: resume trusts its execution lock alone.
WorkItemFreeForResume(p) == wlock = NoProc \/ role[p] = "resume"

\* Nobody holds the WorkItem lock that process p asks for.
WorkItemFree(p) == wlock = NoProc

\* work_item_execution_lock: a competing owner is rejected.
Enter(p) ==
  /\ pc[p] = "enter"
  /\ IF WorkItemFree(p)
     THEN /\ wlock' = p
          /\ Goto(p, IF role[p] = "resume" THEN "check" ELSE "start")
          /\ UNCHANGED <<lock, owner>>
     ELSE IF role[p] = "entry"
          THEN Goto(p, "turned_away") /\ UNCHANGED <<locks, owner>>
          ELSE Exit(p)
  /\ UNCHANGED <<durable, approved, attempt, answer>>

\* The entry handled the request without a graph.
Answer(p) ==
  /\ pc[p] = "enter" /\ role[p] = "entry"
  /\ \E s \in {"finalize_ok", "finalize_failed"} : Goto(p, s)
  /\ UNCHANGED <<durable, approved, locks, audit, answer>>

-----------------------------------------------------------------------------
(* Driving the work.                                                       *)

\* resume_graph_execution looks at the checkpoint before it touches the row.
\* (Its other refusals, for a WorkItem that changed meanwhile, are a Crash.)
Check(p) ==
  LET e == job[p] IN
  /\ pc[p] = "check"
  /\ IF graph[e] # "none" /\ (graph[e] = "paused" => approved)
     THEN Goto(p, "audit_running") /\ UNCHANGED <<locks, owner>>
     ELSE Exit(p)
  /\ UNCHANGED <<durable, approved, attempt, answer>>

AuditRunning(p) ==
  /\ pc[p] = "audit_running"
  /\ RecordRecovery(p)
  /\ Goto(p, "start")
  /\ UNCHANGED <<durable, approved, locks, owner, answer>>

Start(p) ==
  /\ pc[p] = "start"
  /\ Record(job[p], "running")
  /\ Goto(p, IF graph[job[p]] = "paused" THEN "approve" ELSE "drive")
  /\ UNCHANGED <<result, graph, approved, locks, audit, answer>>

\* Slip: a graph that has ended is run from its first node.
DriveAgain(p) ==
  LET e == job[p] IN
  /\ pc[p] = "drive"
  /\ IF graph[e] = "working"
     THEN /\ \E s \in {"paused", "done"} : graph' = [graph EXCEPT ![e] = s]
          /\ Goto(p, "return")
     ELSE graph' = [graph EXCEPT ![e] = "working"] /\ UNCHANGED procs
  /\ UNCHANGED <<row, result, approved, locks, audit, answer>>

\* A node is run and checkpointed; the last one ends the graph or pauses it.
\* A direct runner has no checkpoints.
Drive(p) ==
  LET e == job[p] IN
  /\ pc[p] = "drive"
  /\ CASE e \in Direct -> UNCHANGED graph /\ Goto(p, "return")
       [] e \notin Direct /\ graph[e] = "none" ->
            graph' = [graph EXCEPT ![e] = "working"] /\ UNCHANGED procs
       [] e \notin Direct /\ graph[e] = "working" ->
            /\ \E s \in {"paused", "done"} : graph' = [graph EXCEPT ![e] = s]
            /\ Goto(p, "return")
       [] e \notin Direct /\ graph[e] = "done" -> UNCHANGED graph /\ Goto(p, "return")
  /\ UNCHANGED <<row, result, approved, locks, audit, answer>>

\* Slip: the paused node trusts the look that resume took at the approval.
ApproveUnread(p) ==
  /\ pc[p] = "approve"
  /\ graph' = [graph EXCEPT ![job[p]] = "done"]
  /\ Goto(p, "return")
  /\ UNCHANGED <<row, result, approved, locks, audit, answer>>

\* The paused node reads the authoritative approval again before it goes on.
Approve(p) ==
  LET e == job[p] IN
  /\ pc[p] = "approve"
  /\ approved
  /\ graph' = [graph EXCEPT ![e] = "done"]
  /\ Goto(p, "return")
  /\ UNCHANGED <<row, result, approved, locks, audit, answer>>

\* Slip: a missing approval is waited for.
FailUnlessWaiting(p) ==
  /\ pc[p] = "drive"
  /\ Record(job[p], "failed")
  /\ Exit(p)
  /\ UNCHANGED <<result, graph, approved, attempt, answer>>

\* The work raises: the row becomes failed and the WorkItem lock is released.
Fail(p) ==
  /\ pc[p] \in {"drive", "approve"}
  /\ Record(job[p], "failed")
  /\ CASE role[p] = "entry"  -> /\ Goto(p, "finalize_failed")
                                /\ wlock' = NoProc
                                /\ UNCHANGED <<lock, owner>>
       [] role[p] = "resume" -> Goto(p, "audit_failed") /\ UNCHANGED <<locks, owner>>
       [] OTHER              -> Exit(p)
  /\ UNCHANGED <<result, graph, approved, attempt, answer>>

AuditFailed(p) ==
  /\ pc[p] = "audit_failed"
  /\ RecordRecovery(p)
  /\ Leave(p)
  /\ lock'  = Freed(lock, p)
  /\ wlock' = NoProc
  /\ UNCHANGED <<durable, approved, owner, answer>>

\* The work returned.  A run reports its outcome and then leaves the WorkItem;
\* resume leaves the WorkItem first and reports in Report.
Return(p) ==
  /\ pc[p] = "return"
  /\ CASE role[p] = "entry"  -> /\ RecordOutcome(job[p])
                                /\ \E s \in {"finalize_ok", "finalize_failed"} : Goto(p, s)
                                /\ wlock' = NoProc
                                /\ UNCHANGED <<lock, owner>>
       [] role[p] = "resume" -> /\ Goto(p, "report")
                                /\ wlock' = NoProc
                                /\ UNCHANGED <<row, result, lock, owner>>
       [] OTHER              -> RecordOutcome(job[p]) /\ Exit(p)
  /\ UNCHANGED <<graph, approved, attempt, answer>>

Report(p) ==
  /\ pc[p] = "report"
  /\ RecordOutcome(job[p])
  /\ Goto(p, "audit_end")
  /\ UNCHANGED <<graph, approved, locks, audit, answer>>

-----------------------------------------------------------------------------
(* The answer of a resumed execution.                                      *)

\* record_recovery of the outcome; an interrupted outcome has no answer yet.
AuditEnd(p) ==
  LET e == job[p] IN
  /\ pc[p] \in {"audit_end", "recover"}
  /\ RecordRecovery(p)
  /\ IF pc[p] = "audit_end" /\ graph[e] = "paused"
     THEN Leave(p) /\ lock' = Freed(lock, p)
     ELSE Goto(p, "public_read") /\ UNCHANGED lock
  /\ UNCHANGED <<durable, approved, wlock, owner, answer>>

\* persist_recovered_public_result: is there an answer already?
PublicRead(p) ==
  LET e == job[p] IN
  /\ pc[p] = "public_read"
  /\ CASE public[e] = "none" -> Goto(p, "public_save") /\ UNCHANGED <<locks, owner>>
       [] public[e] = "recovered" /\ text[e] = "none" ->
            Goto(p, "text_save") /\ UNCHANGED <<locks, owner>>
       [] OTHER -> Exit(p)
  /\ UNCHANGED <<durable, approved, attempt, answer>>

PublicSave(p) ==
  /\ pc[p] = "public_save"
  /\ public' = [public EXCEPT ![job[p]] = Kept(@, "recovered")]
  /\ Goto(p, "text_save")
  /\ UNCHANGED <<durable, approved, locks, audit, text>>

TextSave(p) ==
  /\ pc[p] = "text_save"
  /\ text' = [text EXCEPT ![job[p]] = Kept(@, "rendered")]
  /\ Exit(p)
  /\ UNCHANGED <<durable, approved, attempt, public>>

-----------------------------------------------------------------------------
(* The end of a CLI entry (_run_with_entry_telemetry).                     *)

\* finalize_agent_run_attempt overwrites the attempt's row.
Finalize(p) ==
  /\ pc[p] \in {"turned_away", "finalize_ok", "finalize_failed"}
  /\ attempt' = [attempt EXCEPT ![job[p]] =
                   IF pc[p] = "finalize_ok" THEN "completed" ELSE "failed"]
  /\ Goto(p, IF pc[p] # "finalize_ok" THEN "entry_failed"
             ELSE IF row[job[p]] = "interrupted" THEN "entry_ok" ELSE "entry_public")
  /\ UNCHANGED <<durable, approved, locks, owner, answer>>

\* The printed answer is kept, if it was captured whole.
EntryPublic(p) ==
  /\ pc[p] = "entry_public"
  /\ \/ /\ public' = [public EXCEPT ![job[p]] = Kept(@, "original")]
        /\ Goto(p, "entry_text")
     \/ UNCHANGED public /\ Goto(p, "entry_ok")
  /\ UNCHANGED <<durable, approved, locks, audit, text>>

\* Only plain output has a text; JSON output skips it.
EntryText(p) ==
  /\ pc[p] = "entry_text"
  /\ \E t \in {text[job[p]], Kept(text[job[p]], "original")} :
        text' = [text EXCEPT ![job[p]] = t]
  /\ Goto(p, "entry_ok")
  /\ UNCHANGED <<durable, approved, locks, audit, public>>

\* The last update: an interrupted row stays so, otherwise the exit code decides.
EntryEnd(p) ==
  LET e == job[p] IN
  /\ pc[p] \in {"entry_ok", "entry_failed"}
  /\ Record(e, CASE row[e] = "interrupted" -> "interrupted"
                 [] row[e] # "interrupted" /\ pc[p] = "entry_ok" -> "completed"
                 [] OTHER -> "failed")
  /\ Exit(p)
  /\ UNCHANGED <<result, graph, approved, attempt, answer>>

-----------------------------------------------------------------------------

\* Process p dies; its rows, stages and checkpoints stay.
Crash(p) ==
  /\ pc[p] # "idle"
  /\ Exit(p)
  /\ UNCHANGED <<durable, approved, attempt, answer>>

\* An operator approves the pending gate, or takes the approval back.
Decide ==
  /\ approved' = ~approved
  /\ UNCHANGED <<durable, locks, audit, answer, procs>>

Work(p) ==
  \/ TakeLock(p) \/ Recheck(p) \/ Prepare(p) \/ Link(p) \/ Enter(p) \/ Answer(p)
  \/ Check(p) \/ AuditRunning(p) \/ Start(p) \/ Drive(p) \/ Approve(p) \/ Fail(p)
  \/ AuditFailed(p) \/ Return(p) \/ Report(p)
  \/ AuditEnd(p) \/ PublicRead(p) \/ PublicSave(p) \/ TextSave(p)
  \/ Finalize(p) \/ EntryPublic(p) \/ EntryText(p) \/ EntryEnd(p)

Next ==
  \/ \E p \in Proc, r \in Role, e \in Exec : Read(p, r, e)
  \/ \E p \in Proc : Work(p) \/ Crash(p)
  \/ Decide

Spec == Init /\ [][Next]_vars

\* A process that is not stopped goes on.  Nobody has to start, resume or
\* approve anything.
FairSpec == Spec /\ \A p \in Proc : WF_vars(Work(p))

-----------------------------------------------------------------------------
(* Properties.                                                             *)

\* Only one process at a time runs an execution, and only one advances the
\* WorkItem, whatever roles race and whoever dies.
OneDriver ==
  \A p, q \in Proc :
    pc[p] \in Driving /\ pc[q] \in Driving => p = q

\* Whoever is past the second look acts on a row that still allows it: nothing
\* has changed between the look and the "running" that follows it.
DecisionStands ==
  \A p \in Proc :
    \/ pc[p] = "prepare"
    \/ role[p] # "entry" /\ pc[p] \in {"enter", "check", "audit_running", "start"}
    => MayRun(role[p], job[p])

\* Completed work is not restarted: while a row says "completed" with its
\* result nobody is running the execution.
CompletedIsQuiet ==
  \A p \in Proc : pc[p] \in Driving => ~Reusable(job[p])

\* The row does not promise more than the checkpoints hold: "interrupted" means
\* paused at the approval, and a final result means the graph is done.
RowMatchesGraph ==
  \A e \in Exec \ Direct :
    /\ row[e] = "interrupted" => graph[e] = "paused"
    /\ row[e] = "completed" => graph[e] \in {"none", "done"}
    /\ result[e] = "final" => graph[e] = "done"

\* A final result is never replaced by
\* an interrupted one, by crashes and resumes in any order.
FinalResultStays ==
  [][\A e \in Exec : result[e] = "final" => result'[e] = "final"]_vars

\* Every lock is given back, on every path through every role.
LocksAreReleased ==
  /\ \A e \in Exec : lock[e] # NoProc ~> lock[e] = NoProc
  /\ wlock # NoProc ~> wlock = NoProc

-----------------------------------------------------------------------------
(* The abstract view.                                                      *)

Drivers == {<<p, job[p]>> : p \in {q \in Proc : pc[q] \in Driving}}

Promise == INSTANCE DrivenWork WITH
  drivers <- Drivers,
  closed  <- [e \in Exec |-> Reusable(e)]

\* However the roles race, die and resume, all they do to the work of the WorkItem is
\* what DrivenWork allows: one driver at a time, forward only, past a pause only while
\* it is approved, with reports that say what the graph came to.
ImplementsDrivenWork == Promise!Spec

-----------------------------------------------------------------------------
(* Why the safety properties hold: an inductive invariant, in named parts. *)

\* Whoever is at work has a role, and some steps only one role takes.
RoleInv ==
  \A p \in Proc :
    /\ pc[p] # "idle" => role[p] \in Role
    /\ pc[p] \in {"prepare", "link"} => role[p] = "entry"
    /\ pc[p] \in {"check", "audit_running"} => role[p] = "resume"

\* Whoever is at a step under a lock holds that lock.
LockInv ==
  \A p \in Proc :
    /\ pc[p] # "idle" => job[p] \in Exec
    /\ pc[p] \in Locked => lock[job[p]] = p
    /\ pc[p] \in Driving \cup {"check", "audit_running", "audit_failed"} => wlock = p

\* The row of an execution that is being driven says so.
RunningInv ==
  \A p \in Proc :
    \/ pc[p] \in {"drive", "approve", "return"}
    \/ role[p] = "entry" /\ pc[p] \in {"link", "enter", "start"}
    => row[job[p]] = "running"

\* What each step has yet to do to the graph, or has already done to it.
GraphInv ==
  /\ \A e \in Exec : e \in Direct \/ row[e] \in {"none", "pending"} => graph[e] = "none"
  /\ \A p \in Proc :
       LET g == graph[job[p]] IN
       /\ role[p] = "entry" /\ pc[p] \in {"link", "enter"} => g = "none"
       /\ pc[p] = "drive" => g # "paused"
       /\ pc[p] = "approve" => g = "paused"
       /\ pc[p] \in {"return", "report"} => job[p] \in Direct \/ g \in {"paused", "done"}
       /\ /\ pc[p] \in {"finalize_ok", "entry_public", "entry_text", "entry_ok"}
          /\ row[job[p]] # "interrupted"
          => g \in {"none", "done"}

\* Together with the properties above these are preserved by every step.
LifecycleInv ==
  /\ TypeOK
  /\ RoleInv
  /\ LockInv
  /\ RunningInv
  /\ DecisionStands
  /\ GraphInv
  /\ RowMatchesGraph

\* An attempt whose process is still alive is marked interrupted only when its
\* execution has completed ("Reconcile only an exactly linked abandoned CLI attempt"):
\* nobody takes running work for abandoned.
RunningIsNotAbandoned ==
  \A e \in Exec :
    attempt[e] = "interrupted" =>
      owner[e] = NoProc \/ row[e] = "completed"

\* What an entry goes through once its attempt is linked.
Attempting == Driving \cup {"enter", "turned_away", "finalize_ok", "finalize_failed",
                            "entry_public", "entry_text", "entry_ok", "entry_failed"}

\* The attempt that a live process owns is that of the entry it is running.
OwnerInv ==
  \A e \in Exec, p \in Proc :
    owner[e] = p => job[p] = e /\ role[p] = "entry" /\ pc[p] \in Attempting

\* An execution with a result is past its entry's work, and one that resume answers
\* without a lock has completed, for as long as its attempt is somebody's.
AnsweredInv ==
  /\ \A e \in Exec : result[e] # "none" => row[e] \notin {"none", "pending"}
  /\ \A p \in Proc :
       /\ /\ role[p] = "entry"
          /\ pc[p] \in Driving \cup {"prepare", "link", "enter", "turned_away"}
          => result[job[p]] = "none"
       /\ pc[p] = "recover" =>
            /\ result[job[p]] # "none"
            /\ owner[job[p]] = NoProc \/ row[job[p]] = "completed"

\* RunningIsNotAbandoned is preserved together with these, on top of LifecycleInv.
AttemptInv == OwnerInv /\ AnsweredInv /\ RunningIsNotAbandoned

\* What an entry has recorded when it goes on to its answer.
EntryInv ==
  \A p \in Proc :
    pc[p] \in {"finalize_ok", "entry_public", "entry_text", "entry_ok"} =>
      result[job[p]] = "none" \/ row[job[p]] \in {"interrupted", "completed"}

-----------------------------------------------------------------------------
(* What the documentation says and the code does not do.                   *)

\* The work of e is still to be had: it can be run, or resumed from a checkpoint,
\* or the process that ran it died and left its row "running".
Retryable(e) ==
  \/ \E r \in Roles(e) \ {"resume"} : MayRun(r, e)
  \/ graph[e] # "none"
  \/ row[e] = "running" /\ owner[e] = NoProc

\* An entry that found the WorkItem busy leaves an execution that can still be
\* run ("Busy competitors are rejected before advancement and can retry after
\* release").
BusyCanRetry ==
  \A p \in Proc, e \in Exec :
    pc[p] = "turned_away" /\ job[p] = e ~> Retryable(e)

\* No text is rendered for a response that was captured when it was given
\* ("without inventing plain stdout for an original, normally captured response").
OriginalIsNotReworded ==
  \A e \in Exec : public[e] = "original" => text[e] # "rendered"
=============================================================================
