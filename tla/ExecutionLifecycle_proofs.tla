--------------------- MODULE ExecutionLifecycle_proofs ---------------------
(***************************************************************************)
(* The safety properties of ExecutionLifecycle for every set of processes  *)
(* and executions.                                                         *)
(***************************************************************************)
EXTENDS ExecutionLifecycle, TLAPS

USE DEF durable, locks, audit, answer, procs

\* What the invariant says of one process.
ProcInv(q) ==
  LET g == graph[job[q]] IN
  /\ pc[q] # "idle" => role[q] \in Role
  /\ pc[q] \in {"prepare", "link"} => role[q] = "entry"
  /\ pc[q] \in {"check", "audit_running"} => role[q] = "resume"
  /\ pc[q] # "idle" => job[q] \in Exec
  /\ pc[q] \in Locked => lock[job[q]] = q
  /\ pc[q] \in Driving \cup {"check", "audit_running", "audit_failed"} => wlock = q
  /\ \/ pc[q] \in {"drive", "approve", "return"}
     \/ role[q] = "entry" /\ pc[q] \in {"link", "enter", "start"}
     => row[job[q]] = "running"
  /\ \/ pc[q] = "prepare"
     \/ role[q] # "entry" /\ pc[q] \in {"enter", "check", "audit_running", "start"}
     => MayRun(role[q], job[q])
  /\ role[q] = "entry" /\ pc[q] \in {"link", "enter"} => g = "none"
  /\ pc[q] = "drive" => g # "paused"
  /\ pc[q] = "approve" => g = "paused"
  /\ pc[q] \in {"return", "report"} => job[q] \in Direct \/ g \in {"paused", "done"}
  /\ /\ pc[q] \in {"finalize_ok", "entry_public", "entry_text", "entry_ok"}
     /\ row[job[q]] # "interrupted"
     => g \in {"none", "done"}

\* What it says of the rows and checkpoints.
RowsInv ==
  /\ \A e \in Exec : e \in Direct \/ row[e] \in {"none", "pending"} => graph[e] = "none"
  /\ RowMatchesGraph

\* The invariant speaks of each process and of the rows.
LEMMA InvParts ==
  LifecycleInv <=> TypeOK /\ RowsInv /\ \A q \in Proc : ProcInv(q)
  BY DEF LifecycleInv, RoleInv, LockInv, RunningInv, DecisionStands, GraphInv, RowsInv,
     ProcInv

\* What one step may do to the others: it leaves their locks alone, and changes
\* the row and the checkpoint only of the execution it has locked - except
\* that anybody may insert a missing row.
Frame(p) ==
  /\ \A q \in Proc \ {p} : pc'[q] = pc[q] /\ role'[q] = role[q] /\ job'[q] = job[q]
  /\ \A e \in Exec : lock[e] \in {p, NoProc} \/ lock'[e] = lock[e]
  /\ wlock \in {p, NoProc} \/ wlock' = wlock
  /\ \A e \in Exec :
       \/ lock[e] = p
       \/ /\ row'[e] = row[e] \/ (row[e] = "none" /\ row'[e] = "pending")
          /\ result'[e] = result[e]
          /\ graph'[e] = graph[e]

LEMMA OthersKeepTheirs ==
  ASSUME LifecycleInv, NEW p \in Proc, Frame(p),
         NEW q \in Proc \ {p}
  PROVE  ProcInv(q)'
  <1>1. ProcInv(q) /\ pc'[q] = pc[q] /\ role'[q] = role[q] /\ job'[q] = job[q]
    BY InvParts DEF Frame
  <1>2. pc[q] \in Driving \cup {"check", "audit_running", "audit_failed"} => wlock' = q
    BY <1>1, RosterAssumption DEF ProcInv, Frame
  <1>3. CASE pc[q] \in Locked
    <2>1. job[q] \in Exec /\ lock[job[q]] = q /\ lock'[job[q]] = q
      BY <1>1, <1>3, RosterAssumption DEF ProcInv, Frame, Locked, Driving
    <2>2. /\ row'[job[q]] = row[job[q]] \/ (row[job[q]] = "none" /\ row'[job[q]] = "pending")
          /\ result'[job[q]] = result[job[q]]
          /\ graph'[job[q]] = graph[job[q]]
      BY <2>1 DEF Frame
    <2>3. MayRun(role[q], job[q]) => MayRun(role[q], job[q])'
      <3>1. role[q] \in {"entry", "graph", "direct", "resume"}
        BY <1>1, <1>3 DEF ProcInv, Role, Locked, Driving
      <3> QED
        BY <1>1, <2>2, <3>1 DEF MayRun, Reusable
    <2>4. graph[job[q]] = "none" \/ row[job[q]] # "none"
      BY <2>1, InvParts DEF RowsInv
    <2> QED
      BY <1>1, <1>2, <1>3, <2>1, <2>2, <2>3, <2>4 DEF ProcInv, Locked, Driving
  <1>4. CASE pc[q] \notin Locked
    BY <1>1, <1>2, <1>4 DEF ProcInv, Locked, Driving
  <1> QED
    BY <1>3, <1>4

LEMMA InitInv == Init => LifecycleInv
  <1> SUFFICES ASSUME Init PROVE LifecycleInv
    OBVIOUS
  <1>1. TypeOK
    BY DEF Init, TypeOK, RowStatus, Role, Step
  <1>2. RowsInv
    BY DEF Init, RowsInv, RowMatchesGraph
  <1>3. \A q \in Proc : ProcInv(q)
    BY DEF Init, ProcInv, Locked, Driving
  <1> QED
    BY <1>1, <1>2, <1>3, InvParts

\* So a step keeps the invariant if it keeps what concerns its own process and
\* the rows.
LEMMA StepKeepsInvIf ==
  ASSUME LifecycleInv, NEW p \in Proc, Frame(p),
         TypeOK', ProcInv(p)', RowsInv'
  PROVE  LifecycleInv'
  <1>1. \A q \in Proc : ProcInv(q)'
    BY OthersKeepTheirs
  <1> QED
    BY <1>1 DEF LifecycleInv, RoleInv, LockInv, RunningInv, DecisionStands, GraphInv,
       RowsInv, ProcInv

\* Where a process is, what it holds.
LEMMA Holds ==
  ASSUME LifecycleInv, NEW p \in Proc, pc[p] # "idle"
  PROVE  /\ job[p] \in Exec
         /\ pc[p] \in Locked => lock[job[p]] = p
         /\ role[p] \in {"entry", "graph", "direct", "resume"}
         /\ ProcInv(p) /\ RowsInv /\ TypeOK
  BY InvParts DEF ProcInv, TypeOK, Role

-----------------------------------------------------------------------------
(* One lemma per action.                                                   *)

LEMMA IdleIsFree ==
  ASSUME NEW p \in Proc, pc'[p] = "idle"
  PROVE  ProcInv(p)'
  BY DEF ProcInv, Locked, Driving

\* Ending a process and moving it on keep its variables in their types.
ProcsTyped ==
  /\ pc     \in [Proc -> Step]
  /\ role   \in [Proc -> Role \cup {"none"}]
  /\ job    \in [Proc -> Exec \cup {NoExec}]
  /\ linked \in [Proc -> BOOLEAN]

LEMMA GotoTyped ==
  ASSUME TypeOK, NEW p \in Proc, NEW s \in Step, Goto(p, s)
  PROVE  ProcsTyped'
  BY DEF TypeOK, Goto, ProcsTyped

LEMMA LeaveTyped ==
  ASSUME TypeOK, NEW p \in Proc, Leave(p)
  PROVE  ProcsTyped'
  BY DEF TypeOK, Leave, ProcsTyped, Step

LEMMA ExitTyped ==
  ASSUME TypeOK, NEW p \in Proc, Exit(p)
  PROVE  /\ ProcsTyped'
         /\ lock' \in [Exec -> Proc \cup {NoProc}]
         /\ wlock' \in Proc \cup {NoProc}
         /\ owner' \in [Exec -> Proc \cup {NoProc}]
  BY LeaveTyped DEF TypeOK, Exit, Freed

\* Process p reads the row of e, and may insert it.
LEMMA ReadKeepsInv ==
  ASSUME LifecycleInv, NEW p \in Proc, NEW r \in Role, NEW e \in Exec, Read(p, r, e)
  PROVE  LifecycleInv'
  <1>1. TypeOK /\ RowsInv
    BY InvParts
  <1>2. /\ row' = [row EXCEPT ![e] = IF row[e] = "none" THEN "pending" ELSE row[e]]
        /\ result' = result /\ graph' = graph /\ lock' = lock /\ wlock' = wlock
        /\ pc'[p] \in {"recover", "lock"} /\ job'[p] = e /\ pc[p] = "idle"
        /\ role'[p] = r
    BY <1>1 DEF Read, Record, TypeOK
  <1>3. TypeOK'
    BY <1>1 DEF Read, Record, TypeOK, RowStatus, Step, Answering
  <1>4. Frame(p)
    BY <1>1, <1>2 DEF Read, Frame, TypeOK
  <1>5. ProcInv(p)'
    BY <1>2 DEF ProcInv, Locked, Driving
  <1>6. RowsInv'
    BY <1>1, <1>2 DEF TypeOK, RowsInv, RowMatchesGraph
  <1> QED
    BY <1>3, <1>4, <1>5, <1>6, StepKeepsInvIf

LEMMA TakeLockKeepsInv ==
  ASSUME LifecycleInv, NEW p \in Proc, TakeLock(p)
  PROVE  LifecycleInv'
  <1>1. job[p] \in Exec /\ TypeOK /\ ProcInv(p) /\ RowsInv
    BY Holds DEF TakeLock
  <1>2. TypeOK'
    BY <1>1, GotoTyped, ExitTyped DEF TakeLock, TypeOK, ProcsTyped, RowStatus, Step,
                                      Locked, Driving, Answering
  <1>3. Frame(p)
    BY <1>1 DEF TakeLock, Exit, Leave, Freed, Goto, Frame, TypeOK, ProcInv, Locked, Driving
  <1>4. ProcInv(p)'
    <2>1. CASE pc'[p] = "idle"
      BY <2>1, IdleIsFree
    <2>2. CASE pc'[p] # "idle"
      <3>1. /\ pc'[p] = "recheck" /\ job' = job /\ role' = role
            /\ lock'[job[p]] = p
        BY <1>1, <2>2 DEF TakeLock, Exit, Leave, Freed, Goto, TypeOK, ProcInv
      <3> QED
        BY <1>1, <3>1 DEF TakeLock, ProcInv, RowsInv, Locked, Driving, MayRun, Reusable
    <2> QED
      BY <2>1, <2>2
  <1>5. RowsInv'
    BY <1>1 DEF TakeLock, Exit, Leave, Freed, Goto, TypeOK, RowsInv, RowMatchesGraph,
       ProcInv, Locked, Driving
  <1> QED
    BY <1>2, <1>3, <1>4, <1>5, StepKeepsInvIf

LEMMA RecheckKeepsInv ==
  ASSUME LifecycleInv, NEW p \in Proc, Recheck(p)
  PROVE  LifecycleInv'
  <1>1. job[p] \in Exec /\ TypeOK /\ ProcInv(p) /\ RowsInv
    BY Holds DEF Recheck
  <1>2. TypeOK'
    BY <1>1, GotoTyped, ExitTyped DEF Recheck, TypeOK, ProcsTyped, RowStatus, Step,
                                      Locked, Driving, Answering
  <1>3. Frame(p)
    BY <1>1 DEF Recheck, Exit, Leave, Freed, Goto, Frame, TypeOK, ProcInv, Locked, Driving
  <1>4. ProcInv(p)'
    <2>1. CASE pc'[p] = "idle"
      BY <2>1, IdleIsFree
    <2>2. CASE pc'[p] # "idle"
      <3>1. /\ pc'[p] \in {"prepare", "enter", "recover"} /\ job' = job /\ role' = role
            /\ lock' = lock /\ wlock' = wlock
            /\ row' = row /\ result' = result /\ graph' = graph
            /\ pc'[p] # "recover" => MayRun(role[p], job[p])
            /\ pc'[p] = "prepare" => role[p] = "entry"
            /\ pc'[p] = "enter" => role[p] # "entry"
        BY <1>1, <2>2 DEF Recheck, Exit, Leave, Freed, Goto, TypeOK, ProcInv
      <3> QED
        BY <1>1, <3>1 DEF Recheck, ProcInv, RowsInv, Locked, Driving, MayRun, Reusable
    <2> QED
      BY <2>1, <2>2
  <1>5. RowsInv'
    BY <1>1 DEF Recheck, Exit, Leave, Freed, Goto, TypeOK, RowsInv, RowMatchesGraph,
       ProcInv, Locked, Driving
  <1> QED
    BY <1>2, <1>3, <1>4, <1>5, StepKeepsInvIf

LEMMA PrepareKeepsInv ==
  ASSUME LifecycleInv, NEW p \in Proc, Prepare(p)
  PROVE  LifecycleInv'
  <1>1. job[p] \in Exec /\ TypeOK /\ ProcInv(p) /\ RowsInv
    BY Holds DEF Prepare
  <1>2. TypeOK'
    BY <1>1 DEF Prepare, Goto, Record, TypeOK, RowStatus, Role, Step, Locked, Driving,
       Answering
  <1>3. Frame(p)
    BY <1>1 DEF Prepare, Goto, Record, Frame, TypeOK, ProcInv, Locked, Driving
  <1>4. ProcInv(p)'
    <2>1. CASE pc'[p] = "idle"
      BY <2>1, IdleIsFree
    <2>2. CASE pc'[p] # "idle"
      <3>1. /\ pc'[p] = "link" /\ job' = job /\ role' = role
            /\ lock' = lock /\ wlock' = wlock
            /\ row'[job[p]] = "running" /\ result' = result /\ graph' = graph
        BY <1>1, <2>2 DEF Prepare, Goto, Record, TypeOK, ProcInv
      <3> QED
        BY <1>1, <3>1 DEF Prepare, ProcInv, RowsInv, Locked, Driving, MayRun, Reusable
    <2> QED
      BY <2>1, <2>2
  <1>5. RowsInv'
    BY <1>1 DEF Prepare, Goto, Record, TypeOK, RowsInv, RowMatchesGraph, ProcInv, Locked,
       Driving
  <1> QED
    BY <1>2, <1>3, <1>4, <1>5, StepKeepsInvIf

LEMMA LinkKeepsInv ==
  ASSUME LifecycleInv, NEW p \in Proc, Link(p)
  PROVE  LifecycleInv'
  <1>1. job[p] \in Exec /\ TypeOK /\ ProcInv(p) /\ RowsInv
    BY Holds DEF Link
  <1>2. TypeOK'
    BY <1>1 DEF Link, Goto, TypeOK, RowStatus, Role, Step, Locked, Driving, Answering
  <1>3. Frame(p)
    BY <1>1 DEF Link, Goto, Frame, TypeOK, ProcInv, Locked, Driving
  <1>4. ProcInv(p)'
    <2>1. CASE pc'[p] = "idle"
      BY <2>1, IdleIsFree
    <2>2. CASE pc'[p] # "idle"
      <3>1. /\ pc'[p] = "enter" /\ job' = job /\ role' = role
            /\ lock' = lock /\ wlock' = wlock
            /\ row' = row /\ result' = result /\ graph' = graph
        BY <1>1, <2>2 DEF Link, Goto, TypeOK, ProcInv
      <3> QED
        BY <1>1, <3>1 DEF Link, ProcInv, RowsInv, Locked, Driving, MayRun, Reusable
    <2> QED
      BY <2>1, <2>2
  <1>5. RowsInv'
    BY <1>1 DEF Link, Goto, TypeOK, RowsInv, RowMatchesGraph, ProcInv, Locked, Driving
  <1> QED
    BY <1>2, <1>3, <1>4, <1>5, StepKeepsInvIf

LEMMA EnterKeepsInv ==
  ASSUME LifecycleInv, NEW p \in Proc, Enter(p)
  PROVE  LifecycleInv'
  <1>1. job[p] \in Exec /\ TypeOK /\ ProcInv(p) /\ RowsInv
    BY Holds DEF Enter
  <1>2. TypeOK'
    BY <1>1, GotoTyped, ExitTyped DEF Enter, WorkItemFree, TypeOK, ProcsTyped, RowStatus,
       Step,
                                      Locked, Driving, Answering
  <1>3. Frame(p)
    BY <1>1 DEF Enter, Exit, Leave, Freed, Goto, WorkItemFree, Frame, TypeOK, ProcInv,
       Locked, Driving
  <1>4. ProcInv(p)'
    <2>1. CASE pc'[p] = "idle"
      BY <2>1, IdleIsFree
    <2>2. CASE pc'[p] # "idle"
      <3>1. /\ pc'[p] \in {"check", "start", "turned_away"} /\ job' = job /\ role' = role
            /\ lock' = lock /\ (pc'[p] # "turned_away" => wlock' = p)
            /\ row' = row /\ result' = result /\ graph' = graph
            /\ pc'[p] = "check" => role[p] = "resume"
        BY <1>1, <2>2 DEF Enter, Exit, Leave, Freed, Goto, WorkItemFree, TypeOK, ProcInv
      <3> QED
        BY <1>1, <3>1 DEF Enter, ProcInv, RowsInv, Locked, Driving, MayRun, Reusable
    <2> QED
      BY <2>1, <2>2
  <1>5. RowsInv'
    BY <1>1 DEF Enter, Exit, Leave, Freed, Goto, WorkItemFree, TypeOK, RowsInv,
       RowMatchesGraph, ProcInv, Locked, Driving
  <1> QED
    BY <1>2, <1>3, <1>4, <1>5, StepKeepsInvIf

LEMMA AnswerKeepsInv ==
  ASSUME LifecycleInv, NEW p \in Proc, Answer(p)
  PROVE  LifecycleInv'
  <1>1. job[p] \in Exec /\ TypeOK /\ ProcInv(p) /\ RowsInv
    BY Holds DEF Answer
  <1>2. TypeOK'
    BY <1>1 DEF Answer, Goto, TypeOK, RowStatus, Role, Step, Locked, Driving, Answering
  <1>3. Frame(p)
    BY <1>1 DEF Answer, Goto, Frame, TypeOK, ProcInv, Locked, Driving
  <1>4. ProcInv(p)'
    BY <1>1 DEF Answer, Goto, TypeOK, ProcInv, RowsInv, Locked, Driving, MayRun, Reusable
  <1>5. RowsInv'
    BY <1>1 DEF Answer, Goto, TypeOK, RowsInv, RowMatchesGraph, ProcInv, Locked, Driving
  <1> QED
    BY <1>2, <1>3, <1>4, <1>5, StepKeepsInvIf

LEMMA CheckKeepsInv ==
  ASSUME LifecycleInv, NEW p \in Proc, Check(p)
  PROVE  LifecycleInv'
  <1>1. job[p] \in Exec /\ TypeOK /\ ProcInv(p) /\ RowsInv
    BY Holds DEF Check
  <1>2. TypeOK'
    BY <1>1, GotoTyped, ExitTyped DEF Check, TypeOK, ProcsTyped, RowStatus, Step,
                                      Locked, Driving, Answering
  <1>3. Frame(p)
    BY <1>1 DEF Check, Goto, Exit, Leave, Freed, Frame, TypeOK, ProcInv, Locked, Driving
  <1>4. ProcInv(p)'
    <2>1. CASE pc'[p] = "idle"
      BY <2>1, IdleIsFree
    <2>2. CASE pc'[p] # "idle"
      <3>1. /\ pc'[p] = "audit_running" /\ job' = job /\ role' = role
            /\ lock' = lock /\ wlock' = wlock
            /\ row' = row /\ result' = result /\ graph' = graph
        BY <1>1, <2>2 DEF Check, Goto, Exit, Leave, Freed, TypeOK, ProcInv
      <3> QED
        BY <1>1, <3>1 DEF Check, ProcInv, RowsInv, Locked, Driving, MayRun, Reusable
    <2> QED
      BY <2>1, <2>2
  <1>5. RowsInv'
    BY <1>1 DEF Check, Goto, Exit, Leave, Freed, TypeOK, RowsInv, RowMatchesGraph, ProcInv,
       Locked, Driving
  <1> QED
    BY <1>2, <1>3, <1>4, <1>5, StepKeepsInvIf

LEMMA AuditRunningKeepsInv ==
  ASSUME LifecycleInv, NEW p \in Proc, AuditRunning(p)
  PROVE  LifecycleInv'
  <1>1. job[p] \in Exec /\ TypeOK /\ ProcInv(p) /\ RowsInv
    BY Holds DEF AuditRunning
  <1>2. TypeOK'
    BY <1>1 DEF AuditRunning, Goto, RecordRecovery, Reconciled, TypeOK, RowStatus, Role,
       Step, Locked, Driving, Answering
  <1>3. Frame(p)
    BY <1>1 DEF AuditRunning, Goto, RecordRecovery, Reconciled, Frame, TypeOK, ProcInv,
       Locked, Driving
  <1>4. ProcInv(p)'
    <2>1. CASE pc'[p] = "idle"
      BY <2>1, IdleIsFree
    <2>2. CASE pc'[p] # "idle"
      <3>1. /\ pc'[p] = "start" /\ job' = job /\ role' = role
            /\ lock' = lock /\ wlock' = wlock
            /\ row' = row /\ result' = result /\ graph' = graph
        BY <1>1, <2>2 DEF AuditRunning, Goto, RecordRecovery, Reconciled, TypeOK, ProcInv
      <3> QED
        BY <1>1, <3>1 DEF AuditRunning, ProcInv, RowsInv, Locked, Driving, MayRun, Reusable
    <2> QED
      BY <2>1, <2>2
  <1>5. RowsInv'
    BY <1>1 DEF AuditRunning, Goto, RecordRecovery, Reconciled, TypeOK, RowsInv,
       RowMatchesGraph, ProcInv, Locked, Driving
  <1> QED
    BY <1>2, <1>3, <1>4, <1>5, StepKeepsInvIf

LEMMA StartKeepsInv ==
  ASSUME LifecycleInv, NEW p \in Proc, Start(p)
  PROVE  LifecycleInv'
  <1>1. job[p] \in Exec /\ TypeOK /\ ProcInv(p) /\ RowsInv
    BY Holds DEF Start
  <1>2. TypeOK'
    BY <1>1 DEF Start, Goto, Record, TypeOK, RowStatus, Role, Step, Locked, Driving,
       Answering
  <1>3. Frame(p)
    BY <1>1 DEF Start, Goto, Record, Frame, TypeOK, ProcInv, Locked, Driving
  <1>4. ProcInv(p)'
    BY <1>1 DEF Start, Goto, Record, TypeOK, ProcInv, RowsInv, Locked, Driving, MayRun,
       Reusable
  <1>5. RowsInv'
    BY <1>1 DEF Start, Goto, Record, TypeOK, RowsInv, RowMatchesGraph, ProcInv, Locked,
       Driving
  <1> QED
    BY <1>2, <1>3, <1>4, <1>5, StepKeepsInvIf

LEMMA DriveKeepsInv ==
  ASSUME LifecycleInv, NEW p \in Proc, Drive(p)
  PROVE  LifecycleInv'
  <1>1. job[p] \in Exec /\ TypeOK /\ ProcInv(p) /\ RowsInv
    BY Holds DEF Drive
  <1>2. /\ graph[job[p]] \in {"none", "working", "done"} /\ row[job[p]] = "running"
        /\ pc[p] = "drive" /\ lock[job[p]] = p
    BY <1>1 DEF Drive, TypeOK, ProcInv, Locked, Driving
  <1>3. \/ graph' = graph
        \/ /\ graph[job[p]] \in {"none", "working"} /\ job[p] \notin Direct
           /\ \E g \in {"working", "paused", "done"} :
                graph' = [graph EXCEPT ![job[p]] = g]
    <2>1. CASE job[p] \in Direct
      BY <2>1 DEF Drive
    <2>2. CASE job[p] \notin Direct /\ graph[job[p]] = "none"
      BY <2>2 DEF Drive
    <2>3. CASE job[p] \notin Direct /\ graph[job[p]] = "working"
      BY <2>3 DEF Drive
    <2>4. CASE job[p] \notin Direct /\ graph[job[p]] = "done"
      BY <2>4 DEF Drive
    <2> QED
      BY <1>2, <2>1, <2>2, <2>3, <2>4
  <1>4. /\ row' = row /\ result' = result /\ approved' = approved
        /\ lock' = lock /\ wlock' = wlock /\ attempt' = attempt /\ owner' = owner
        /\ public' = public /\ text' = text /\ role' = role /\ job' = job
        /\ linked' = linked
    BY <1>1, <1>2 DEF Drive, Goto, TypeOK
  <1>5. pc' = pc \/ pc' = [pc EXCEPT ![p] = "return"]
    BY <1>1, <1>2 DEF Drive, Goto, TypeOK
  <1>6. TypeOK'
    BY <1>1, <1>3, <1>4, <1>5 DEF TypeOK, Step, Locked, Driving, Answering
  <1>7. Frame(p)
    BY <1>1, <1>2, <1>3, <1>4, <1>5 DEF Frame, TypeOK
  <1>8. ProcInv(p)'
    <2>1. /\ job' = job /\ role' = role
          /\ lock' = lock /\ wlock' = wlock
          /\ row' = row /\ result' = result
          /\ pc'[p] \in {"drive", "return"}
      BY <1>1, <1>2, <1>4, <1>5 DEF TypeOK
    <2>2. pc'[p] = "drive" => graph'[job[p]] = "working"
      <3>1. job[p] \in Direct \/ graph[job[p]] # "none" => Goto(p, "return")
        BY <1>1, <1>2 DEF Drive
      <3>2. job[p] \notin Direct /\ graph[job[p]] = "none" => graph' = [graph EXCEPT ![job[p]] = "working"]
        BY <1>1, <1>2 DEF Drive
      <3> QED
        BY <1>1, <3>1, <3>2 DEF Goto, TypeOK
    <2>3. pc'[p] = "return" => job[p] \in Direct \/ graph'[job[p]] \in {"paused", "done"}
      <3>1. CASE job[p] \in Direct
        BY <3>1
      <3>2. CASE job[p] \notin Direct /\ graph[job[p]] = "none"
        BY <1>1, <1>2, <3>2 DEF Drive
      <3>3. CASE job[p] \notin Direct /\ graph[job[p]] = "working"
        <4>1. \E s \in {"paused", "done"} : graph' = [graph EXCEPT ![job[p]] = s]
          BY <3>3 DEF Drive
        <4> QED
          BY <1>1, <4>1 DEF TypeOK
      <3>4. CASE job[p] \notin Direct /\ graph[job[p]] = "done"
        BY <1>1, <3>4 DEF Drive
      <3> QED
        BY <1>1, <1>2, <3>1, <3>2, <3>3, <3>4 DEF TypeOK, ProcInv
    <2> QED
      BY <1>1, <1>2, <2>1, <2>2, <2>3 DEF ProcInv, RowsInv, Locked, Driving
  <1>9. RowsInv'
    BY <1>1, <1>2, <1>3, <1>4 DEF TypeOK, RowsInv, RowMatchesGraph
  <1> QED
    BY <1>6, <1>7, <1>8, <1>9, StepKeepsInvIf

LEMMA ApproveKeepsInv ==
  ASSUME LifecycleInv, NEW p \in Proc, Approve(p)
  PROVE  LifecycleInv'
  <1>1. job[p] \in Exec /\ TypeOK /\ ProcInv(p) /\ RowsInv
    BY Holds DEF Approve
  <1>2. TypeOK'
    BY <1>1 DEF Approve, Goto, TypeOK, RowStatus, Role, Step, Locked, Driving, Answering
  <1>3. Frame(p)
    BY <1>1 DEF Approve, Goto, Frame, TypeOK, ProcInv, Locked, Driving
  <1>4. ProcInv(p)'
    BY <1>1 DEF Approve, Goto, TypeOK, ProcInv, RowsInv, Locked, Driving, MayRun, Reusable
  <1>5. RowsInv'
    BY <1>1 DEF Approve, Goto, TypeOK, RowsInv, RowMatchesGraph, ProcInv, Locked, Driving
  <1> QED
    BY <1>2, <1>3, <1>4, <1>5, StepKeepsInvIf

LEMMA FailKeepsInv ==
  ASSUME LifecycleInv, NEW p \in Proc, Fail(p)
  PROVE  LifecycleInv'
  <1>1. job[p] \in Exec /\ TypeOK /\ ProcInv(p) /\ RowsInv
    BY Holds DEF Fail
  <1>2. TypeOK'
    BY <1>1, GotoTyped, ExitTyped DEF Fail, Record, TypeOK, ProcsTyped, RowStatus, Step,
                                      Locked, Driving, Answering
  <1>3. Frame(p)
    BY <1>1 DEF Fail, Goto, Exit, Leave, Freed, Record, Frame, TypeOK, ProcInv, Locked,
       Driving
  <1>4. ProcInv(p)'
    <2>1. CASE pc'[p] = "idle"
      BY <2>1, IdleIsFree
    <2>2. CASE pc'[p] # "idle"
      <3>1. /\ job' = job /\ role' = role
            /\ lock' = lock
            /\ pc'[p] \in {"finalize_failed", "audit_failed"}
            /\ pc'[p] = "audit_failed" => wlock' = wlock
        BY <1>1, <2>2 DEF Fail, Goto, Exit, Leave, Freed, Record, TypeOK, ProcInv
      <3> QED
        BY <1>1, <3>1 DEF Fail, ProcInv, RowsInv, Locked, Driving, MayRun, Reusable
    <2> QED
      BY <2>1, <2>2
  <1>5. RowsInv'
    BY <1>1 DEF Fail, Goto, Exit, Leave, Freed, Record, TypeOK, RowsInv, RowMatchesGraph,
       ProcInv, Locked, Driving
  <1> QED
    BY <1>2, <1>3, <1>4, <1>5, StepKeepsInvIf

LEMMA AuditFailedKeepsInv ==
  ASSUME LifecycleInv, NEW p \in Proc, AuditFailed(p)
  PROVE  LifecycleInv'
  <1>1. job[p] \in Exec /\ TypeOK /\ ProcInv(p) /\ RowsInv
    BY Holds DEF AuditFailed
  <1>2. TypeOK'
    BY <1>1 DEF AuditFailed, Leave, Freed, RecordRecovery, Reconciled, TypeOK, RowStatus,
       Role, Step, Locked, Driving, Answering
  <1>3. Frame(p)
    BY <1>1 DEF AuditFailed, Leave, Freed, RecordRecovery, Reconciled, Frame, TypeOK,
       ProcInv, Locked, Driving
  <1>4. ProcInv(p)'
    BY <1>1, IdleIsFree DEF AuditFailed, Leave, Freed, RecordRecovery, Reconciled, TypeOK
  <1>5. RowsInv'
    BY <1>1 DEF AuditFailed, Leave, Freed, RecordRecovery, Reconciled, TypeOK, RowsInv,
       RowMatchesGraph, ProcInv, Locked, Driving
  <1> QED
    BY <1>2, <1>3, <1>4, <1>5, StepKeepsInvIf

LEMMA ReturnKeepsInv ==
  ASSUME LifecycleInv, NEW p \in Proc, Return(p)
  PROVE  LifecycleInv'
  <1>1. job[p] \in Exec /\ TypeOK /\ ProcInv(p) /\ RowsInv
    BY Holds DEF Return
  <1>2. TypeOK'
    BY <1>1, GotoTyped, ExitTyped DEF Return, Record, RecordOutcome, Outcome, TypeOK,
       ProcsTyped, RowStatus, Step,
                                      Locked, Driving, Answering
  <1>3. Frame(p)
    BY <1>1 DEF Return, Goto, Exit, Leave, Freed, Record, RecordOutcome, Outcome, Frame,
       TypeOK, ProcInv, Locked, Driving
  <1>4. ProcInv(p)'
    <2>1. CASE pc'[p] = "idle"
      BY <2>1, IdleIsFree
    <2>2. CASE pc'[p] # "idle"
      <3>1. /\ job' = job /\ role' = role
            /\ lock' = lock /\ graph' = graph
            /\ pc'[p] \in {"finalize_ok", "finalize_failed", "report"}
            /\ pc'[p] = "finalize_ok" => row'[job[p]] = IF graph[job[p]] = "paused" THEN "interrupted" ELSE "completed"
        BY <1>1, <2>2 DEF Return, Goto, Exit, Leave, Freed, Record, RecordOutcome, Outcome,
           TypeOK, ProcInv
      <3> QED
        BY <1>1, <3>1 DEF Return, ProcInv, RowsInv, Locked, Driving, MayRun, Reusable
    <2> QED
      BY <2>1, <2>2
  <1>5. RowsInv'
    BY <1>1 DEF Return, Goto, Exit, Leave, Freed, Record, RecordOutcome, Outcome, TypeOK,
       RowsInv, RowMatchesGraph, ProcInv, Locked, Driving
  <1> QED
    BY <1>2, <1>3, <1>4, <1>5, StepKeepsInvIf

LEMMA ReportKeepsInv ==
  ASSUME LifecycleInv, NEW p \in Proc, Report(p)
  PROVE  LifecycleInv'
  <1>1. job[p] \in Exec /\ TypeOK /\ ProcInv(p) /\ RowsInv
    BY Holds DEF Report
  <1>2. TypeOK'
    BY <1>1 DEF Report, Goto, Record, RecordOutcome, Outcome, TypeOK, RowStatus, Role,
       Step, Locked, Driving, Answering
  <1>3. Frame(p)
    BY <1>1 DEF Report, Goto, Record, RecordOutcome, Outcome, Frame, TypeOK, ProcInv,
       Locked, Driving
  <1>4. ProcInv(p)'
    BY <1>1 DEF Report, Goto, Record, RecordOutcome, Outcome, TypeOK, ProcInv, RowsInv,
       Locked, Driving, MayRun, Reusable
  <1>5. RowsInv'
    BY <1>1 DEF Report, Goto, Record, RecordOutcome, Outcome, TypeOK, RowsInv,
       RowMatchesGraph, ProcInv, Locked, Driving
  <1> QED
    BY <1>2, <1>3, <1>4, <1>5, StepKeepsInvIf

LEMMA AuditEndKeepsInv ==
  ASSUME LifecycleInv, NEW p \in Proc, AuditEnd(p)
  PROVE  LifecycleInv'
  <1>1. job[p] \in Exec /\ TypeOK /\ ProcInv(p) /\ RowsInv
    BY Holds DEF AuditEnd
  <1>2. TypeOK'
    <2>1. ProcsTyped'
      BY <1>1, GotoTyped, LeaveTyped DEF AuditEnd, Step, Answering
    <2>2. lock' \in [Exec -> Proc \cup {NoProc}]
      BY <1>1 DEF AuditEnd, Freed, TypeOK
    <2> QED
      BY <1>1, <2>1, <2>2 DEF AuditEnd, RecordRecovery, Reconciled, TypeOK, ProcsTyped
  <1>3. Frame(p)
    BY <1>1 DEF AuditEnd, Goto, Leave, Freed, RecordRecovery, Reconciled, Frame, TypeOK,
       ProcInv, Locked, Driving
  <1>4. ProcInv(p)'
    <2>1. CASE pc'[p] = "idle"
      BY <2>1, IdleIsFree
    <2>2. CASE pc'[p] # "idle"
      <3>1. /\ pc'[p] = "public_read" /\ job' = job /\ role' = role
        BY <1>1, <2>2 DEF AuditEnd, Goto, Leave, Freed, RecordRecovery, Reconciled, TypeOK,
           ProcInv
      <3> QED
        BY <1>1, <3>1 DEF AuditEnd, ProcInv, RowsInv, Locked, Driving, MayRun, Reusable
    <2> QED
      BY <2>1, <2>2
  <1>5. RowsInv'
    BY <1>1 DEF AuditEnd, Goto, Leave, Freed, RecordRecovery, Reconciled, TypeOK, RowsInv,
       RowMatchesGraph, ProcInv, Locked, Driving
  <1> QED
    BY <1>2, <1>3, <1>4, <1>5, StepKeepsInvIf

LEMMA PublicReadKeepsInv ==
  ASSUME LifecycleInv, NEW p \in Proc, PublicRead(p)
  PROVE  LifecycleInv'
  <1>1. job[p] \in Exec /\ TypeOK /\ ProcInv(p) /\ RowsInv
    BY Holds DEF PublicRead
  <1>2. TypeOK'
    BY <1>1, GotoTyped, ExitTyped DEF PublicRead, TypeOK, ProcsTyped, RowStatus, Step,
                                      Locked, Driving, Answering
  <1>3. Frame(p)
    BY <1>1 DEF PublicRead, Goto, Exit, Leave, Freed, Frame, TypeOK, ProcInv, Locked,
       Driving
  <1>4. ProcInv(p)'
    <2>1. CASE pc'[p] = "idle"
      BY <2>1, IdleIsFree
    <2>2. CASE pc'[p] # "idle"
      <3>1. /\ pc'[p] \in {"public_save", "text_save"} /\ job' = job /\ role' = role
        BY <1>1, <2>2 DEF PublicRead, Goto, Exit, Leave, Freed, TypeOK, ProcInv
      <3> QED
        BY <1>1, <3>1 DEF PublicRead, ProcInv, RowsInv, Locked, Driving, MayRun, Reusable
    <2> QED
      BY <2>1, <2>2
  <1>5. RowsInv'
    BY <1>1 DEF PublicRead, Goto, Exit, Leave, Freed, TypeOK, RowsInv, RowMatchesGraph,
       ProcInv, Locked, Driving
  <1> QED
    BY <1>2, <1>3, <1>4, <1>5, StepKeepsInvIf

LEMMA PublicSaveKeepsInv ==
  ASSUME LifecycleInv, NEW p \in Proc, PublicSave(p)
  PROVE  LifecycleInv'
  <1>1. job[p] \in Exec /\ TypeOK /\ ProcInv(p) /\ RowsInv
    BY Holds DEF PublicSave
  <1>2. TypeOK'
    BY <1>1 DEF PublicSave, Goto, Kept, TypeOK, RowStatus, Role, Step, Locked, Driving,
       Answering
  <1>3. Frame(p)
    BY <1>1 DEF PublicSave, Goto, Kept, Frame, TypeOK, ProcInv, Locked, Driving
  <1>4. ProcInv(p)'
    BY <1>1 DEF PublicSave, Goto, Kept, TypeOK, ProcInv, RowsInv, Locked, Driving, MayRun,
       Reusable
  <1>5. RowsInv'
    BY <1>1 DEF PublicSave, Goto, Kept, TypeOK, RowsInv, RowMatchesGraph, ProcInv, Locked,
       Driving
  <1> QED
    BY <1>2, <1>3, <1>4, <1>5, StepKeepsInvIf

LEMMA TextSaveKeepsInv ==
  ASSUME LifecycleInv, NEW p \in Proc, TextSave(p)
  PROVE  LifecycleInv'
  <1>1. job[p] \in Exec /\ TypeOK /\ ProcInv(p) /\ RowsInv
    BY Holds DEF TextSave
  <1>2. TypeOK'
    BY <1>1 DEF TextSave, Exit, Leave, Freed, Kept, TypeOK, RowStatus, Role, Step, Locked,
       Driving, Answering
  <1>3. Frame(p)
    BY <1>1 DEF TextSave, Exit, Leave, Freed, Kept, Frame, TypeOK, ProcInv, Locked, Driving
  <1>4. ProcInv(p)'
    BY <1>1, IdleIsFree DEF TextSave, Exit, Leave, Freed, Kept, TypeOK
  <1>5. RowsInv'
    BY <1>1 DEF TextSave, Exit, Leave, Freed, Kept, TypeOK, RowsInv, RowMatchesGraph,
       ProcInv, Locked, Driving
  <1> QED
    BY <1>2, <1>3, <1>4, <1>5, StepKeepsInvIf

LEMMA FinalizeKeepsInv ==
  ASSUME LifecycleInv, NEW p \in Proc, Finalize(p)
  PROVE  LifecycleInv'
  <1>1. job[p] \in Exec /\ TypeOK /\ ProcInv(p) /\ RowsInv
    BY Holds DEF Finalize
  <1>2. TypeOK'
    BY <1>1 DEF Finalize, Goto, TypeOK, RowStatus, Role, Step, Locked, Driving, Answering
  <1>3. Frame(p)
    BY <1>1 DEF Finalize, Goto, Frame, TypeOK, ProcInv, Locked, Driving
  <1>4. ProcInv(p)'
    <2>1. CASE pc'[p] = "idle"
      BY <2>1, IdleIsFree
    <2>2. CASE pc'[p] # "idle"
      <3>1. /\ job' = job /\ role' = role
            /\ lock' = lock
            /\ row' = row /\ result' = result /\ graph' = graph
            /\ pc'[p] \in {"entry_failed", "entry_ok", "entry_public"}
            /\ pc'[p] # "entry_failed" => pc[p] = "finalize_ok"
        BY <1>1, <2>2 DEF Finalize, Goto, TypeOK, ProcInv
      <3> QED
        BY <1>1, <3>1 DEF Finalize, ProcInv, RowsInv, Locked, Driving, MayRun, Reusable
    <2> QED
      BY <2>1, <2>2
  <1>5. RowsInv'
    BY <1>1 DEF Finalize, Goto, TypeOK, RowsInv, RowMatchesGraph, ProcInv, Locked, Driving
  <1> QED
    BY <1>2, <1>3, <1>4, <1>5, StepKeepsInvIf

LEMMA EntryPublicKeepsInv ==
  ASSUME LifecycleInv, NEW p \in Proc, EntryPublic(p)
  PROVE  LifecycleInv'
  <1>1. job[p] \in Exec /\ TypeOK /\ ProcInv(p) /\ RowsInv
    BY Holds DEF EntryPublic
  <1>2. TypeOK'
    BY <1>1 DEF EntryPublic, Goto, Kept, TypeOK, RowStatus, Role, Step, Locked, Driving,
       Answering
  <1>3. Frame(p)
    BY <1>1 DEF EntryPublic, Goto, Kept, Frame, TypeOK, ProcInv, Locked, Driving
  <1>4. ProcInv(p)'
    <2>1. CASE pc'[p] = "idle"
      BY <2>1, IdleIsFree
    <2>2. CASE pc'[p] # "idle"
      <3>1. /\ job' = job /\ role' = role
            /\ lock' = lock
            /\ row' = row /\ result' = result /\ graph' = graph
            /\ pc'[p] \in {"entry_text", "entry_ok"}
        BY <1>1, <2>2 DEF EntryPublic, Goto, Kept, TypeOK, ProcInv
      <3> QED
        BY <1>1, <3>1 DEF EntryPublic, ProcInv, RowsInv, Locked, Driving, MayRun, Reusable
    <2> QED
      BY <2>1, <2>2
  <1>5. RowsInv'
    BY <1>1 DEF EntryPublic, Goto, Kept, TypeOK, RowsInv, RowMatchesGraph, ProcInv, Locked,
       Driving
  <1> QED
    BY <1>2, <1>3, <1>4, <1>5, StepKeepsInvIf

LEMMA EntryTextKeepsInv ==
  ASSUME LifecycleInv, NEW p \in Proc, EntryText(p)
  PROVE  LifecycleInv'
  <1>1. job[p] \in Exec /\ TypeOK /\ ProcInv(p) /\ RowsInv
    BY Holds DEF EntryText
  <1>2. TypeOK'
    BY <1>1 DEF EntryText, Goto, Kept, TypeOK, RowStatus, Role, Step, Locked, Driving,
       Answering
  <1>3. Frame(p)
    BY <1>1 DEF EntryText, Goto, Kept, Frame, TypeOK, ProcInv, Locked, Driving
  <1>4. ProcInv(p)'
    BY <1>1 DEF EntryText, Goto, Kept, TypeOK, ProcInv, RowsInv, Locked, Driving, MayRun,
       Reusable
  <1>5. RowsInv'
    BY <1>1 DEF EntryText, Goto, Kept, TypeOK, RowsInv, RowMatchesGraph, ProcInv, Locked,
       Driving
  <1> QED
    BY <1>2, <1>3, <1>4, <1>5, StepKeepsInvIf

LEMMA EntryEndKeepsInv ==
  ASSUME LifecycleInv, NEW p \in Proc, EntryEnd(p)
  PROVE  LifecycleInv'
  <1>1. job[p] \in Exec /\ TypeOK /\ ProcInv(p) /\ RowsInv
    BY Holds DEF EntryEnd
  <1>2. TypeOK'
    BY <1>1 DEF EntryEnd, Exit, Leave, Freed, Record, TypeOK, RowStatus, Role, Step,
       Locked, Driving, Answering
  <1>3. Frame(p)
    BY <1>1 DEF EntryEnd, Exit, Leave, Freed, Record, Frame, TypeOK, ProcInv, Locked,
       Driving
  <1>4. ProcInv(p)'
    BY <1>1, IdleIsFree DEF EntryEnd, Exit, Leave, Freed, Record, TypeOK
  <1>5. RowsInv'
    BY <1>1 DEF EntryEnd, Exit, Leave, Freed, Record, TypeOK, RowsInv, RowMatchesGraph,
       ProcInv, Locked, Driving
  <1> QED
    BY <1>2, <1>3, <1>4, <1>5, StepKeepsInvIf

LEMMA CrashKeepsInv ==
  ASSUME LifecycleInv, NEW p \in Proc, Crash(p)
  PROVE  LifecycleInv'
  <1>1. job[p] \in Exec /\ TypeOK /\ ProcInv(p) /\ RowsInv
    BY Holds DEF Crash
  <1>2. TypeOK'
    BY <1>1 DEF Crash, Exit, Leave, Freed, TypeOK, RowStatus, Role, Step, Locked, Driving,
       Answering
  <1>3. Frame(p)
    BY <1>1 DEF Crash, Exit, Leave, Freed, Frame, TypeOK, ProcInv, Locked, Driving
  <1>4. ProcInv(p)'
    BY <1>1, IdleIsFree DEF Crash, Exit, Leave, Freed, TypeOK
  <1>5. RowsInv'
    BY <1>1 DEF Crash, Exit, Leave, Freed, TypeOK, RowsInv, RowMatchesGraph, ProcInv,
       Locked, Driving
  <1> QED
    BY <1>2, <1>3, <1>4, <1>5, StepKeepsInvIf

-----------------------------------------------------------------------------
(* The invariant, and what it implies.                                     *)

LEMMA DecideKeepsInv ==
  ASSUME LifecycleInv, Decide
  PROVE  LifecycleInv'
  <1>1. TypeOK'
    BY DEF LifecycleInv, Decide, TypeOK
  <1>2. RoleInv' /\ LockInv' /\ RunningInv'
    BY DEF Decide, LifecycleInv, RoleInv, LockInv, RunningInv
  <1>3. DecisionStands'
    BY DEF Decide, LifecycleInv, DecisionStands, MayRun, Reusable
  <1>4. GraphInv' /\ RowMatchesGraph'
    BY DEF Decide, LifecycleInv, GraphInv, RowMatchesGraph
  <1> QED
    BY <1>1, <1>2, <1>3, <1>4 DEF LifecycleInv

LEMMA StepKeepsInv ==
  ASSUME LifecycleInv, [Next]_vars
  PROVE  LifecycleInv'
  <1>1. CASE UNCHANGED vars
    <2>1. TypeOK' /\ RoleInv' /\ LockInv' /\ RunningInv'
      BY <1>1 DEF vars, LifecycleInv, TypeOK, RoleInv, LockInv, RunningInv
    <2>2. DecisionStands'
      BY <1>1 DEF vars, LifecycleInv, DecisionStands, MayRun, Reusable
    <2>3. GraphInv' /\ RowMatchesGraph'
      BY <1>1 DEF vars, LifecycleInv, GraphInv, RowMatchesGraph
    <2> QED
      BY <2>1, <2>2, <2>3 DEF LifecycleInv
  <1>2. CASE Decide
    BY <1>2, DecideKeepsInv
  <1>3. ASSUME NEW p \in Proc, NEW r \in Role, NEW e \in Exec, Read(p, r, e)
        PROVE  LifecycleInv'
    BY <1>3, ReadKeepsInv
  <1>4. ASSUME NEW p \in Proc, Crash(p)
        PROVE  LifecycleInv'
    BY <1>4, CrashKeepsInv
  <1>5. ASSUME NEW p \in Proc, Work(p)
        PROVE  LifecycleInv'
    BY <1>5, TakeLockKeepsInv, RecheckKeepsInv, PrepareKeepsInv, LinkKeepsInv,
       EnterKeepsInv, AnswerKeepsInv, CheckKeepsInv, AuditRunningKeepsInv, StartKeepsInv,
       DriveKeepsInv, ApproveKeepsInv, FailKeepsInv, AuditFailedKeepsInv, ReturnKeepsInv,
       ReportKeepsInv, AuditEndKeepsInv, PublicReadKeepsInv, PublicSaveKeepsInv,
       TextSaveKeepsInv, FinalizeKeepsInv, EntryPublicKeepsInv, EntryTextKeepsInv,
       EntryEndKeepsInv
    DEF Work
  <1> QED
    BY <1>1, <1>2, <1>3, <1>4, <1>5 DEF Next

\* The inductive invariant of run_durable_direct, run_durable_graph,
\* resume_graph_execution and the CLI entry holds in every reachable state.
THEOREM LifecycleInvariance == Spec => []LifecycleInv
  BY InitInv, StepKeepsInv, PTL DEF Spec

\* The rows, locks, stages and process positions keep their types.
THEOREM LifecycleTyped == Spec => []TypeOK
  <1>1. LifecycleInv => TypeOK
    BY DEF LifecycleInv
  <1> QED
    BY <1>1, LifecycleInvariance, PTL

\* execution_lock and work_item_execution_lock let only one process at a time
\* drive the WorkItem, by whatever entry points.
THEOREM OnlyOneDrives == Spec => []OneDriver
  <1>1. LifecycleInv => OneDriver
    BY DEF LifecycleInv, LockInv, OneDriver
  <1> QED
    BY <1>1, LifecycleInvariance, PTL

\* What the second look at the row allowed, under the lock, is still allowed
\* when the row is marked running.
THEOREM SecondLookStands == Spec => []DecisionStands
  <1>1. LifecycleInv => DecisionStands
    BY DEF LifecycleInv
  <1> QED
    BY <1>1, LifecycleInvariance, PTL

\* An execution that completed with a result is not restarted by a caller that
\* read the row before it completed.
THEOREM CompletedIsNotRestarted == Spec => []CompletedIsQuiet
  <1>1. LifecycleInv => CompletedIsQuiet
    <2> SUFFICES ASSUME LifecycleInv, NEW p \in Proc, pc[p] \in Driving
                 PROVE  ~Reusable(job[p])
      BY DEF CompletedIsQuiet
    <2>1. role[p] \in {"entry", "graph", "direct", "resume"}
      BY DEF LifecycleInv, RoleInv, Role, Driving
    <2>2. CASE row[job[p]] = "running"
      BY <2>2 DEF Reusable
    <2>3. CASE row[job[p]] # "running"
      <3>1. role[p] # "entry" /\ MayRun(role[p], job[p])
        BY <2>3 DEF LifecycleInv, RunningInv, DecisionStands, Driving
      <3> QED
        BY <2>1, <3>1 DEF MayRun, Reusable
    <2> QED
      BY <2>2, <2>3
  <1> QED
    BY <1>1, LifecycleInvariance, PTL

\* "interrupted" rows are paused at their approval and final results belong to
\* finished graphs, whatever crashed in between.
THEOREM RowsMatchGraphs == Spec => []RowMatchesGraph
  <1>1. LifecycleInv => RowMatchesGraph
    BY DEF LifecycleInv
  <1> QED
    BY <1>1, LifecycleInvariance, PTL

\* Every step leaves a final result alone: only Return and Report write results,
\* and a finished graph cannot have been paused.
LEMMA StepKeepsFinalResult ==
  ASSUME LifecycleInv, [Next]_vars, NEW e \in Exec, result[e] = "final"
  PROVE  result'[e] = "final"
  <1>1. graph[e] # "paused"
    BY DEF LifecycleInv, GraphInv, RowMatchesGraph
  <1>2. ASSUME NEW p \in Proc, RecordOutcome(job[p])
        PROVE  result'[e] = "final"
    BY <1>1, <1>2 DEF RecordOutcome, LifecycleInv, TypeOK
  <1>3. ASSUME NEW p \in Proc, Return(p) \/ Report(p)
        PROVE  result'[e] = "final"
    <2>1. RecordOutcome(job[p]) \/ result' = result
      BY <1>3 DEF Return, Report
    <2> QED
      BY <1>2, <2>1
  <1>4. ASSUME NEW p \in Proc, Work(p), ~Return(p), ~Report(p)
        PROVE  result' = result
    BY <1>4 DEF Work, TakeLock, Recheck, Prepare, Link, Enter, Answer, Check, AuditRunning,
       Start, Drive, Approve, Fail, AuditFailed, AuditEnd, PublicRead, PublicSave, TextSave,
       Finalize, EntryPublic, EntryText, EntryEnd
  <1>5. ASSUME NEW p \in Proc, NEW r \in Role, NEW d \in Exec, Crash(p) \/ Read(p, r, d)
        PROVE  result' = result
    BY <1>5 DEF Crash, Read
  <1>6. CASE Decide \/ UNCHANGED vars
    BY <1>6 DEF Decide, vars
  <1>7. \E r \in Role : TRUE
    BY DEF Role
  <1> QED
    BY <1>3, <1>4, <1>5, <1>6, <1>7 DEF Next

\* No crash, resume or duplicate entry replaces a final result.
THEOREM FinalResultsStay == Spec => FinalResultStays
  <1>1. LifecycleInv /\ [Next]_vars => [\A e \in Exec : result[e] = "final" => result'[e] = "final"]_vars
    BY StepKeepsFinalResult
  <1> QED
    BY <1>1, LifecycleInvariance, PTL DEF Spec, FinalResultStays
=============================================================================
