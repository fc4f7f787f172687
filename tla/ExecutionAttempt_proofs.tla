--------------------- MODULE ExecutionAttempt_proofs ---------------------
(***************************************************************************)
(* For every set of processes and executions, no running work is taken for *)
(* abandoned, and the lifecycle implements DrivenWork.  LifecycleInv says  *)
(* where everybody is; AttemptInv adds whose the attempts are.             *)
(***************************************************************************)
EXTENDS ExecutionLifecycle_proofs

USE DEF durable, locks, audit, answer, procs

\* What one step may do to others: rows and results are written under their lock, an
\* attempt gets an owner in Link only, and a recovery is recorded by resume only.
AttemptFrame(p) ==
  /\ \A q \in Proc \ {p} : pc'[q] = pc[q] /\ role'[q] = role[q] /\ job'[q] = job[q]
  /\ \A e \in Exec :
       \/ owner'[e] = owner[e]
       \/ owner[e] = p /\ owner'[e] = NoProc
       \/ pc[p] = "link" /\ e = job[p] /\ owner'[e] = p /\ attempt'[e] = "started"
  /\ \A e \in Exec :
       \/ e = job[p] /\ lock[e] = p
       \/ /\ row'[e] = row[e] \/ (row[e] = "none" /\ row'[e] = "pending")
          /\ result'[e] = result[e]
  /\ \A e \in Exec :
       \/ attempt'[e] = attempt[e]
       \/ attempt'[e] # "interrupted"
       \/ e = job[p] /\ pc[p] \in {"audit_running", "audit_failed", "audit_end", "recover"}

\* What process p has to see to itself.
OwnKept(p) ==
  LET e == job[p] IN
  /\ \A d \in Exec :
       owner'[d] = p => job'[p] = d /\ role'[p] = "entry" /\ pc'[p] \in Attempting
  /\ result[e] # "none" => result'[e] # "none"
  /\ result'[e] # "none" => row'[e] \notin {"none", "pending"}
  /\ owner'[e] = p /\ row[e] = "completed" => row'[e] = "completed"
  /\ /\ role'[p] = "entry"
     /\ pc'[p] \in Driving \cup {"prepare", "link", "enter", "turned_away"}
     => result'[job'[p]] = "none"
  /\ pc'[p] = "recover" =>
       job'[p] = e /\ result'[e] # "none" /\ row'[e] = "completed"

\* What both invariants say of a process at work.
WorkerInv(p) ==
  /\ TypeOK /\ pc[p] # "idle" /\ job[p] \in Exec /\ ProcInv(p)
  /\ \A e \in Exec : owner[e] = p => job[p] = e /\ role[p] = "entry" /\ pc[p] \in Attempting
  /\ result[job[p]] # "none" => row[job[p]] \notin {"none", "pending"}
  /\ /\ role[p] = "entry"
     /\ pc[p] \in Driving \cup {"prepare", "link", "enter", "turned_away"}
     => result[job[p]] = "none"

LEMMA Worker ==
  ASSUME LifecycleInv, AttemptInv, NEW p \in Proc, pc[p] # "idle"
  PROVE  WorkerInv(p)
  BY Holds DEF AttemptInv, OwnerInv, AnsweredInv, WorkerInv

-----------------------------------------------------------------------------
(* The combination: what a step has to respect is enough.                  *)

\* The owner of an attempt holds the lock of its execution.
LEMMA OwnerHoldsLock ==
  ASSUME LifecycleInv, AttemptInv, NEW d \in Exec, owner[d] # NoProc
  PROVE  lock[d] = owner[d] /\ owner[d] \in Proc
  <1>1. owner[d] \in Proc
    BY DEF LifecycleInv, TypeOK
  <1>2. job[owner[d]] = d /\ pc[owner[d]] \in Attempting
    BY <1>1 DEF AttemptInv, OwnerInv
  <1> QED
    BY <1>1, <1>2 DEF LifecycleInv, LockInv, Attempting, Locked, Driving

\* Where an attempt is nobody's or its execution has completed, it stays so, unless
\* p links an attempt of its own.
LEMMA StaysOver ==
  ASSUME LifecycleInv, AttemptInv, NEW p \in Proc, AttemptFrame(p), OwnKept(p),
         NEW d \in Exec, owner[d] = NoProc \/ row[d] = "completed",
         ~(pc[p] = "link" /\ d = job[p])
  PROVE  owner'[d] = NoProc \/ row'[d] = "completed"
  <1>1. owner'[d] = owner[d] \/ owner'[d] = NoProc
    BY DEF AttemptFrame
  <1>2. CASE owner[d] # NoProc /\ owner'[d] = owner[d]
    <2>1. row[d] = "completed" /\ lock[d] = owner[d]
      BY <1>2, OwnerHoldsLock
    <2>2. CASE lock[d] = p /\ d = job[p]
      BY <1>2, <2>1, <2>2 DEF OwnKept
    <2>3. CASE ~(lock[d] = p /\ d = job[p])
      BY <2>1, <2>3 DEF AttemptFrame
    <2> QED
      BY <2>2, <2>3
  <1> QED
    BY <1>1, <1>2

LEMMA StepKeepsAttemptsIf ==
  ASSUME LifecycleInv, AttemptInv, NEW p \in Proc, WorkerInv(p), AttemptFrame(p), OwnKept(p)
  PROVE  AttemptInv'
  <1>1. OwnerInv'
    <2> SUFFICES ASSUME NEW e \in Exec, NEW q \in Proc, owner'[e] = q
                 PROVE  job'[q] = e /\ role'[q] = "entry" /\ pc'[q] \in Attempting
      BY DEF OwnerInv, Attempting, Driving
    <2>1. CASE q = p
      BY <2>1 DEF OwnKept
    <2>2. CASE q # p
      <3>1. owner[e] = q
        BY <2>2, RosterAssumption DEF AttemptFrame
      <3> QED
        BY <2>2, <3>1 DEF AttemptFrame, AttemptInv, OwnerInv
    <2> QED
      BY <2>1, <2>2
  <1>2. ASSUME NEW e \in Exec
        PROVE  /\ result'[e] # "none" => row'[e] \notin {"none", "pending"}
               /\ result[e] # "none" => result'[e] # "none"
    BY <1>2 DEF AttemptFrame, OwnKept, AttemptInv, AnsweredInv
  <1>3. ASSUME NEW q \in Proc, role'[q] = "entry",
               pc'[q] \in Driving \cup {"prepare", "link", "enter", "turned_away"}
        PROVE  result'[job'[q]] = "none"
    <2>1. CASE q = p
      BY <1>3, <2>1 DEF OwnKept
    <2>2. CASE q # p
      <3>1. pc'[q] = pc[q] /\ role'[q] = role[q] /\ job'[q] = job[q]
        BY <2>2 DEF AttemptFrame
      <3>2. job[q] \in Exec /\ lock[job[q]] = q
        BY <1>3, <3>1 DEF LifecycleInv, LockInv, Locked, Driving
      <3>3. result'[job[q]] = result[job[q]]
        BY <2>2, <3>2 DEF AttemptFrame
      <3> QED
        BY <1>3, <3>1, <3>3 DEF AttemptInv, AnsweredInv
    <2> QED
      BY <2>1, <2>2
  <1>4. ASSUME NEW q \in Proc, pc'[q] = "recover"
        PROVE  /\ result'[job'[q]] # "none"
               /\ owner'[job'[q]] = NoProc \/ row'[job'[q]] = "completed"
    <2>1. CASE q = p
      BY <1>4, <2>1 DEF OwnKept
    <2>2. CASE q # p
      <3>1. pc[q] = "recover" /\ job'[q] = job[q]
        BY <1>4, <2>2 DEF AttemptFrame
      <3>2. /\ job[q] \in Exec /\ result[job[q]] # "none"
            /\ owner[job[q]] = NoProc \/ row[job[q]] = "completed"
        BY <3>1 DEF LifecycleInv, LockInv, AttemptInv, AnsweredInv
      <3>3. ~(pc[p] = "link" /\ job[q] = job[p])
        BY <3>2 DEF WorkerInv, ProcInv
      <3> QED
        BY <1>2, <3>1, <3>2, <3>3, StaysOver
    <2> QED
      BY <2>1, <2>2
  <1>5. ASSUME NEW e \in Exec, attempt'[e] = "interrupted"
        PROVE  owner'[e] = NoProc \/ row'[e] = "completed"
    <2>1. CASE pc[p] = "link" /\ e = job[p]
      <3>1. attempt[e] = "interrupted"
        BY <1>5, <2>1 DEF AttemptFrame
      <3>2. row[e] = "running" /\ role[p] = "entry" /\ lock[e] = p
        BY <2>1 DEF WorkerInv, ProcInv, Locked
      <3>3. owner[e] = NoProc
        BY <3>1, <3>2 DEF AttemptInv, RunningIsNotAbandoned
      <3> QED
        BY <1>5, <2>1, <3>3, RosterAssumption DEF AttemptFrame
    <2>2. CASE ~(pc[p] = "link" /\ e = job[p]) /\ attempt[e] = "interrupted"
      BY <2>2, StaysOver DEF AttemptInv, RunningIsNotAbandoned
    <2>3. CASE ~(pc[p] = "link" /\ e = job[p]) /\ attempt[e] # "interrupted"
      <3>1. e = job[p] /\ pc[p] \in {"audit_running", "audit_failed", "audit_end", "recover"}
        BY <1>5, <2>3 DEF AttemptFrame
      <3>2. CASE pc[p] = "recover"
        BY <2>3, <3>1, <3>2, StaysOver DEF AttemptInv, AnsweredInv
      <3>3. CASE pc[p] # "recover"
        <4>1. lock[e] = p /\ pc[p] \notin Attempting
          BY <3>1, <3>3 DEF WorkerInv, ProcInv, Locked, Attempting, Driving
        <4>2. owner[e] = NoProc
          BY <4>1, OwnerHoldsLock DEF WorkerInv
        <4> QED
          BY <2>3, <4>2, StaysOver
      <3> QED
        BY <3>2, <3>3
    <2> QED
      BY <2>1, <2>2, <2>3
  <1> QED
    BY <1>1, <1>2, <1>3, <1>4, <1>5 DEF AttemptInv, AnsweredInv, RunningIsNotAbandoned,
       Driving

-----------------------------------------------------------------------------
(* The actions.                                                            *)

\* Asking for a lock, looking, leaving and dying.
LEMMA StepTakesTurns ==
  ASSUME NEW p \in Proc, WorkerInv(p),
         TakeLock(p) \/ Recheck(p) \/ Enter(p) \/ Answer(p) \/ Check(p) \/ Crash(p)
  PROVE  AttemptFrame(p) /\ OwnKept(p)
  <1>1. CASE TakeLock(p)
    <2>1. AttemptFrame(p)
      BY <1>1, RosterAssumption DEF TakeLock, Goto, Exit, Leave, Freed, WorkerInv,
         AttemptFrame, TypeOK, ProcInv, Locked, Driving
    <2>2. OwnKept(p)
      BY <1>1, RosterAssumption DEF TakeLock, Goto, Exit, Leave, Freed, WorkerInv,
         OwnKept, TypeOK, ProcInv, Attempting, Driving
    <2> QED
      BY <2>1, <2>2
  <1>2. CASE Recheck(p)
    <2>1. /\ owner' = owner \/ owner' = Freed(owner, p)
          /\ attempt' = attempt /\ row' = row /\ result' = result
          /\ Goto(p, "prepare") \/ Goto(p, "enter") \/ Goto(p, "recover") \/ Leave(p)
      BY <1>2, Zenon DEF Recheck, Exit
    <2>2. AttemptFrame(p)
      BY <2>1 DEF Goto, Leave, Freed, AttemptFrame, WorkerInv, TypeOK
    <2>3. OwnKept(p)
      <3>1. \A d \in Exec : owner'[d] # p
        BY <1>2, <2>1, RosterAssumption
        DEF Recheck, WorkerInv, TypeOK, Freed, Attempting, Driving
      <3>2. CASE Goto(p, "recover")
        <4>1. Reusable(job[p])
          BY <1>2, <3>2 DEF Recheck, Goto, Exit, Leave, WorkerInv, TypeOK
        <4> QED
          BY <2>1, <3>1, <3>2, <4>1 DEF Goto, OwnKept, WorkerInv, TypeOK, Reusable, Driving
      <3>3. CASE Goto(p, "prepare") \/ Goto(p, "enter")
        <4>1. role[p] = "entry" => row[job[p]] = "pending"
          BY <1>2, <3>3 DEF Recheck, Goto, Exit, Leave, MayRun, WorkerInv, TypeOK
        <4> QED
          BY <2>1, <3>1, <3>3, <4>1 DEF Goto, OwnKept, WorkerInv, TypeOK, Driving
      <3>4. CASE Leave(p)
        BY <2>1, <3>1, <3>4 DEF Leave, OwnKept, WorkerInv, TypeOK, Driving
      <3> QED
        BY <2>1, <3>2, <3>3, <3>4
    <2> QED
      BY <2>2, <2>3
  <1>3. CASE Enter(p)
    <2>1. AttemptFrame(p)
      BY <1>3, RosterAssumption DEF Enter, Goto, Exit, Leave, Freed, WorkerInv,
         AttemptFrame, TypeOK, ProcInv, Locked, Driving
    <2>2. OwnKept(p)
      BY <1>3, RosterAssumption DEF Enter, Goto, Exit, Leave, Freed, WorkerInv, OwnKept,
         TypeOK, ProcInv, Attempting, Driving
    <2> QED
      BY <2>1, <2>2
  <1>4. CASE Answer(p)
    <2>1. AttemptFrame(p)
      BY <1>4, RosterAssumption DEF Answer, Goto, WorkerInv, AttemptFrame, TypeOK,
         ProcInv, Locked, Driving
    <2>2. OwnKept(p)
      BY <1>4, RosterAssumption DEF Answer, Goto, WorkerInv, OwnKept, TypeOK, ProcInv,
         Attempting, Driving
    <2> QED
      BY <2>1, <2>2
  <1>5. CASE Check(p)
    <2>1. AttemptFrame(p)
      BY <1>5, RosterAssumption DEF Check, Goto, Exit, Leave, Freed, WorkerInv,
         AttemptFrame, TypeOK, ProcInv, Locked, Driving
    <2>2. OwnKept(p)
      BY <1>5, RosterAssumption DEF Check, Goto, Exit, Leave, Freed, WorkerInv, OwnKept,
         TypeOK, ProcInv, Attempting, Driving
    <2> QED
      BY <2>1, <2>2
  <1>6. CASE Crash(p)
    <2>1. AttemptFrame(p)
      BY <1>6, RosterAssumption DEF Crash, Exit, Leave, Freed, WorkerInv, AttemptFrame,
         TypeOK, ProcInv, Locked, Driving
    <2>2. OwnKept(p)
      BY <1>6, RosterAssumption DEF Crash, Exit, Leave, Freed, WorkerInv, OwnKept,
         TypeOK, ProcInv, Attempting, Driving
    <2> QED
      BY <2>1, <2>2
  <1> QED
    BY <1>1, <1>2, <1>3, <1>4, <1>5, <1>6

\* The entry's own steps.
LEMMA EntryKeepsAttempts ==
  ASSUME NEW p \in Proc, WorkerInv(p),
         Prepare(p) \/ Link(p) \/ Finalize(p) \/ EntryPublic(p) \/ EntryText(p) \/ EntryEnd(p)
  PROVE  AttemptFrame(p) /\ OwnKept(p)
  <1>1. CASE Prepare(p)
    <2>1. AttemptFrame(p)
      BY <1>1, RosterAssumption DEF Prepare, Goto, Record, WorkerInv, AttemptFrame,
         TypeOK, ProcInv, Locked, Driving
    <2>2. OwnKept(p)
      BY <1>1, RosterAssumption DEF Prepare, Goto, Record, WorkerInv, OwnKept, TypeOK,
         ProcInv, Attempting, Driving
    <2> QED
      BY <2>1, <2>2
  <1>2. CASE Link(p)
    <2>1. AttemptFrame(p)
      BY <1>2, RosterAssumption DEF Link, Goto, WorkerInv, AttemptFrame, TypeOK,
         ProcInv, Locked, Driving
    <2>2. OwnKept(p)
      BY <1>2, RosterAssumption DEF Link, Goto, WorkerInv, OwnKept, TypeOK, ProcInv,
         Attempting, Driving
    <2> QED
      BY <2>1, <2>2
  <1>3. CASE Finalize(p)
    <2>1. AttemptFrame(p)
      BY <1>3, RosterAssumption DEF Finalize, Goto, WorkerInv, AttemptFrame, TypeOK,
         ProcInv, Locked, Driving
    <2>2. OwnKept(p)
      BY <1>3, RosterAssumption DEF Finalize, Goto, WorkerInv, OwnKept, TypeOK, ProcInv,
         Attempting, Driving
    <2> QED
      BY <2>1, <2>2
  <1>4. CASE EntryPublic(p)
    <2>1. AttemptFrame(p)
      BY <1>4, RosterAssumption DEF EntryPublic, Goto, WorkerInv, AttemptFrame, TypeOK,
         ProcInv, Locked, Driving
    <2>2. OwnKept(p)
      BY <1>4, RosterAssumption DEF EntryPublic, Goto, WorkerInv, OwnKept, TypeOK,
         ProcInv, Attempting, Driving
    <2> QED
      BY <2>1, <2>2
  <1>5. CASE EntryText(p)
    <2>1. AttemptFrame(p)
      BY <1>5, RosterAssumption DEF EntryText, Goto, WorkerInv, AttemptFrame, TypeOK,
         ProcInv, Locked, Driving
    <2>2. OwnKept(p)
      BY <1>5, RosterAssumption DEF EntryText, Goto, WorkerInv, OwnKept, TypeOK,
         ProcInv, Attempting, Driving
    <2> QED
      BY <2>1, <2>2
  <1>6. CASE EntryEnd(p)
    <2>1. AttemptFrame(p)
      BY <1>6, RosterAssumption DEF EntryEnd, Record, Exit, Leave, Freed, WorkerInv,
         AttemptFrame, TypeOK, ProcInv, Locked, Driving
    <2>2. OwnKept(p)
      BY <1>6, RosterAssumption DEF EntryEnd, Record, Exit, Leave, Freed, WorkerInv,
         OwnKept, TypeOK, ProcInv, Attempting, Driving
    <2> QED
      BY <2>1, <2>2
  <1> QED
    BY <1>1, <1>2, <1>3, <1>4, <1>5, <1>6

\* Driving the work and recording its outcome.
LEMMA DrivingKeepsAttempts ==
  ASSUME NEW p \in Proc, WorkerInv(p),
         Start(p) \/ Drive(p) \/ Approve(p) \/ Fail(p) \/ Return(p) \/ Report(p)
  PROVE  AttemptFrame(p) /\ OwnKept(p)
  <1>1. CASE Start(p)
    <2>1. AttemptFrame(p)
      BY <1>1, RosterAssumption DEF Start, Goto, Record, WorkerInv, AttemptFrame,
         TypeOK, ProcInv, Locked, Driving
    <2>2. OwnKept(p)
      BY <1>1, RosterAssumption DEF Start, Goto, Record, WorkerInv, OwnKept, TypeOK,
         ProcInv, Attempting, Driving
    <2> QED
      BY <2>1, <2>2
  <1>2. CASE Drive(p)
    <2>1. /\ owner' = owner /\ attempt' = attempt /\ row' = row /\ result' = result
          /\ Goto(p, "return") \/ UNCHANGED procs
      <3>1. graph[job[p]] \in {"none", "working", "done"}
        BY <1>2 DEF Drive, WorkerInv, ProcInv, TypeOK
      <3> QED
        BY <1>2, <3>1 DEF Drive, WorkerInv
    <2>2. AttemptFrame(p)
      BY <2>1 DEF Goto, AttemptFrame, WorkerInv, TypeOK
    <2>3. OwnKept(p)
      BY <1>2, <2>1 DEF Drive, Goto, OwnKept, WorkerInv, TypeOK, Attempting, Driving
    <2> QED
      BY <2>2, <2>3
  <1>3. CASE Approve(p)
    <2>1. AttemptFrame(p)
      BY <1>3, RosterAssumption DEF Approve, Goto, WorkerInv, AttemptFrame, TypeOK,
         ProcInv, Locked, Driving
    <2>2. OwnKept(p)
      BY <1>3, RosterAssumption DEF Approve, Goto, WorkerInv, OwnKept, TypeOK, ProcInv,
         Attempting, Driving
    <2> QED
      BY <2>1, <2>2
  <1>4. CASE Fail(p)
    <2>1. AttemptFrame(p)
      BY <1>4, RosterAssumption DEF Fail, Goto, Record, Exit, Leave, Freed, WorkerInv,
         AttemptFrame, TypeOK, ProcInv, Locked, Driving
    <2>2. OwnKept(p)
      BY <1>4, RosterAssumption DEF Fail, Goto, Record, Exit, Leave, Freed, WorkerInv,
         OwnKept, TypeOK, ProcInv, Attempting, Driving
    <2> QED
      BY <2>1, <2>2
  <1>5. CASE Return(p)
    <2>1. AttemptFrame(p)
      BY <1>5, RosterAssumption DEF Return, Goto, Record, RecordOutcome, Outcome, Exit,
         Leave, Freed, WorkerInv, AttemptFrame, TypeOK, ProcInv, Locked, Driving
    <2>2. OwnKept(p)
      BY <1>5, RosterAssumption DEF Return, Goto, Record, RecordOutcome, Outcome, Exit,
         Leave, Freed, WorkerInv, OwnKept, TypeOK, ProcInv, Attempting, Driving
    <2> QED
      BY <2>1, <2>2
  <1>6. CASE Report(p)
    <2>1. AttemptFrame(p)
      BY <1>6, RosterAssumption DEF Report, Goto, Record, RecordOutcome, Outcome,
         WorkerInv, AttemptFrame, TypeOK, ProcInv, Locked, Driving
    <2>2. OwnKept(p)
      BY <1>6, RosterAssumption DEF Report, Goto, Record, RecordOutcome, Outcome,
         WorkerInv, OwnKept, TypeOK, ProcInv, Attempting, Driving
    <2> QED
      BY <2>1, <2>2
  <1> QED
    BY <1>1, <1>2, <1>3, <1>4, <1>5, <1>6

\* Resume's records and answers.
LEMMA AnsweringKeepsAttempts ==
  ASSUME NEW p \in Proc, WorkerInv(p),
         AuditRunning(p) \/ AuditFailed(p) \/ AuditEnd(p) \/ PublicRead(p) \/ PublicSave(p) \/ TextSave(p)
  PROVE  AttemptFrame(p) /\ OwnKept(p)
  <1>1. CASE AuditRunning(p)
    <2>1. AttemptFrame(p)
      BY <1>1, RosterAssumption DEF AuditRunning, Goto, RecordRecovery, Reconciled,
         WorkerInv, AttemptFrame, TypeOK, ProcInv, Locked, Driving
    <2>2. OwnKept(p)
      BY <1>1, RosterAssumption DEF AuditRunning, Goto, RecordRecovery, Reconciled,
         WorkerInv, OwnKept, TypeOK, ProcInv, Attempting, Driving
    <2> QED
      BY <2>1, <2>2
  <1>2. CASE AuditFailed(p)
    <2>1. AttemptFrame(p)
      BY <1>2, RosterAssumption DEF AuditFailed, RecordRecovery, Reconciled, Leave,
         Freed, WorkerInv, AttemptFrame, TypeOK, ProcInv, Locked, Driving
    <2>2. OwnKept(p)
      BY <1>2, RosterAssumption DEF AuditFailed, RecordRecovery, Reconciled, Leave,
         Freed, WorkerInv, OwnKept, TypeOK, ProcInv, Attempting, Driving
    <2> QED
      BY <2>1, <2>2
  <1>3. CASE AuditEnd(p)
    <2>1. AttemptFrame(p)
      BY <1>3, RosterAssumption DEF AuditEnd, Goto, RecordRecovery, Reconciled, Leave,
         Freed, WorkerInv, AttemptFrame, TypeOK, ProcInv, Locked, Driving
    <2>2. OwnKept(p)
      BY <1>3, RosterAssumption DEF AuditEnd, Goto, RecordRecovery, Reconciled, Leave,
         Freed, WorkerInv, OwnKept, TypeOK, ProcInv, Attempting, Driving
    <2> QED
      BY <2>1, <2>2
  <1>4. CASE PublicRead(p)
    <2>1. AttemptFrame(p)
      BY <1>4, RosterAssumption DEF PublicRead, Goto, Exit, Leave, Freed, WorkerInv,
         AttemptFrame, TypeOK, ProcInv, Locked, Driving
    <2>2. OwnKept(p)
      BY <1>4, RosterAssumption DEF PublicRead, Goto, Exit, Leave, Freed, WorkerInv,
         OwnKept, TypeOK, ProcInv, Attempting, Driving
    <2> QED
      BY <2>1, <2>2
  <1>5. CASE PublicSave(p)
    <2>1. AttemptFrame(p)
      BY <1>5, RosterAssumption DEF PublicSave, Goto, WorkerInv, AttemptFrame, TypeOK,
         ProcInv, Locked, Driving
    <2>2. OwnKept(p)
      BY <1>5, RosterAssumption DEF PublicSave, Goto, WorkerInv, OwnKept, TypeOK,
         ProcInv, Attempting, Driving
    <2> QED
      BY <2>1, <2>2
  <1>6. CASE TextSave(p)
    <2>1. AttemptFrame(p)
      BY <1>6, RosterAssumption DEF TextSave, Exit, Leave, Freed, WorkerInv,
         AttemptFrame, TypeOK, ProcInv, Locked, Driving
    <2>2. OwnKept(p)
      BY <1>6, RosterAssumption DEF TextSave, Exit, Leave, Freed, WorkerInv, OwnKept,
         TypeOK, ProcInv, Attempting, Driving
    <2> QED
      BY <2>1, <2>2
  <1> QED
    BY <1>1, <1>2, <1>3, <1>4, <1>5, <1>6

\* A caller that reads a row has no execution in hand yet.
LEMMA ReadKeepsAttempts ==
  ASSUME LifecycleInv, AttemptInv, NEW p \in Proc, NEW r \in Role, NEW e \in Exec,
         Read(p, r, e)
  PROVE  AttemptInv'
  <1>1. /\ TypeOK /\ pc[p] = "idle" /\ result' = result /\ attempt' = attempt
        /\ owner' = owner
        /\ row' = [row EXCEPT ![e] = IF row[e] = "none" THEN "pending" ELSE row[e]]
        /\ pc' = [pc EXCEPT ![p] = IF r = "resume" /\ Reusable(e) THEN "recover" ELSE "lock"]
        /\ job' = [job EXCEPT ![p] = e] /\ role' = [role EXCEPT ![p] = r]
    BY DEF Read, Record, LifecycleInv
  <1>2. OwnerInv'
    BY <1>1 DEF AttemptInv, OwnerInv, TypeOK, Attempting, Driving
  <1>3. AnsweredInv'
    <2>1. ASSUME NEW d \in Exec
          PROVE  /\ result'[d] # "none" => row'[d] \notin {"none", "pending"}
                 /\ row[d] = "completed" => row'[d] = "completed"
      BY <1>1 DEF AttemptInv, AnsweredInv, TypeOK
    <2>2. ASSUME NEW q \in Proc \ {p}
          PROVE  /\ /\ role'[q] = "entry"
                    /\ pc'[q] \in Driving \cup {"prepare", "link", "enter", "turned_away"}
                    => result'[job'[q]] = "none"
                 /\ pc'[q] = "recover" =>
                      /\ result'[job'[q]] # "none"
                      /\ owner'[job'[q]] = NoProc \/ row'[job'[q]] = "completed"
      BY <1>1, <2>1 DEF AttemptInv, AnsweredInv, TypeOK, LifecycleInv, LockInv
    <2>3. /\ pc'[p] \notin Driving \cup {"prepare", "link", "enter", "turned_away"}
          /\ pc'[p] = "recover" => result'[job'[p]] # "none" /\ row'[job'[p]] = "completed"
      BY <1>1 DEF TypeOK, Reusable, Driving
    <2> QED
      BY <2>1, <2>2, <2>3 DEF AnsweredInv, Driving
  <1>4. RunningIsNotAbandoned'
    BY <1>1 DEF AttemptInv, RunningIsNotAbandoned, TypeOK
  <1> QED
    BY <1>2, <1>3, <1>4 DEF AttemptInv

\* Everybody keeps to the frame.
LEMMA WorkKeepsFrame ==
  ASSUME LifecycleInv, AttemptInv, NEW p \in Proc, Work(p) \/ Crash(p)
  PROVE  WorkerInv(p) /\ AttemptFrame(p) /\ OwnKept(p)
  <1>1. pc[p] # "idle"
    BY DEF Work, Crash, TakeLock, Recheck, Prepare, Link, Enter, Answer, Check,
       AuditRunning, Start, Drive, Approve, Fail, AuditFailed, Return, Report, AuditEnd,
       PublicRead, PublicSave, TextSave, Finalize, EntryPublic, EntryText, EntryEnd
  <1>2. WorkerInv(p)
    BY <1>1, Worker
  <1> QED
    BY <1>2, StepTakesTurns, EntryKeepsAttempts, DrivingKeepsAttempts,
       AnsweringKeepsAttempts DEF Work

LEMMA StepKeepsAttempts == LifecycleInv /\ AttemptInv /\ [Next]_vars => AttemptInv'
  <1> SUFFICES ASSUME LifecycleInv, AttemptInv, [Next]_vars PROVE AttemptInv'
    OBVIOUS
  <1>1. CASE UNCHANGED vars \/ Decide
    <2>1. UNCHANGED <<row, result, attempt, owner, pc, role, job>>
      BY <1>1 DEF vars, Decide
    <2> QED
      BY <2>1 DEF AttemptInv, OwnerInv, AnsweredInv, RunningIsNotAbandoned, Attempting, Driving
  <1>2. ASSUME NEW p \in Proc, NEW r \in Role, NEW e \in Exec, Read(p, r, e)
        PROVE  AttemptInv'
    BY <1>2, ReadKeepsAttempts
  <1>3. ASSUME NEW p \in Proc, Work(p) \/ Crash(p)
        PROVE  AttemptInv'
    BY <1>3, WorkKeepsFrame, StepKeepsAttemptsIf
  <1> QED
    BY <1>1, <1>2, <1>3 DEF Next

\* Whose attempts are whose, and what has been recorded, in every reachable state.
THEOREM AttemptInvHolds == Spec => []AttemptInv
  <1>1. Init => AttemptInv
    BY RosterAssumption DEF Init, AttemptInv, OwnerInv, AnsweredInv, RunningIsNotAbandoned, Driving
  <1> QED
    BY <1>1, StepKeepsAttempts, LifecycleInvariance, PTL DEF Spec

\* record_execution_attempt_recovery marks nobody's running work: an attempt that is
\* interrupted has no live process, or its execution has completed.
THEOREM RunningIsNeverAbandoned == Spec => []RunningIsNotAbandoned
  <1>1. AttemptInv => RunningIsNotAbandoned
    BY DEF AttemptInv
  <1> QED
    BY <1>1, AttemptInvHolds, PTL

-----------------------------------------------------------------------------
(* What an entry has recorded when it goes on to its answer.               *)

Answered == {"finalize_ok", "entry_public", "entry_text", "entry_ok"}

\* Who goes on to an answer has recorded its outcome, or had none to record.
LEMMA EntryHasRecorded ==
  ASSUME NEW p \in Proc, WorkerInv(p), EntryInv, Work(p) \/ Crash(p), pc'[p] \in Answered
  PROVE  result'[job'[p]] = "none" \/ row'[job'[p]] \in {"interrupted", "completed"}
  <1>1. CASE Answer(p)
    BY <1>1 DEF Answer, Goto, WorkerInv, TypeOK
  <1>2. CASE Return(p)
    BY <1>2 DEF Return, Goto, RecordOutcome, Record, Outcome, Exit, Leave, WorkerInv, TypeOK,
       Answered
  <1>3. CASE Finalize(p) \/ EntryPublic(p) \/ EntryText(p)
    <2>1. /\ pc[p] \in Answered /\ UNCHANGED <<row, result, job>>
      BY <1>3 DEF Finalize, EntryPublic, EntryText, Goto, WorkerInv, TypeOK, Answered
    <2> QED
      BY <2>1 DEF EntryInv, Answered
  <1>4. CASE \/ TakeLock(p) \/ Recheck(p) \/ Prepare(p) \/ Link(p) \/ Enter(p) \/ Check(p)
             \/ AuditRunning(p) \/ Start(p)
    BY <1>4 DEF TakeLock, Recheck, Prepare, Link, Enter, Check, AuditRunning, Start, Goto,
       Exit, Leave, WorkerInv, TypeOK, Answered
  <1>5. CASE Drive(p)
    <2>1. graph[job[p]] \in {"none", "working", "done"} /\ pc[p] = "drive"
      BY <1>5 DEF Drive, WorkerInv, ProcInv, TypeOK
    <2>2. Goto(p, "return") \/ UNCHANGED procs
      BY <1>5, <2>1 DEF Drive, WorkerInv
    <2> QED
      BY <2>1, <2>2 DEF Goto, WorkerInv, TypeOK, Answered
  <1>6. CASE \/ Approve(p) \/ Fail(p) \/ AuditFailed(p) \/ Report(p) \/ AuditEnd(p)
    BY <1>6 DEF Approve, Fail, AuditFailed, Report, AuditEnd, Goto, Exit, Leave, WorkerInv,
       TypeOK, Answered
  <1>7. CASE \/ PublicRead(p) \/ PublicSave(p) \/ TextSave(p) \/ EntryEnd(p) \/ Crash(p)
    BY <1>7 DEF PublicRead, PublicSave, TextSave, EntryEnd, Crash, Goto, Exit, Leave,
       WorkerInv, TypeOK, Answered
  <1> QED
    BY <1>1, <1>2, <1>3, <1>4, <1>5, <1>6, <1>7 DEF Work

LEMMA StepKeepsEntries ==
  LifecycleInv /\ AttemptInv /\ EntryInv /\ [Next]_vars => EntryInv'
  <1> SUFFICES ASSUME LifecycleInv, AttemptInv, EntryInv, [Next]_vars,
                      NEW q \in Proc, pc'[q] \in Answered
               PROVE  result'[job'[q]] = "none" \/ row'[job'[q]] \in {"interrupted", "completed"}
    BY DEF EntryInv, Answered
  <1>1. CASE UNCHANGED vars \/ Decide
    BY <1>1 DEF vars, Decide, EntryInv, Answered
  <1>2. ASSUME NEW d \in Exec, pc[q] \in Answered, job[q] = d,
               row'[d] = row[d] \/ (row[d] = "none" /\ row'[d] = "pending"),
               result'[d] = result[d]
        PROVE  result'[d] = "none" \/ row'[d] \in {"interrupted", "completed"}
    BY <1>2 DEF EntryInv, AttemptInv, AnsweredInv, Answered
  <1>3. pc[q] \in Answered => job[q] \in Exec /\ lock[job[q]] = q
    BY DEF LifecycleInv, LockInv, Answered, Locked
  <1>4. ASSUME NEW p \in Proc, NEW r \in Role, NEW e \in Exec, Read(p, r, e)
        PROVE  result'[job'[q]] = "none" \/ row'[job'[q]] \in {"interrupted", "completed"}
    <2>1. /\ TypeOK /\ result' = result
          /\ \A d \in Exec : row'[d] = row[d] \/ (row[d] = "none" /\ row'[d] = "pending")
          /\ pc' = [pc EXCEPT ![p] = IF r = "resume" /\ Reusable(e) THEN "recover" ELSE "lock"]
          /\ job' = [job EXCEPT ![p] = e]
      BY <1>4 DEF Read, Record, LifecycleInv, TypeOK
    <2>2. q # p /\ pc[q] \in Answered /\ job'[q] = job[q]
      BY <2>1 DEF TypeOK, Answered
    <2> QED
      BY <1>2, <1>3, <2>1, <2>2
  <1>5. ASSUME NEW p \in Proc, Work(p) \/ Crash(p)
        PROVE  result'[job'[q]] = "none" \/ row'[job'[q]] \in {"interrupted", "completed"}
    <2>1. WorkerInv(p) /\ AttemptFrame(p)
      BY <1>5, WorkKeepsFrame
    <2>2. CASE q = p
      BY <1>5, <2>1, <2>2, EntryHasRecorded
    <2>3. CASE q # p
      <3>1. pc[q] \in Answered /\ job'[q] = job[q] /\ lock[job[q]] # p /\ job[q] \in Exec
        BY <1>3, <2>1, <2>3 DEF AttemptFrame
      <3>2. /\ row'[job[q]] = row[job[q]] \/ (row[job[q]] = "none" /\ row'[job[q]] = "pending")
            /\ result'[job[q]] = result[job[q]]
        BY <2>1, <3>1 DEF AttemptFrame
      <3> QED
        BY <1>2, <3>1, <3>2
    <2> QED
      BY <2>2, <2>3
  <1> QED
    BY <1>1, <1>4, <1>5 DEF Next

-----------------------------------------------------------------------------
(* The refinement: who drives what, as DrivenWork sees it.                 *)

Closed == [e \in Exec |-> Reusable(e)]

\* A step of p moves nobody else.
Alone(p) == \A q \in Proc \ {p} : pc'[q] = pc[q] /\ job'[q] = job[q]

LEMMA OneAtWork ==
  ASSUME LifecycleInv, NEW p \in Proc, wlock \in {p, NoProc}
  PROVE  \A q \in Proc \ {p} : pc[q] \notin Driving
  BY RosterAssumption DEF LifecycleInv, LockInv, Driving

LEMMA DriverAlone ==
  ASSUME LifecycleInv, NEW p \in Proc, pc[p] \in Driving
  PROVE  Drivers = {<<p, job[p]>>} /\ wlock = p
  <1>1. wlock = p
    BY DEF LifecycleInv, LockInv
  <1>2. {q \in Proc : pc[q] \in Driving} = {p}
    BY <1>1, OneAtWork
  <1> QED
    BY <1>1, <1>2 DEF Drivers

\* A step that neither takes nor leaves the work.
LEMMA DriversKept ==
  ASSUME NEW p \in Proc, Alone(p), pc[p] \in Driving <=> pc'[p] \in Driving,
         pc[p] \in Driving => job'[p] = job[p]
  PROVE  Drivers' = Drivers
  <1>1. {q \in Proc : pc'[q] \in Driving} = {q \in Proc : pc[q] \in Driving}
    BY DEF Alone
  <1>2. \A q \in Proc : pc[q] \in Driving => job'[q] = job[q]
    BY DEF Alone
  <1>3. Drivers' = {<<q, job'[q]>> : q \in {q \in Proc : pc'[q] \in Driving}}
    BY DEF Drivers, Driving
  <1> QED
    BY <1>1, <1>2, <1>3 DEF Drivers

LEMMA DriverLeaves ==
  ASSUME LifecycleInv, NEW p \in Proc, Alone(p), pc[p] \in Driving, pc'[p] \notin Driving
  PROVE  Drivers' = {}
  <1>1. \A q \in Proc : pc'[q] \notin Driving
    BY DriverAlone, OneAtWork DEF Alone
  <1> QED
    BY <1>1 DEF Drivers, Driving

LEMMA DriverTakes ==
  ASSUME LifecycleInv, NEW p \in Proc, Alone(p), wlock \in {p, NoProc},
         pc[p] \notin Driving, pc'[p] \in Driving
  PROVE  Drivers = {} /\ Drivers' = {<<p, job'[p]>>}
  <1>1. \A q \in Proc \ {p} : pc[q] \notin Driving /\ pc'[q] \notin Driving
    BY OneAtWork DEF Alone
  <1>2. {q \in Proc : pc'[q] \in Driving} = {p}
    BY <1>1
  <1>3. {q \in Proc : pc[q] \in Driving} = {}
    BY <1>1
  <1>4. Drivers' = {<<q, job'[q]>> : q \in {q \in Proc : pc'[q] \in Driving}}
    BY DEF Drivers, Driving
  <1> QED
    BY <1>2, <1>3, <1>4 DEF Drivers

\* Who drives an execution holds its lock, and so is alone with it.
LEMMA DrivenByHolder ==
  ASSUME LifecycleInv, NEW e \in Exec
  PROVE  /\ Promise!Driven(e) => lock[e] # NoProc
         /\ \A p \in Proc : lock[e] = p /\ pc[p] \notin Driving => ~Promise!Driven(e)
         /\ \A p \in Proc : pc[p] \in Driving /\ job[p] = e => Promise!Driven(e)
  <1>1. \A q \in Proc : <<q, e>> \in Drivers <=> pc[q] \in Driving /\ job[q] = e
    BY DEF Drivers
  <1>2. \A q \in Proc : pc[q] \in Driving => lock[job[q]] = q
    BY DEF LifecycleInv, LockInv, Locked
  <1> QED
    BY <1>1, <1>2, RosterAssumption DEF Promise!Driven

\* A step that moves nothing the abstract view shows.
LEMMA ViewStays ==
  ASSUME Drivers' = Drivers, Closed' = Closed, UNCHANGED <<approved, graph, result>>
  PROVE  UNCHANGED Promise!vars
  BY DEF Promise!vars, Closed

\* The row may move on while it does not become or cease to be a completed one.
LEMMA ClosedKept ==
  ASSUME result' = result,
         \A e \in Exec : row'[e] = row[e] \/ (~Reusable(e) /\ row'[e] # "completed")
  PROVE  Closed' = Closed
  BY DEF Closed, Reusable

\* Taking a lock, looking, answering: nothing that concerns the work.
LEMMA LookingIsQuiet ==
  ASSUME NEW p \in Proc, WorkerInv(p), Alone(p),
         \/ TakeLock(p) \/ Recheck(p) \/ Link(p) \/ Answer(p) \/ Check(p) \/ AuditFailed(p)
         \/ AuditEnd(p) \/ PublicRead(p) \/ PublicSave(p) \/ TextSave(p) \/ Finalize(p)
         \/ EntryPublic(p) \/ EntryText(p)
  PROVE  UNCHANGED Promise!vars
  <1>1. UNCHANGED <<row, result, graph, approved>>
    BY DEF TakeLock, Recheck, Link, Answer, Check, AuditFailed, AuditEnd, PublicRead,
       PublicSave, TextSave, Finalize, EntryPublic, EntryText
  <1>2. pc[p] \notin Driving /\ pc'[p] \notin Driving
    <2>1. CASE TakeLock(p) \/ Recheck(p) \/ Link(p) \/ Answer(p) \/ Check(p) \/ AuditFailed(p)
      BY <2>1 DEF TakeLock, Recheck, Link, Answer, Check, AuditFailed, Goto, Exit, Leave,
         WorkerInv, TypeOK, Driving
    <2>2. CASE AuditEnd(p) \/ PublicRead(p) \/ PublicSave(p) \/ TextSave(p)
      BY <2>2 DEF AuditEnd, PublicRead, PublicSave, TextSave, Goto, Exit, Leave, WorkerInv,
         TypeOK, Driving
    <2>3. CASE Finalize(p) \/ EntryPublic(p) \/ EntryText(p)
      BY <2>3 DEF Finalize, EntryPublic, EntryText, Goto, WorkerInv, TypeOK, Driving
    <2> QED
      BY <2>1, <2>2, <2>3
  <1>3. Drivers' = Drivers
    BY <1>2, DriversKept
  <1>4. Closed' = Closed
    BY <1>1, ClosedKept
  <1> QED
    BY <1>1, <1>3, <1>4, ViewStays

\* A row that becomes "running", or is inserted, was not completed with a result.
LEMMA MarkingIsQuiet ==
  ASSUME LifecycleInv, NEW p \in Proc, WorkerInv(p), Alone(p), Prepare(p) \/ Start(p)
  PROVE  UNCHANGED Promise!vars
  <1>1. /\ UNCHANGED <<result, graph, approved, job>>
        /\ row' = [row EXCEPT ![job[p]] = "running"]
        /\ pc[p] \in Driving <=> pc'[p] \in Driving
    BY DEF Prepare, Start, Record, Goto, WorkerInv, TypeOK, Driving
  <1>2. ~Reusable(job[p])
    BY DEF Prepare, Start, WorkerInv, ProcInv, MayRun, Reusable, Role
  <1>3. Drivers' = Drivers
    BY <1>1, DriversKept
  <1>4. \A e \in Exec : row'[e] = row[e] \/ (~Reusable(e) /\ row'[e] # "completed")
    BY <1>1, <1>2 DEF WorkerInv, TypeOK
  <1>5. Closed' = Closed
    BY <1>1, <1>4, ClosedKept
  <1> QED
    BY <1>1, <1>3, <1>5, ViewStays

LEMMA ReadingIsQuiet ==
  ASSUME LifecycleInv, NEW p \in Proc, NEW r \in Role, NEW e \in Exec, Read(p, r, e)
  PROVE  UNCHANGED Promise!vars
  <1>1. /\ UNCHANGED <<result, graph, approved>> /\ TypeOK
        /\ row' = [row EXCEPT ![e] = IF row[e] = "none" THEN "pending" ELSE row[e]]
        /\ pc[p] = "idle" /\ pc'[p] \in {"recover", "lock"} /\ Alone(p)
    BY DEF Read, Record, LifecycleInv, TypeOK, Alone
  <1>2. Drivers' = Drivers
    BY <1>1, DriversKept DEF Driving
  <1>3. \A d \in Exec : row'[d] = row[d] \/ (~Reusable(d) /\ row'[d] # "completed")
    BY <1>1 DEF TypeOK, Reusable
  <1>4. Closed' = Closed
    BY <1>1, <1>3, ClosedKept
  <1> QED
    BY <1>1, <1>2, <1>4, ViewStays

\* The work is taken up when the WorkItem lock is, or when resume has looked.
LEMMA TakingIsTake ==
  ASSUME LifecycleInv, NEW p \in Proc, WorkerInv(p), Alone(p), Enter(p) \/ AuditRunning(p)
  PROVE  Promise!Next \/ UNCHANGED Promise!vars
  <1>1. UNCHANGED <<row, result, graph, approved>>
    BY DEF Enter, AuditRunning
  <1>2. Closed' = Closed
    BY <1>1, ClosedKept
  <1>3. pc[p] \in {"enter", "audit_running"}
    BY DEF Enter, AuditRunning
  <1>4. CASE pc'[p] \notin Driving
    <2>1. Drivers' = Drivers
      BY <1>3, <1>4, DriversKept DEF Driving
    <2> QED
      BY <1>1, <1>2, <2>1, ViewStays
  <1>5. CASE pc'[p] \in Driving
    <2>1. wlock \in {p, NoProc} /\ job'[p] = job[p] /\ job[p] \in Exec
      BY <1>5 DEF Enter, AuditRunning, WorkItemFree, Goto, Exit, Leave, WorkerInv, ProcInv,
         TypeOK, Driving
    <2>2. ~Reusable(job[p])
      BY <1>3 DEF WorkerInv, ProcInv, MayRun, Reusable, Role
    <2>3. Drivers = {} /\ Drivers' = {<<p, job[p]>>}
      BY <1>3, <1>5, <2>1, DriverTakes DEF Driving
    <2>4. Promise!Take(p, job[p])
      BY <1>1, <1>2, <2>1, <2>2, <2>3 DEF Promise!Take, Closed
    <2> QED
      BY <2>1, <2>4 DEF Promise!Next
  <1> QED
    BY <1>4, <1>5

\* A driver that dies or fails lets go of the work, and nothing else.
LEMMA LeavingIsLeave ==
  ASSUME LifecycleInv, NEW p \in Proc, WorkerInv(p), Alone(p), Fail(p) \/ Crash(p)
  PROVE  Promise!Next \/ UNCHANGED Promise!vars
  <1>1. /\ UNCHANGED <<result, graph, approved>>
        /\ row' = row \/ (row' = [row EXCEPT ![job[p]] = "failed"] /\ row[job[p]] = "running")
        /\ pc'[p] \notin Driving
    BY DEF Fail, Crash, Record, Goto, Exit, Leave, WorkerInv, ProcInv, TypeOK, Driving
  <1>2. \A e \in Exec : row'[e] = row[e] \/ (~Reusable(e) /\ row'[e] # "completed")
    BY <1>1 DEF WorkerInv, TypeOK, Reusable
  <1>3. Closed' = Closed
    BY <1>1, <1>2, ClosedKept
  <1>4. CASE pc[p] \notin Driving
    <2>1. Drivers' = Drivers
      BY <1>1, <1>4, DriversKept
    <2> QED
      BY <1>1, <1>3, <2>1, ViewStays
  <1>5. CASE pc[p] \in Driving
    <2>1. Drivers = {<<p, job[p]>>} /\ Drivers' = {} /\ job[p] \in Exec
      BY <1>1, <1>5, DriverAlone, DriverLeaves DEF WorkerInv
    <2>2. Promise!Leave(p, job[p])
      BY <1>1, <1>3, <2>1 DEF Promise!Leave, Closed
    <2> QED
      BY <2>1, <2>2 DEF Promise!Next
  <1> QED
    BY <1>4, <1>5

\* The work goes on by a checkpoint, or has none left to do.
LEMMA DrivingIsAdvance ==
  ASSUME LifecycleInv, NEW p \in Proc, WorkerInv(p), Alone(p), Drive(p) \/ Approve(p)
  PROVE  Promise!Next \/ UNCHANGED Promise!vars
  <1> DEFINE e == job[p]
  <1>1. /\ UNCHANGED <<row, result, approved>>
        /\ pc[p] \in Driving /\ e \in Exec
    BY DEF Drive, Approve, WorkerInv, Driving
  <1>2. pc'[p] \in Driving /\ job'[p] = e
    <2>1. CASE Approve(p)
      BY <2>1 DEF Approve, Goto, WorkerInv, TypeOK, Driving
    <2>2. CASE Drive(p)
      <3>1. graph[e] \in {"none", "working", "done"}
        BY <2>2 DEF Drive, WorkerInv, ProcInv, TypeOK
      <3>2. Goto(p, "return") \/ UNCHANGED procs
        BY <2>2, <3>1 DEF Drive, WorkerInv
      <3> QED
        BY <1>1, <3>2 DEF Goto, WorkerInv, TypeOK, Driving
    <2> QED
      BY <2>1, <2>2
  <1>3. Drivers' = Drivers /\ Promise!Driven(e)
    BY <1>1, <1>2, DriversKept, DrivenByHolder
  <1>4. Closed' = Closed
    BY <1>1, ClosedKept
  <1>5. CASE graph' = graph
    BY <1>1, <1>3, <1>4, <1>5, ViewStays
  <1>6. CASE graph' # graph
    <2>1. PICK s \in {"working", "paused", "done"} :
            /\ e \notin Direct
            /\ \/ graph[e] = "none" /\ s = "working"
               \/ graph[e] = "working" /\ s # "working"
               \/ graph[e] = "paused" /\ approved /\ s = "done"
            /\ graph' = [graph EXCEPT ![e] = s]
      <3>1. CASE Approve(p)
        <4>1. graph[e] = "paused" /\ approved /\ graph' = [graph EXCEPT ![e] = "done"]
          BY <3>1 DEF Approve, WorkerInv, ProcInv
        <4>2. e \notin Direct
          BY <1>1, <4>1 DEF LifecycleInv, GraphInv
        <4> QED
          BY <4>1, <4>2
      <3>2. CASE Drive(p)
        <4>0. graph[e] \in {"none", "working", "done"}
          BY <1>1, <3>2 DEF Drive, WorkerInv, ProcInv, TypeOK
        <4>1. graph[e] \in {"none", "working", "done"} /\ e \notin Direct
          BY <1>6, <3>2, <4>0 DEF Drive
        <4>2. \/ graph[e] = "none" /\ graph' = [graph EXCEPT ![e] = "working"]
              \/ /\ graph[e] = "working"
                 /\ \E s \in {"paused", "done"} : graph' = [graph EXCEPT ![e] = s]
          BY <1>6, <3>2, <4>1 DEF Drive
        <4> QED
          BY <4>1, <4>2
      <3> QED
        BY <3>1, <3>2
    <2>2. Promise!Advance(e)
      BY <1>1, <1>3, <1>4, <2>1 DEF Promise!Advance, Closed
    <2> QED
      BY <1>1, <2>2 DEF Promise!Next
  <1> QED
    BY <1>5, <1>6

\* What is recorded is what the graph came to, and closes the execution or not.
LEMMA Recorded ==
  ASSUME NEW p \in Proc, WorkerInv(p), RecordOutcome(job[p])
  PROVE  /\ result' = [result EXCEPT ![job[p]] =
                         IF graph[job[p]] = "paused" THEN "interrupted" ELSE "final"]
         /\ Closed' = [Closed EXCEPT ![job[p]] = graph[job[p]] # "paused"]
  <1>1. /\ result' = [result EXCEPT ![job[p]] =
                         IF graph[job[p]] = "paused" THEN "interrupted" ELSE "final"]
        /\ row' = [row EXCEPT ![job[p]] =
                      IF graph[job[p]] = "paused" THEN "interrupted" ELSE "completed"]
        /\ job[p] \in Exec /\ TypeOK
    BY DEF RecordOutcome, Record, Outcome, WorkerInv
  <1>2. \A e \in Exec : Reusable(e)' =
          IF e = job[p] THEN graph[job[p]] # "paused" ELSE Reusable(e)
    BY <1>1 DEF Reusable, TypeOK
  <1> QED
    BY <1>1, <1>2 DEF Closed

LEMMA ReturningIsReport ==
  ASSUME LifecycleInv, NEW p \in Proc, WorkerInv(p), Alone(p), Return(p) \/ Report(p)
  PROVE  Promise!Next \/ UNCHANGED Promise!vars
  <1> DEFINE e == job[p]
  <1>1. /\ UNCHANGED <<graph, approved>> /\ e \in Exec
        /\ pc[p] \in {"return", "report"}
        /\ e \in Direct \/ graph[e] \in {"paused", "done"}
        /\ lock[e] = p
        /\ pc'[p] \notin Driving
    BY DEF Return, Report, Goto, Exit, Leave, WorkerInv, ProcInv, Locked, TypeOK, Driving
  <1>2. \/ RecordOutcome(e)
        \/ pc[p] = "return" /\ UNCHANGED <<row, result>>
    BY DEF Return, Report
  <1>3. CASE pc[p] = "return" /\ UNCHANGED <<row, result>>
    <2>1. Drivers = {<<p, e>>} /\ Drivers' = {}
      BY <1>1, <1>3, DriverAlone, DriverLeaves DEF Driving
    <2>2. Closed' = Closed
      BY <1>3, ClosedKept
    <2>3. Promise!Leave(p, e)
      BY <1>1, <1>3, <2>1, <2>2 DEF Promise!Leave, Closed
    <2> QED
      BY <1>1, <2>3 DEF Promise!Next
  <1>4. CASE RecordOutcome(e)
    <2>1. /\ result' = [result EXCEPT ![e] = IF graph[e] = "paused" THEN "interrupted" ELSE "final"]
          /\ Closed' = [Closed EXCEPT ![e] = graph[e] # "paused"]
      BY <1>4, Recorded
    <2>2. \/ Promise!Driven(e) /\ Drivers' = {}
          \/ ~Promise!Driven(e) /\ UNCHANGED Drivers
      <3>1. CASE pc[p] = "return"
        BY <1>1, <3>1, DriverLeaves, DrivenByHolder DEF Driving
      <3>2. CASE pc[p] = "report"
        BY <1>1, <3>2, DriversKept, DrivenByHolder DEF Driving
      <3> QED
        BY <1>1, <3>1, <3>2
    <2>3. Promise!Report(e)
      BY <1>1, <2>1, <2>2 DEF Promise!Report, Closed
    <2> QED
      BY <1>1, <2>3 DEF Promise!Next
  <1> QED
    BY <1>2, <1>3, <1>4

\* The last word of an entry leaves an answered execution closed, or opens it.
LEMMA LastWordIsReopen ==
  ASSUME LifecycleInv, EntryInv, NEW p \in Proc, WorkerInv(p), Alone(p), EntryEnd(p)
  PROVE  Promise!Next \/ UNCHANGED Promise!vars
  <1>0. PICK e \in Exec : e = job[p]
    BY DEF WorkerInv
  <1> DEFINE s == CASE row[e] = "interrupted" -> "interrupted"
                    [] row[e] # "interrupted" /\ pc[p] = "entry_ok" -> "completed"
                    [] OTHER -> "failed"
  <1>1. /\ UNCHANGED <<result, graph, approved>> /\ lock[e] = p
        /\ row' = [row EXCEPT ![e] = s] /\ TypeOK
        /\ pc[p] \in {"entry_ok", "entry_failed"} /\ pc'[p] = "idle"
    BY <1>0 DEF EntryEnd, Record, Exit, Leave, WorkerInv, ProcInv, Locked, TypeOK
  <1>2. Drivers' = Drivers /\ ~Promise!Driven(e)
    BY <1>1, DriversKept, DrivenByHolder DEF Driving
  <1>3. CASE Reusable(e)' = Reusable(e)
    <2>1. \A d \in Exec : Reusable(d)' = Reusable(d)
      BY <1>1, <1>3 DEF Reusable, TypeOK
    <2>2. Closed' = Closed
      BY <2>1 DEF Closed
    <2> QED
      BY <1>1, <1>2, <2>2, ViewStays
  <1>4. CASE Reusable(e)' # Reusable(e)
    <2>1. ~Reusable(e)'
      BY <1>0, <1>1, <1>4 DEF Reusable, EntryInv, TypeOK
    <2>2. \A d \in Exec : Reusable(d)' = IF d = e THEN FALSE ELSE Reusable(d)
      BY <1>1, <2>1 DEF Reusable, TypeOK
    <2>3. Closed' = [Closed EXCEPT ![e] = FALSE]
      BY <2>2 DEF Closed
    <2>4. Promise!Reopen(e)
      BY <1>1, <1>2, <2>3 DEF Promise!Reopen, Closed
    <2> QED
      BY <1>1, <2>4 DEF Promise!Next
  <1> QED
    BY <1>3, <1>4

LEMMA StepIsPromised ==
  LifecycleInv /\ AttemptInv /\ EntryInv /\ [Next]_vars => [Promise!Next]_(Promise!vars)
  <1> SUFFICES ASSUME LifecycleInv, AttemptInv, EntryInv, [Next]_vars
               PROVE  Promise!Next \/ UNCHANGED Promise!vars
    OBVIOUS
  <1>1. CASE UNCHANGED vars
    BY <1>1 DEF vars, Promise!vars, Drivers, Reusable
  <1>2. CASE Decide
    <2>1. /\ UNCHANGED <<row, result, graph, pc, job>> /\ approved' = ~approved
      BY <1>2 DEF Decide
    <2>2. Closed' = Closed /\ Drivers' = Drivers
      BY <2>1 DEF Closed, Reusable, Drivers
    <2>3. Promise!Decide
      BY <2>1, <2>2 DEF Promise!Decide, Closed
    <2> QED
      BY <2>3 DEF Promise!Next
  <1>3. ASSUME NEW p \in Proc, NEW r \in Role, NEW e \in Exec, Read(p, r, e)
        PROVE  UNCHANGED Promise!vars
    BY <1>3, ReadingIsQuiet
  <1>4. ASSUME NEW p \in Proc, Work(p) \/ Crash(p)
        PROVE  Promise!Next \/ UNCHANGED Promise!vars
    <2>1. WorkerInv(p) /\ Alone(p)
      BY <1>4, WorkKeepsFrame DEF AttemptFrame, Alone
    <2>2. CASE \/ TakeLock(p) \/ Recheck(p) \/ Link(p) \/ Answer(p) \/ Check(p) \/ AuditFailed(p)
               \/ AuditEnd(p) \/ PublicRead(p) \/ PublicSave(p) \/ TextSave(p) \/ Finalize(p)
               \/ EntryPublic(p) \/ EntryText(p)
      BY <2>1, <2>2, LookingIsQuiet
    <2>3. CASE \/ Prepare(p) \/ Start(p) \/ Enter(p) \/ AuditRunning(p) \/ Fail(p) \/ Crash(p)
               \/ Drive(p) \/ Approve(p) \/ Return(p) \/ Report(p) \/ EntryEnd(p)
      BY <2>1, <2>3, MarkingIsQuiet, TakingIsTake, LeavingIsLeave, DrivingIsAdvance,
         ReturningIsReport, LastWordIsReopen
    <2> QED
      BY <1>4, <2>2, <2>3 DEF Work
  <1> QED
    BY <1>1, <1>2, <1>3, <1>4 DEF Next

\* Crashed, resumed, refused and raced by others, the executions do to the work of the
\* WorkItem what DrivenWork allows and nothing else: run_durable_graph, the direct and
\* CLI runners and resume_graph_execution together keep that promise.
THEOREM LifecycleImplementsDrivenWork == Spec => ImplementsDrivenWork
  <1>1. Init => Promise!Init
    <2> SUFFICES ASSUME Init PROVE Promise!Init
      OBVIOUS
    <2>1. \A e \in Exec : Reusable(e) = FALSE
      BY DEF Init, Reusable
    <2>2. Drivers = {}
      BY DEF Init, Drivers, Driving
    <2> QED
      BY <2>1, <2>2 DEF Init, Promise!Init
  <1>2. Init => EntryInv
    BY DEF Init, EntryInv
  <1> QED
    BY <1>1, <1>2, AttemptInvHolds, StepKeepsEntries, StepIsPromised, LifecycleInvariance,
       PTL DEF Spec, ImplementsDrivenWork, Promise!Spec
=============================================================================
