---------------------------- MODULE DrivenWork ----------------------------
(***************************************************************************)
(* What the lifecycle of executions promises about one WorkItem's work,    *)
(* with no rows, locks, roles, attempts or answers in sight.  The work is  *)
(* in at most one pair of hands.  It goes forward only, and past a pause   *)
(* only while it is approved.  What is reported is what the graph came to. *)
(* An execution whose report is final is closed to drivers, until its own  *)
(* caller says that it failed.  ExecutionLifecycle implements this module. *)
(***************************************************************************)
CONSTANTS Exec,     \* executions
          Direct,   \* those that keep no checkpoints
          Proc      \* operating system processes

VARIABLES approved, \* the authoritative approval of the WorkItem
          drivers,  \* who is driving which execution: at most one pair
          graph,    \* graph[e]: "none", "working", "paused" or "done"
          result,   \* result[e]: "none", "interrupted" or "final"
          closed    \* closed[e]: e has been answered and is not run again

vars == <<approved, drivers, graph, result, closed>>

Init ==
  /\ approved = FALSE
  /\ drivers  = {}
  /\ graph    = [e \in Exec |-> "none"]
  /\ result   = [e \in Exec |-> "none"]
  /\ closed   = [e \in Exec |-> FALSE]

Driven(e) == \E p \in Proc : <<p, e>> \in drivers

\* The operator approves, or takes the approval back.
Decide ==
  /\ approved' = ~approved
  /\ UNCHANGED <<drivers, graph, result, closed>>

Take(p, e) ==
  /\ drivers = {} /\ ~closed[e]
  /\ drivers' = {<<p, e>>}
  /\ UNCHANGED <<approved, graph, result, closed>>

\* The work goes on by a checkpoint.
Advance(e) ==
  /\ Driven(e) /\ e \notin Direct
  /\ \E s \in {"working", "paused", "done"} :
       /\ \/ graph[e] = "none" /\ s = "working"
          \/ graph[e] = "working" /\ s # "working"
          \/ graph[e] = "paused" /\ approved /\ s = "done"
       /\ graph' = [graph EXCEPT ![e] = s]
  /\ UNCHANGED <<approved, drivers, result, closed>>

\* The driver gives up, dies, or has come to an end that is still to be reported.
Leave(p, e) ==
  /\ <<p, e>> \in drivers /\ drivers' = {}
  /\ UNCHANGED <<approved, graph, result, closed>>

\* The outcome of the work is recorded, by its driver or by who drove it last.
Report(e) ==
  /\ e \in Direct \/ graph[e] \in {"paused", "done"}
  /\ result' = [result EXCEPT ![e] = IF graph[e] = "paused" THEN "interrupted" ELSE "final"]
  /\ closed' = [closed EXCEPT ![e] = graph[e] # "paused"]
  /\ \/ Driven(e) /\ drivers' = {}
     \/ ~Driven(e) /\ UNCHANGED drivers
  /\ UNCHANGED <<approved, graph>>

\* The caller of e, to whom it was answered, says that it failed.
Reopen(e) ==
  /\ ~Driven(e)
  /\ closed' = [closed EXCEPT ![e] = FALSE]
  /\ UNCHANGED <<approved, drivers, graph, result>>

Next ==
  \/ Decide
  \/ \E p \in Proc, e \in Exec : Take(p, e) \/ Leave(p, e)
  \/ \E e \in Exec : Advance(e) \/ Report(e) \/ Reopen(e)

Spec == Init /\ [][Next]_vars
=============================================================================
