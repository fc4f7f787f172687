--------------------------- MODULE SignalLifecycle ---------------------------
(***************************************************************************)
(* Triggered RSS and preprint work (tools/signal_lifecycle_tools.py and    *)
(* its use in workflow_runner.py).  A trigger brings a batch of source     *)
(* revisions; the WorkItem that first admits a revision owns it, every     *)
(* other WorkItem is told that it has a duplicate.  The owner's checkpoint *)
(* then goes through four stages, one step of a run at a time.             *)
(*                                                                         *)
(* A run and a single call of the two tools hold the lock of the WorkItem, *)
(* which refuses a second owner; the decision about a batch is made and    *)
(* written under one advisory lock for the database, which makes others    *)
(* wait.  So whoever saves a WorkItem whole saves what is stored.  (A run  *)
(* that makes its WorkItem does not hold the lock yet; nobody else is      *)
(* taken to know the WorkItem before that run has ended.)                  *)
(***************************************************************************)
EXTENDS Naturals, FiniteSets, FiniteSetsExt

CONSTANTS Proc,      \* processes
          Last,      \* the WorkItems are 1 .. Last, in the order of their ids
          Trigger,   \* triggers of one source kind and one dedupe scope
          Source,    \* canonical sources
          Newest,    \* the newest revision of a source; the oldest is 1
          Reported   \* bound: the stages that tool calls report

ASSUME SignalAssumption ==
  /\ Last \in Nat \ {0}
  /\ Newest \in Nat
  /\ Reported \subseteq 1 .. 4

Item == 1 .. Last
Rev == [source : Source, version : 1 .. Newest]

Stages == <<"context_retrieved", "handoff_prepared", "review_completed", "completed">>

VARIABLES trigger,   \* the trigger each WorkItem was made for
          cp,        \* its checkpoint
          artifact,  \* its context artifact is stored
          review,    \* a review that does not block is on record after the handoff
          done,      \* its status is "done"
          owner,     \* the lock of each WorkItem: who holds it
          guard,     \* the admission lock: who holds it
          proc       \* the processes

vars == <<trigger, cp, artifact, review, done, owner, guard, proc>>

-----------------------------------------------------------------------------

Terminal == {"completed", "duplicate_trigger", "no_action"}
Live == {"ready", "partial_failure"}
Owning == Live \cup {"completed"}

\* stages counts the completed ones; canonical names the owners of a duplicate.
Checkpoints ==
  {c \in [status : Live \cup Terminal \cup {"none"}, stages : 0 .. 4,
          admitted : SUBSET Rev, canonical : SUBSET Item] :
     /\ c.status \in Owning <=> c.admitted # {}
     /\ c.status = "completed" <=> c.stages = 4
     /\ c.status = "duplicate_trigger" <=> c.canonical # {}}

NoCheckpoint == [status |-> "none", stages |-> 0, admitted |-> {}, canonical |-> {}]

(***************************************************************************)
(* A process: a run of a WorkItem, or a single call of a tool (run is      *)
(* FALSE).  batch is what it prepares, stage and failed what it advances,  *)
(* out the checkpoint it is about to write; advanced says that its step    *)
(* got on.                                                                 *)
(***************************************************************************)
Idle == [pc |-> "idle", run |-> FALSE, item |-> 1, call |-> "prepare", batch |-> {},
         stage |-> 1, failed |-> FALSE, out |-> NoCheckpoint, advanced |-> FALSE]

Procs == [pc : {"idle", "look", "fetch", "call", "decide", "persist", "prepared",
                "evidence", "finalize", "review"},
          run : BOOLEAN, item : Item, call : {"prepare", "advance"}, batch : SUBSET Rev,
          stage : 1 .. 4, failed : BOOLEAN, out : Checkpoints, advanced : BOOLEAN]

TypeOK ==
  /\ trigger \in [Item -> Trigger]
  /\ cp \in [Item -> Checkpoints]
  /\ artifact \in [Item -> BOOLEAN]
  /\ review \in [Item -> BOOLEAN]
  /\ done \in [Item -> BOOLEAN]
  /\ owner \in [Item -> SUBSET Proc]
  /\ guard \in SUBSET Proc
  /\ proc \in [Proc -> Procs]

Init ==
  /\ trigger \in [Item -> Trigger]
  /\ cp = [i \in Item |-> NoCheckpoint]
  /\ artifact = [i \in Item |-> FALSE]
  /\ review = [i \in Item |-> FALSE]
  /\ done = [i \in Item |-> FALSE]
  /\ owner = [i \in Item |-> {}]
  /\ guard = {}
  /\ proc = [p \in Proc |-> Idle]

-----------------------------------------------------------------------------

At(p, step) == proc[p].pc = step

\* p goes on with s in hand.
Becomes(p, s) == proc' = [proc EXCEPT ![p] = s]

Goes(s, step) == [s EXCEPT !.pc = step]

\* A run of WorkItem i at a step, with nothing else in hand.
Running(i, step) == [Idle EXCEPT !.pc = step, !.run = TRUE, !.item = i]

\* The step of a run is over; review follows.
StepOver(i, advanced) == [Running(i, "review") EXCEPT !.advanced = advanced]

\* A terminal disposition: there is no work, and the WorkItem is done.
Closes(p, i) == /\ done' = [done EXCEPT ![i] = TRUE]
                /\ Becomes(p, StepOver(i, ~done[i]))

\* The WorkItem waits for its next stage.
Pauses(p, i, advanced) == /\ done' = [done EXCEPT ![i] = FALSE]
                          /\ Becomes(p, StepOver(i, advanced))

\* The step is blocked: an event is recorded, the WorkItem stays as it is stored.
Blocks(p, i) == /\ UNCHANGED done
                /\ Becomes(p, StepOver(i, FALSE))

\* p ends, or dies: the operating system frees its locks.
Ends(p) ==
  /\ Becomes(p, Idle)
  /\ owner' = [i \in Item |-> owner[i] \ {p}]
  /\ guard' = guard \ {p}

-----------------------------------------------------------------------------

\* The newest revision of each source of a batch.
NewestOf(S) == {r \in S : \A q \in S : q.source = r.source => q.version <= r.version}

\* The WorkItems that own revision r: their work on it is under way or completed.
Owners(r) == {i \in Item : cp[i].status \in Owning /\ r \in cp[i].admitted}

Duplicate(owners) == [NoCheckpoint EXCEPT !.status = "duplicate_trigger", !.canonical = owners]

\* A batch whose trigger is new: what nobody owns yet is admitted.
Classified(S) ==
  LET admitted == {r \in NewestOf(S) : Owners(r) = {}}
      owners   == {Max(Owners(r)) : r \in {q \in S : Owners(q) # {}}}
  IN  CASE admitted # {} -> [NoCheckpoint EXCEPT !.status = "ready", !.admitted = admitted]
        [] admitted = {} /\ owners # {} -> Duplicate(owners)
        [] OTHER -> [NoCheckpoint EXCEPT !.status = "no_action"]

\* Slip: a resumed WorkItem is classified again.
PreparedAnew(i, S) ==
  LET same == {j \in Item : trigger[j] = trigger[i] /\ cp[j].status # "none"}
  IN  IF same \ {i} = {} THEN Classified(S) ELSE Duplicate({Min(same \ {i})})

(***************************************************************************)
(* The decision about batch S of WorkItem i.  The first WorkItem, by id,   *)
(* with a checkpoint of the same trigger decides: if that is i itself, its *)
(* checkpoint stands; otherwise i is a duplicate of it, whatever its       *)
(* status and whatever i has done.                                         *)
(***************************************************************************)
Prepared(i, S) ==
  LET same == {j \in Item : trigger[j] = trigger[i] /\ cp[j].status # "none"}
  IN  CASE same = {}                     -> Classified(S)
        [] same # {} /\ Min(same) = i    -> cp[i]
        [] same # {} /\ Min(same) # i    -> Duplicate({Min(same)})

\* Slip: a checkpoint that is over goes on.
AdvancedOn(c, stage, failed) ==
  CASE stage # c.stages + 1            -> c
    [] stage = c.stages + 1 /\ failed -> [c EXCEPT !.status = "partial_failure"]
    [] OTHER -> [c EXCEPT !.status = IF stage = 4 THEN "completed" ELSE "ready",
                          !.stages = stage]

\* A stage that is not the next one, and a checkpoint that is over, change nothing.
Advanced(c, stage, failed) ==
  CASE c.status \notin Live \/ stage # c.stages + 1 -> c
    [] c.status \in Live /\ stage = c.stages + 1 /\ failed ->
         [c EXCEPT !.status = "partial_failure"]
    [] OTHER -> [c EXCEPT !.status = IF stage = 4 THEN "completed" ELSE "ready",
                          !.stages = stage]

\* What a call decides about its WorkItem.
Decision(s) ==
  IF s.call = "prepare" THEN Prepared(s.item, s.batch)
  ELSE Advanced(cp[s.item], s.stage, s.failed)

-----------------------------------------------------------------------------

\* s begins on its WorkItem, unless another process has that.
Begin(p, s) ==
  /\ At(p, "idle")
  /\ owner[s.item] = {}
  /\ owner' = [owner EXCEPT ![s.item] = {p}]
  /\ Becomes(p, s)
  /\ UNCHANGED <<trigger, cp, artifact, review, done, guard>>

\* Slip: a tool call does not ask for the WorkItem's lock.
CallUnlocked(p, s) ==
  /\ At(p, "idle")
  /\ owner' = [owner EXCEPT ![s.item] = @ \cup {p}]
  /\ Becomes(p, s)
  /\ UNCHANGED <<trigger, cp, artifact, review, done, guard>>

Call(p, s) == Begin(p, s)

\* A run of the WorkItem, first or repeated.
Run(p, i) == Begin(p, Running(i, "look"))

\* prepare_signal_lifecycle_checkpoint, called as a tool.
CallPrepare(p, i, S) == Call(p, [Idle EXCEPT !.pc = "call", !.item = i, !.batch = S])

\* advance_signal_lifecycle_checkpoint, called as a tool: no evidence is asked for.
CallAdvance(p, i, stage, failed) ==
  Call(p, [Idle EXCEPT !.pc = "call", !.item = i, !.call = "advance",
                       !.stage = stage, !.failed = failed])

(***************************************************************************)
(* The step of a run looks at what there is: a terminal disposition and a  *)
(* finished WorkItem are reused, a stored artifact goes on to the next     *)
(* stage, completed stages without an artifact block; else it reads.       *)
(***************************************************************************)
Look(p) ==
  /\ At(p, "look")
  /\ LET i == proc[p].item
         over    == cp[i].status \in {"duplicate_trigger", "no_action"}
         whole   == cp[i].status = "completed" /\ done[i] /\ artifact[i]
         staged  == cp[i].status # "none" /\ artifact[i]
         missing == cp[i].stages > 0 /\ ~artifact[i]
     IN  \/ over /\ Closes(p, i)
         \/ /\ ~over /\ whole
            /\ Becomes(p, StepOver(i, FALSE))
            /\ UNCHANGED done
         \/ ~over /\ ~whole /\ missing /\ Blocks(p, i)
         \/ /\ ~over /\ ~whole /\ ~missing
            /\ Becomes(p, Running(i, IF staged THEN "evidence" ELSE "fetch"))
            /\ UNCHANGED done
  /\ UNCHANGED <<trigger, cp, artifact, review, owner, guard>>

\* The provider is read, by the agent or not; S is what was selected.
Fetch(p, S) ==
  /\ At(p, "fetch")
  /\ Becomes(p, [Running(proc[p].item, "call") EXCEPT !.batch = S])
  /\ UNCHANGED <<trigger, cp, artifact, review, done, owner, guard>>

\* The agent fails, or wants more context.
FetchFails(p) ==
  /\ At(p, "fetch")
  /\ Blocks(p, proc[p].item)
  /\ UNCHANGED <<trigger, cp, artifact, review, owner, guard>>

\* Slip: nobody waits for the admission lock.
TakeGuardShared(p) ==
  /\ At(p, "call")
  /\ guard' = guard \cup {p}
  /\ Becomes(p, Goes(proc[p], "decide"))
  /\ UNCHANGED <<trigger, cp, artifact, review, done, owner>>

TakeGuard(p) ==
  /\ At(p, "call")
  /\ guard = {}
  /\ guard' = {p}
  /\ Becomes(p, Goes(proc[p], "decide"))
  /\ UNCHANGED <<trigger, cp, artifact, review, done, owner>>

\* Every WorkItem is read, and the checkpoint decided upon.
Decide(p) ==
  /\ At(p, "decide")
  /\ Becomes(p, [proc[p] EXCEPT !.pc = "persist", !.out = Decision(proc[p])])
  /\ UNCHANGED <<trigger, cp, artifact, review, done, owner, guard>>

\* WorkItem, artifact row and event in one transaction; the admission lock is given
\* back, and a tool call ends.  Only a review after the handoff counts for it.
Persist(p) ==
  /\ At(p, "persist")
  /\ LET s == proc[p]
         i == s.item
         handoff == s.call = "advance" /\ s.out.stages = 2 /\ cp[i].stages = 1
     IN  /\ cp' = [cp EXCEPT ![i] = s.out]
         /\ review' = [review EXCEPT ![i] = @ /\ ~handoff]
         /\ \/ /\ s.run
               /\ Becomes(p, IF s.call = "prepare"
                             THEN [Running(i, "prepared") EXCEPT !.batch = s.batch]
                             ELSE Running(i, "finalize"))
               /\ guard' = guard \ {p}
               /\ UNCHANGED owner
            \/ ~s.run /\ Ends(p)
  /\ UNCHANGED <<trigger, artifact, done>>

\* What was admitted is kept of the batch, and stored as the artifact; nothing to
\* keep blocks, a terminal disposition ends the work.
Stage(p) ==
  /\ At(p, "prepared")
  /\ LET s == proc[p]
         i == s.item
         over == cp[i].status \in {"duplicate_trigger", "no_action"}
         kept == s.batch \cap cp[i].admitted
     IN  \/ over /\ Closes(p, i) /\ UNCHANGED artifact
         \/ ~over /\ kept = {} /\ Blocks(p, i) /\ UNCHANGED artifact
         \/ /\ ~over /\ kept # {}
            /\ done' = [done EXCEPT ![i] = FALSE]
            /\ artifact' = [artifact EXCEPT ![i] = TRUE]
            /\ Becomes(p, Running(i, "evidence"))
  /\ UNCHANGED <<trigger, cp, review, owner, guard>>

\* The third stage needs a review on record; the others have what they need.
HasEvidence(i, stage) == stage = 3 => review[i]

\* With its evidence the next stage is advanced; without it the WorkItem pauses.
Evidence(p) ==
  /\ At(p, "evidence")
  /\ LET i == proc[p].item
         next == cp[i].stages + 1
     IN  \/ /\ cp[i].stages = 4
            /\ Becomes(p, Running(i, "finalize"))
            /\ UNCHANGED done
         \/ /\ cp[i].stages < 4 /\ HasEvidence(i, next)
            /\ Becomes(p, [Running(i, "call") EXCEPT !.call = "advance", !.stage = next])
            /\ UNCHANGED done
         \/ cp[i].stages < 4 /\ ~HasEvidence(i, next) /\ Pauses(p, i, FALSE)
  /\ UNCHANGED <<trigger, cp, artifact, review, owner, guard>>

\* Slip: a WorkItem is done when its step is.
FinalizeAlways(p) ==
  /\ At(p, "finalize")
  /\ done' = [done EXCEPT ![proc[p].item] = TRUE]
  /\ Becomes(p, StepOver(proc[p].item, TRUE))
  /\ UNCHANGED <<trigger, cp, artifact, review, owner, guard>>

\* A completed lifecycle makes the WorkItem done; otherwise it pauses.
Finalize(p) ==
  /\ At(p, "finalize")
  /\ LET i == proc[p].item
     IN  IF cp[i].status = "completed"
         THEN done' = [done EXCEPT ![i] = TRUE] /\ Becomes(p, StepOver(i, TRUE))
         ELSE Pauses(p, i, TRUE)
  /\ UNCHANGED <<trigger, cp, artifact, review, owner, guard>>

(***************************************************************************)
(* The manager loop reviews the step.  A failing review blocks only a step *)
(* that got on, and not when a repair is to follow; what does not block is *)
(* on record as such.  After a step that got on, the loop may take another *)
(* (the resumption or the repair), within its limit.                       *)
(***************************************************************************)
Review(p, blocks) ==
  /\ At(p, "review")
  /\ blocks => proc[p].advanced
  /\ LET i == proc[p].item
     IN  /\ review' = [review EXCEPT ![i] = @ \/ ~blocks]
         /\ done' = [done EXCEPT ![i] = @ /\ ~blocks]
         /\ \/ /\ proc[p].advanced /\ ~blocks
               /\ Becomes(p, Running(i, "look"))
               /\ UNCHANGED <<owner, guard>>
            \/ Ends(p)
  /\ UNCHANGED <<trigger, cp, artifact>>

\* A run of a single step is not reviewed.
Leave(p) ==
  /\ At(p, "review")
  /\ Ends(p)
  /\ UNCHANGED <<trigger, cp, artifact, review, done>>

\* The process dies, or an exception ends it.
Crash(p) ==
  /\ ~At(p, "idle")
  /\ Ends(p)
  /\ UNCHANGED <<trigger, cp, artifact, review, done>>

Next ==
  \E p \in Proc :
    \/ \E i \in Item : Run(p, i)
    \/ \E i \in Item, S \in SUBSET Rev : CallPrepare(p, i, S)
    \/ \E i \in Item, n \in Reported, failed \in BOOLEAN : CallAdvance(p, i, n, failed)
    \/ Look(p)
    \/ \E S \in SUBSET Rev : Fetch(p, S)
    \/ FetchFails(p)
    \/ TakeGuard(p) \/ Decide(p) \/ Persist(p)
    \/ Stage(p) \/ Evidence(p) \/ Finalize(p)
    \/ \E blocks \in BOOLEAN : Review(p, blocks)
    \/ Leave(p) \/ Crash(p)

Spec == Init /\ [][Next]_vars

-----------------------------------------------------------------------------

\* Two WorkItems never own the same revision, whatever triggers, runs and tool calls
\* are decided at the same time (_signal_admission_guard).
OneOwner ==
  \A i, j \in Item :
    i # j /\ cp[i].status \in Owning /\ cp[j].status \in Owning =>
      cp[i].admitted \cap cp[j].admitted = {}

\* A WorkItem that says "done" has nothing left to do: its lifecycle is completed and
\* its artifact stored, or there was no work for it.
DoneIsOver ==
  \A i \in Item :
    done[i] => \/ cp[i].status = "completed" /\ artifact[i]
               \/ cp[i].status \in {"duplicate_trigger", "no_action"}

\* The provider is not read for a WorkItem that has its context already, and what a
\* run is about to read stays unread until it has: no stage is done twice.
ReadOnce ==
  \A p \in Proc :
    At(p, "fetch") => cp[proc[p].item].stages = 0 /\ ~artifact[proc[p].item]

\* An owner keeps its revisions and its completed stages, through failures, crashes,
\* repeated triggers and resumption, as long as no WorkItem with a smaller id has a
\* checkpoint of its trigger.
OwnersKeepWork ==
  [][\A i \in Item :
       /\ cp[i].status \in Owning
       /\ \A j \in 1 .. i - 1 : trigger[j] = trigger[i] => cp[j].status = "none"
       => /\ cp'[i].status \in Owning
          /\ cp'[i].stages >= cp[i].stages
          /\ cp'[i].admitted = cp[i].admitted]_vars

-----------------------------------------------------------------------------
(* The abstract view.                                                      *)

Promise == INSTANCE RevisionOwners WITH
  seen   <- [i \in Item |-> cp[i].status # "none"],
  owns   <- [i \in Item |-> cp[i].admitted],
  stages <- [i \in Item |-> cp[i].stages]

\* Deciding about a batch and writing the decision are many steps of many processes;
\* in the checkpoints they are one: what is admitted is what nobody owns when it is.
ImplementsOwners == Promise!Spec

-----------------------------------------------------------------------------
(* Why these hold: an inductive invariant, in named parts.                 *)

\* Whoever is busy holds the lock of its WorkItem, and nobody else does; whoever decides
\* or writes holds the admission lock.
LockInv ==
  /\ \A i \in Item, p \in Proc : p \in owner[i] <=> ~At(p, "idle") /\ proc[p].item = i
  /\ \A i \in Item : \A p, q \in owner[i] : p = q
  /\ \A p \in Proc : p \in guard <=> proc[p].pc \in {"decide", "persist"}
  /\ \A p, q \in guard : p = q

\* What is about to be written is what would be decided now.
DecisionIsCurrent == \A p \in Proc : At(p, "persist") => proc[p].out = Decision(proc[p])

\* An artifact has a checkpoint, and a run that goes through the stages an artifact.
ArtifactInv ==
  /\ \A i \in Item : artifact[i] => cp[i].status # "none"
  /\ \A p \in Proc :
       \/ proc[p].pc \in {"evidence", "finalize"}
       \/ proc[p].run /\ proc[p].call = "advance"
       => artifact[proc[p].item]

\* Together these are preserved by every step, and imply the properties above.
SignalInv ==
  /\ TypeOK /\ LockInv /\ DecisionIsCurrent /\ ArtifactInv
  /\ OneOwner /\ DoneIsOver /\ ReadOnce

\* "Existing canonical WorkItems remain authoritative": no two WorkItems are each
\* suppressed in favour of the other (_signal_lifecycle_terminal_result).
CanonicalIsAuthoritative ==
  \A i, j \in Item : ~(i \in cp[j].canonical /\ j \in cp[i].canonical)

=============================================================================
