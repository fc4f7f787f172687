------------------------- MODULE SignalLifecycle_proofs -------------------------
(***************************************************************************)
(* Proofs about triggered source work, for any processes, WorkItems,       *)
(* triggers, sources and revisions: SignalInv is inductive.  The locks     *)
(* make every step of a process a matter of its own WorkItem, so that most *)
(* steps are cases of one lemma (OwnStep); what a decision may be is       *)
(* settled apart from who writes it (DecisionFits).                        *)
(***************************************************************************)
EXTENDS SignalLifecycle, FiniteSetTheorems, TLAPS

-----------------------------------------------------------------------------
(* Smallest and largest ids.                                               *)

LEMMA ItemsAreNats == /\ Item \subseteq Nat /\ IsFiniteSet(Item)
                      /\ 1 \in Item
  BY SignalAssumption, FS_Interval DEF Item

\* A family of subsets of Item has one that none of the others is a strict part of.
LEMMA SmallestPart ==
  ASSUME NEW F \in SUBSET SUBSET Item, F # {}
  PROVE  \E X \in F : \A Y \in F : Y \subseteq X => Y = X
  <1>1. IsWellFoundedOn(StrictSubsetOrdering(Item), SUBSET Item)
    BY ItemsAreNats, FS_StrictSubsetOrderingWellFounded, FS_FiniteSubsetsOfFinite
  <1>2. PICK X \in F : \A Y \in F : <<Y, X>> \notin StrictSubsetOrdering(Item)
    BY <1>1, WFMin
  <1> QED
    BY <1>2 DEF StrictSubsetOrdering

LEMMA MinIsMember ==
  ASSUME NEW S \in SUBSET Item, S # {}
  PROVE  Min(S) \in S
  <1> DEFINE Up(x) == {y \in S : y <= x}
             F == {Up(x) : x \in S}
  <1>1. F \in SUBSET SUBSET Item /\ F # {} /\ \A z \in S : z \in Nat
    BY ItemsAreNats
  <1>2. PICK X \in F : \A Y \in F : Y \subseteq X => Y = X
    <2> HIDE DEF F
    <2> QED
      BY <1>1, SmallestPart
  <1>3. PICK x \in S : X = Up(x)
    BY <1>2
  <1>4. ASSUME NEW y \in S, ~(x <= y)
        PROVE  FALSE
    <2>1. x \in Nat /\ y \in Nat /\ y <= x
      BY <1>4, ItemsAreNats
    <2>2. Up(y) \subseteq Up(x)
      <3>1. ASSUME NEW z \in S, z <= y
            PROVE  z <= x
        BY <1>1, <2>1, <3>1
      <3> QED
        BY <3>1
    <2>3. Up(y) = Up(x)
      BY <1>2, <1>3, <2>2
    <2>4. x \in Up(x) /\ x \notin Up(y)
      BY <1>4, <2>1
    <2> QED
      BY <2>3, <2>4
  <1> QED
    BY <1>4 DEF Min

LEMMA MaxIsMember ==
  ASSUME NEW S \in SUBSET Item, S # {}
  PROVE  Max(S) \in S
  <1> DEFINE From(x) == {y \in S : y >= x}
             F == {From(x) : x \in S}
  <1>1. F \in SUBSET SUBSET Item /\ F # {} /\ \A z \in S : z \in Nat
    BY ItemsAreNats
  <1>2. PICK X \in F : \A Y \in F : Y \subseteq X => Y = X
    <2> HIDE DEF F
    <2> QED
      BY <1>1, SmallestPart
  <1>3. PICK x \in S : X = From(x)
    BY <1>2
  <1>4. ASSUME NEW y \in S, ~(x >= y)
        PROVE  FALSE
    <2>1. x \in Nat /\ y \in Nat /\ y >= x
      BY <1>4, ItemsAreNats
    <2>2. From(y) \subseteq From(x)
      <3>1. ASSUME NEW z \in S, z >= y
            PROVE  z >= x
        BY <1>1, <2>1, <3>1
      <3> QED
        BY <3>1
    <2>3. From(y) = From(x)
      BY <1>2, <1>3, <2>2
    <2>4. x \in From(x) /\ x \notin From(y)
      BY <1>4, <2>1
    <2> QED
      BY <2>3, <2>4
  <1> QED
    BY <1>4 DEF Max

\* The smallest of a set is its Min.
LEMMA SmallestIsMin ==
  ASSUME NEW S \in SUBSET Item, NEW i \in S, \A j \in S : i <= j
  PROVE  Min(S) = i
  <1>1. Min(S) \in S /\ \A y \in S : Min(S) <= y
    BY DEF Min
  <1>2. Min(S) \in Nat /\ i \in Nat /\ i <= Min(S)
    BY <1>1, ItemsAreNats
  <1> QED
    BY <1>1, <1>2

-----------------------------------------------------------------------------
(* What a decision may be.                                                 *)

Fields == [status : Live \cup Terminal \cup {"none"}, stages : 0 .. 4,
           admitted : SUBSET Rev, canonical : SUBSET Item]

LEMMA CheckpointIff ==
  ASSUME NEW c \in Fields
  PROVE  c \in Checkpoints <=>
           /\ c.status \in Owning <=> c.admitted # {}
           /\ c.status = "completed" <=> c.stages = 4
           /\ c.status = "duplicate_trigger" <=> c.canonical # {}
  BY DEF Checkpoints, Fields

LEMMA CheckpointFields ==
  ASSUME NEW c \in Checkpoints
  PROVE  c \in Fields
  BY DEF Checkpoints, Fields

LEMMA DuplicateTyped ==
  ASSUME NEW S \in SUBSET Item, S # {}
  PROVE  Duplicate(S) \in Checkpoints /\ Duplicate(S).status = "duplicate_trigger"
  <1>1. /\ Duplicate(S).status = "duplicate_trigger" /\ Duplicate(S).stages = 0
        /\ Duplicate(S).admitted = {} /\ Duplicate(S).canonical = S
    BY DEF Duplicate, NoCheckpoint
  <1>2. Duplicate(S) \in Fields
    <2>1. NoCheckpoint \in Fields
      BY DEF NoCheckpoint, Fields
    <2> QED
      BY <2>1 DEF Duplicate, Fields, Terminal
  <1> QED
    BY <1>1, <1>2, CheckpointIff DEF Owning, Live

\* A classified WorkItem is owner, and of what nobody owns; or it is over.
LEMMA ClassifiedFits ==
  ASSUME TypeOK, NEW S \in SUBSET Rev
  PROVE  /\ Classified(S) \in Checkpoints
         /\ Classified(S).status \in {"ready", "duplicate_trigger", "no_action"}
         /\ \A r \in Classified(S).admitted : Owners(r) = {}
  <1> DEFINE admitted == {r \in NewestOf(S) : Owners(r) = {}}
             owned    == {q \in S : Owners(q) # {}}
             owners   == {Max(Owners(r)) : r \in owned}
  <1>1. admitted \in SUBSET Rev /\ \A r \in admitted : Owners(r) = {}
    BY DEF NewestOf
  <1>2. owners \in SUBSET Item
    <2>1. ASSUME NEW r \in owned
          PROVE  Max(Owners(r)) \in Item
      <3>1. Owners(r) \in SUBSET Item /\ Owners(r) # {}
        BY DEF Owners
      <3> HIDE DEF owned
      <3> QED
        BY <3>1, MaxIsMember
    <2> QED
      BY <2>1
  <1>3. Classified(S) =
          CASE admitted # {} -> [NoCheckpoint EXCEPT !.status = "ready", !.admitted = admitted]
            [] admitted = {} /\ owners # {} -> Duplicate(owners)
            [] OTHER -> [NoCheckpoint EXCEPT !.status = "no_action"]
    BY DEF Classified
  <1> HIDE DEF admitted, owners
  <1>4. CASE admitted # {}
    <2>1. Classified(S) = [NoCheckpoint EXCEPT !.status = "ready", !.admitted = admitted]
      BY <1>3, <1>4
    <2>2. Classified(S) = [status |-> "ready", stages |-> 0, admitted |-> admitted,
                           canonical |-> {}]
      BY <2>1 DEF NoCheckpoint
    <2>3. Classified(S) \in Fields
      BY <1>1, <2>2 DEF Fields, Live
    <2>4. Classified(S) \in Checkpoints
      BY <1>4, <2>2, <2>3, CheckpointIff DEF Owning, Live
    <2> QED
      BY <1>1, <2>2, <2>4
  <1>5. CASE admitted = {} /\ owners # {}
    <2>1. Classified(S) = Duplicate(owners)
      BY <1>3, <1>5
    <2> QED
      BY <1>2, <1>5, <2>1, DuplicateTyped DEF Duplicate, NoCheckpoint
  <1>6. CASE admitted = {} /\ owners = {}
    <2>1. Classified(S) = [NoCheckpoint EXCEPT !.status = "no_action"]
      BY <1>3, <1>6
    <2> QED
      BY <2>1 DEF NoCheckpoint, Checkpoints, Live, Terminal, Owning
  <1> QED
    BY <1>4, <1>5, <1>6

\* The WorkItems with a checkpoint of i's trigger.
Same(i) == {j \in Item : trigger[j] = trigger[i] /\ cp[j].status # "none"}

LEMMA PreparedCases ==
  ASSUME TypeOK, NEW i \in Item, NEW S \in SUBSET Rev
  PROVE  \/ Same(i) = {} /\ Prepared(i, S) = Classified(S)
         \/ i \in Same(i) /\ Min(Same(i)) = i /\ Prepared(i, S) = cp[i]
         \/ /\ Same(i) # {} /\ Min(Same(i)) # i /\ Min(Same(i)) \in Item
            /\ Prepared(i, S) = Duplicate({Min(Same(i))})
  <1>1. Prepared(i, S) =
          CASE Same(i) = {}                        -> Classified(S)
            [] Same(i) # {} /\ Min(Same(i)) = i    -> cp[i]
            [] Same(i) # {} /\ Min(Same(i)) # i    -> Duplicate({Min(Same(i))})
    BY DEF Prepared, Same
  <1>2. Same(i) \in SUBSET Item /\ (Same(i) # {} => Min(Same(i)) \in Same(i))
    <2>1. Same(i) \in SUBSET Item
      BY DEF Same
    <2> QED
      BY <2>1, MinIsMember
  <1>3. CASE Same(i) = {}
    BY <1>1, <1>3
  <1>4. CASE Same(i) # {} /\ Min(Same(i)) = i
    BY <1>1, <1>2, <1>4
  <1>5. CASE Same(i) # {} /\ Min(Same(i)) # i
    BY <1>1, <1>2, <1>5
  <1> QED
    BY <1>3, <1>4, <1>5

\* An advanced checkpoint is the same, or goes one stage on, or fails where it is.
LEMMA AdvancedFits ==
  ASSUME NEW c \in Checkpoints, NEW stage \in 1 .. 4, NEW failed \in BOOLEAN
  PROVE  LET d == Advanced(c, stage, failed)
         IN  /\ d \in Checkpoints
             /\ d.admitted = c.admitted /\ d.stages >= c.stages
             /\ d # c => c.status \in Live
             /\ d.status \in Owning <=> c.status \in Owning
             /\ d.status = "none" <=> c.status = "none"
  <1>1. c \in Fields
    BY CheckpointFields
  <1>2. /\ c.status \in Owning <=> c.admitted # {}
        /\ c.status = "completed" <=> c.stages = 4
        /\ c.status = "duplicate_trigger" <=> c.canonical # {}
        /\ c.stages \in 0 .. 4
    BY <1>1, CheckpointIff DEF Fields
  <1>3. CASE c.status \notin Live \/ stage # c.stages + 1
    <2>1. Advanced(c, stage, failed) = c
      BY <1>3 DEF Advanced
    <2> QED
      BY <1>2, <2>1
  <1>4. CASE c.status \in Live /\ stage = c.stages + 1
    <2>1. PICK status \in {"partial_failure", "completed", "ready"}, n \in {c.stages, stage} :
            /\ Advanced(c, stage, failed) = [c EXCEPT !.status = status, !.stages = n]
            /\ status = "completed" <=> n = 4
      <3>1. CASE failed
        <4>1. Advanced(c, stage, failed) = [c EXCEPT !.status = "partial_failure"]
          BY <1>4, <3>1 DEF Advanced
        <4>2. @ = [c EXCEPT !.status = "partial_failure", !.stages = c.stages]
          BY <1>1 DEF Fields
        <4>3. c.stages # 4
          BY <1>4, <1>2
        <4> QED
          BY <4>1, <4>2, <4>3
      <3>2. CASE ~failed
        <4>1. Advanced(c, stage, failed) =
                [c EXCEPT !.status = IF stage = 4 THEN "completed" ELSE "ready",
                          !.stages = stage]
          BY <1>4, <3>2 DEF Advanced
        <4> QED
          BY <4>1
      <3> QED
        BY <3>1, <3>2
    <2> DEFINE d == [c EXCEPT !.status = status, !.stages = n]
    <2>2. /\ d \in Fields /\ d.status = status /\ d.stages = n
          /\ d.admitted = c.admitted /\ d.canonical = c.canonical
      <3>1. status \in Live \cup Terminal \cup {"none"} /\ n \in 0 .. 4
        BY <1>2 DEF Live, Terminal
      <3> QED
        BY <1>1, <3>1 DEF Fields
    <2>3. c.status \in Owning /\ status \in Owning /\ c.status \notin Terminal \cup {"none"}
      BY <1>4 DEF Owning, Live, Terminal
    <2> HIDE DEF d
    <2>4. d \in Checkpoints
      BY <1>2, <2>1, <2>2, <2>3, CheckpointIff DEF Terminal
    <2>5. d.stages >= c.stages
      BY <1>4, <1>2, <2>2
    <2>6. Advanced(c, stage, failed) = d
      BY <2>1 DEF d
    <2> QED
      BY <1>4, <2>2, <2>3, <2>4, <2>5, <2>6
  <1> QED
    BY <1>3, <1>4

\* A decision about WorkItem i: what it has is kept, or given up for an owner's, or
\* there was nothing and what is admitted is nobody's.
LEMMA DecisionFits ==
  ASSUME TypeOK, NEW s \in Procs
  PROVE  LET i == s.item
             c == Decision(s)
         IN  /\ c \in Checkpoints
             /\ \/ /\ c.admitted = cp[i].admitted /\ c.stages >= cp[i].stages
                   /\ c # cp[i] => cp[i].status \in Live
                   /\ c.status \in Owning <=> cp[i].status \in Owning
                   /\ c.status = "none" <=> cp[i].status = "none"
                \/ /\ c.status = "duplicate_trigger"
                   /\ Same(i) # {} /\ Min(Same(i)) # i
                \/ /\ cp[i].status = "none"
                   /\ c.status \in {"ready", "duplicate_trigger", "no_action"}
                   /\ \A r \in c.admitted : Owners(r) = {}
  <1> DEFINE i == s.item
  <1>1. /\ i \in Item /\ s.batch \in SUBSET Rev /\ s.stage \in 1 .. 4 /\ s.failed \in BOOLEAN
        /\ s.call \in {"prepare", "advance"} /\ cp[i] \in Checkpoints
    BY DEF TypeOK, Procs
  <1>2. CASE s.call = "prepare"
    <2>1. Decision(s) = Prepared(i, s.batch)
      BY <1>2 DEF Decision
    <2>2. CASE Same(i) = {} /\ Prepared(i, s.batch) = Classified(s.batch)
      <3>1. cp[i].status = "none"
        BY <1>1, <2>2 DEF Same
      <3> QED
        BY <1>1, <2>1, <2>2, <3>1, ClassifiedFits
    <2>3. CASE Prepared(i, s.batch) = cp[i]
      BY <1>1, <2>1, <2>3 DEF Checkpoints
    <2>4. CASE /\ Same(i) # {} /\ Min(Same(i)) # i /\ Min(Same(i)) \in Item
               /\ Prepared(i, s.batch) = Duplicate({Min(Same(i))})
      BY <2>1, <2>4, DuplicateTyped
    <2> QED
      BY <1>1, <2>2, <2>3, <2>4, PreparedCases
  <1>3. CASE s.call = "advance"
    <2>1. Decision(s) = Advanced(cp[i], s.stage, s.failed)
      BY <1>3 DEF Decision
    <2>2. /\ Decision(s) \in Checkpoints
          /\ Decision(s).admitted = cp[i].admitted /\ Decision(s).stages >= cp[i].stages
          /\ Decision(s) # cp[i] => cp[i].status \in Live
          /\ Decision(s).status \in Owning <=> cp[i].status \in Owning
          /\ Decision(s).status = "none" <=> cp[i].status = "none"
      <3> DEFINE c == cp[i]
      <3>1. c \in Checkpoints
        BY <1>1
      <3> HIDE DEF c
      <3>2. LET d == Advanced(c, s.stage, s.failed)
            IN  /\ d \in Checkpoints
                /\ d.admitted = c.admitted /\ d.stages >= c.stages
                /\ d # c => c.status \in Live
                /\ d.status \in Owning <=> c.status \in Owning
                /\ d.status = "none" <=> c.status = "none"
        BY <1>1, <3>1, AdvancedFits
      <3> QED
        BY <2>1, <3>2 DEF c
    <2> QED
      BY <2>2
  <1> QED
    BY <1>1, <1>2, <1>3

-----------------------------------------------------------------------------
(* Whose step it is.                                                       *)

LEMMA OneProc ==
  ASSUME TypeOK, NEW p \in Proc, NEW s \in Procs, Becomes(p, s)
  PROVE  /\ proc' \in [Proc -> Procs] /\ proc'[p] = s
         /\ \A q \in Proc \ {p} : proc'[q] = proc[q]
  BY DEF TypeOK, Becomes

LEMMA OthersElsewhere ==
  ASSUME SignalInv, NEW p \in Proc, NEW q \in Proc, p # q, ~At(p, "idle"), ~At(q, "idle")
  PROVE  proc[p].item # proc[q].item
  <1>1. proc[p].item \in Item /\ proc[q].item \in Item
    BY DEF SignalInv, TypeOK, Procs
  <1> QED
    BY <1>1 DEF SignalInv, LockInv

LEMMA ItemOfProc ==
  ASSUME TypeOK, NEW p \in Proc
  PROVE  /\ proc[p] \in Procs /\ proc[p].item \in Item
         /\ cp[proc[p].item] \in Checkpoints
         /\ artifact[proc[p].item] \in BOOLEAN /\ done[proc[p].item] \in BOOLEAN
         /\ review[proc[p].item] \in BOOLEAN
  BY DEF TypeOK, Procs

LEMMA SameDecision ==
  ASSUME NEW p \in Proc, UNCHANGED <<trigger, cp>>, proc'[p] = proc[p]
  PROVE  Decision(proc[p])' = Decision(proc[p])
  BY DEF Decision, Prepared, Classified, NewestOf, Owners, Advanced, Duplicate

\* What a process with s in hand, and anybody, may count on about an item with
\* checkpoint c, artifact a and status d.
Fits(s, c, a, d) ==
  /\ a => c.status # "none"
  /\ s.pc \in {"evidence", "finalize"} \/ (s.run /\ s.call = "advance") => a
  /\ s.pc = "fetch" => c.stages = 0 /\ ~a
  /\ d => \/ c.status = "completed" /\ a
          \/ c.status \in {"duplicate_trigger", "no_action"}

LEMMA AllFit ==
  ASSUME SignalInv, NEW p \in Proc
  PROVE  LET i == proc[p].item IN Fits(proc[p], cp[i], artifact[i], done[i])
  BY ItemOfProc DEF SignalInv, ArtifactInv, DoneIsOver, ReadOnce, Fits, At

\* A step of p that leaves locks and checkpoints alone, and of its WorkItem sets
\* artifact and status to what fits.
LEMMA OwnStep ==
  ASSUME SignalInv, NEW p \in Proc, NEW s \in Procs, Becomes(p, s),
         ~At(p, "idle"), proc[p].pc \notin {"decide", "persist"},
         s.pc \notin {"idle", "decide", "persist"}, s.item = proc[p].item,
         UNCHANGED <<trigger, cp, owner, guard>>, review' \in [Item -> BOOLEAN],
         artifact' \in [Item -> BOOLEAN], done' \in [Item -> BOOLEAN],
         \A j \in Item \ {s.item} : artifact'[j] = artifact[j] /\ done'[j] = done[j],
         artifact[s.item] => artifact'[s.item],
         Fits(s, cp[s.item], artifact'[s.item], done'[s.item])
  PROVE  SignalInv'
  <1> DEFINE i == s.item
             a == artifact'[i]
             d == done'[i]
  <1>1. TypeOK /\ i \in Item
    BY DEF SignalInv, Procs
  <1>2. /\ proc' \in [Proc -> Procs] /\ proc'[p] = s
        /\ \A q \in Proc \ {p} : proc'[q] = proc[q]
    BY <1>1, OneProc
  <1>3. /\ artifact' \in [Item -> BOOLEAN] /\ artifact'[i] = a
        /\ \A j \in Item \ {i} : artifact'[j] = artifact[j]
        /\ done' \in [Item -> BOOLEAN] /\ done'[i] = d
        /\ \A j \in Item \ {i} : done'[j] = done[j]
    OBVIOUS
  <1>4. Fits(s, cp[i], a, d) /\ (artifact[i] => a)
    OBVIOUS
  <1> HIDE DEF i, a, d
  <1>5. TypeOK'
    BY <1>1, <1>2, <1>3 DEF TypeOK
  <1>6. LockInv'
    <2>1. \A q \in Proc :
            /\ At(q, "idle")' <=> At(q, "idle")
            /\ proc'[q].item = proc[q].item
            /\ proc'[q].pc \in {"decide", "persist"} <=> proc[q].pc \in {"decide", "persist"}
      BY <1>2 DEF At
    <2> QED
      BY <2>1 DEF SignalInv, LockInv
  <1>7. DecisionIsCurrent'
    <2>1. ASSUME NEW q \in Proc, At(q, "persist")'
          PROVE  proc'[q].out = Decision(proc[q])'
      <3>1. proc'[q] = proc[q]
        BY <1>2, <2>1 DEF At
      <3>2. proc[q].out = Decision(proc[q])
        BY <2>1, <3>1 DEF SignalInv, DecisionIsCurrent, At
      <3> QED
        BY <3>1, <3>2, SameDecision
    <2> QED
      BY <2>1 DEF DecisionIsCurrent
  <1>8. ArtifactInv'
    <2>1. \A j \in Item : artifact'[j] => cp[j].status # "none"
      BY <1>3, <1>4 DEF SignalInv, ArtifactInv, Fits
    <2>2. ASSUME NEW q \in Proc,
                 \/ proc'[q].pc \in {"evidence", "finalize"}
                 \/ proc'[q].run /\ proc'[q].call = "advance"
          PROVE  artifact'[proc'[q].item]
      <3>1. CASE q = p
        <4>1. proc'[q] = s
          BY <1>2, <3>1
        <4>2. s.pc \in {"evidence", "finalize"} \/ (s.run /\ s.call = "advance")
          BY <2>2, <4>1
        <4>3. a
          BY <4>2, <1>4 DEF Fits
        <4> QED
          BY <1>3, <4>1, <4>3 DEF i
      <3>2. CASE q # p
        <4>1. artifact[proc[q].item] /\ proc'[q] = proc[q]
          BY <1>2, <2>2, <3>2 DEF SignalInv, ArtifactInv
        <4> QED
          BY <1>1, <1>3, <4>1, ItemOfProc DEF i
      <3> QED
        BY <3>1, <3>2
    <2> QED
      BY <2>1, <2>2 DEF ArtifactInv
  <1>9. OneOwner' /\ DoneIsOver'
    BY <1>3, <1>4 DEF SignalInv, OneOwner, DoneIsOver, Fits
  <1>10. ReadOnce'
    <2>1. ASSUME NEW q \in Proc, At(q, "fetch")'
          PROVE  cp[proc'[q].item].stages = 0 /\ ~artifact'[proc'[q].item]
      <3>1. CASE q = p
        BY <1>2, <1>3, <1>4, <2>1, <3>1 DEF Fits, At, i
      <3>2. CASE q # p
        <4>1. At(q, "fetch") /\ proc'[q] = proc[q]
          BY <1>2, <2>1, <3>2 DEF At
        <4>2. proc[q].item # i /\ proc[q].item \in Item
          BY <1>1, <3>2, <4>1, OthersElsewhere, ItemOfProc DEF At, i
        <4> QED
          BY <1>3, <4>1, <4>2 DEF SignalInv, ReadOnce
      <3> QED
        BY <3>1, <3>2
    <2> QED
      BY <2>1 DEF ReadOnce
  <1> QED
    BY <1>5, <1>6, <1>7, <1>8, <1>9, <1>10 DEF SignalInv

LEMMA NoCheckpointIsOne == NoCheckpoint \in Checkpoints
  <1>1. NoCheckpoint \in Fields
    BY DEF NoCheckpoint, Fields
  <1> QED
    BY <1>1, CheckpointIff DEF NoCheckpoint, Owning, Live

LEMMA IdleIsOne == Idle \in Procs
  BY ItemsAreNats, NoCheckpointIsOne DEF Idle, Procs

LEMMA EndFreesLocks ==
  ASSUME SignalInv, NEW p \in Proc, Ends(p)
  PROVE  /\ owner' \in [Item -> SUBSET Proc] /\ guard' \in SUBSET Proc
         /\ LockInv'
  <1>1. /\ proc'[p] = Idle /\ \A q \in Proc \ {p} : proc'[q] = proc[q]
    BY IdleIsOne, OneProc DEF SignalInv, Ends
  <1>2. /\ owner' \in [Item -> SUBSET Proc] /\ guard' \in SUBSET Proc
        /\ \A i \in Item, q \in Proc : q \in owner'[i] <=> q \in owner[i] /\ q # p
        /\ \A q \in Proc : q \in guard' <=> q \in guard /\ q # p
    BY DEF SignalInv, TypeOK, Ends
  <1>3. \A i \in Item, q \in Proc :
          q \in owner'[i] <=> ~At(q, "idle")' /\ proc'[q].item = i
    BY <1>1, <1>2 DEF SignalInv, LockInv, At, Idle
  <1>4. \A i \in Item : \A q, r \in owner'[i] : q = r
    BY <1>2 DEF SignalInv, LockInv
  <1>5. \A q \in Proc : q \in guard' <=> proc'[q].pc \in {"decide", "persist"}
    BY <1>1, <1>2 DEF SignalInv, LockInv, Idle
  <1>6. \A q, r \in guard' : q = r
    BY <1>2 DEF SignalInv, LockInv
  <1> QED
    BY <1>2, <1>3, <1>4, <1>5, <1>6 DEF LockInv

\* A process ends; WorkItems may stop being done, or be reviewed.
LEMMA EndKeepsInv ==
  ASSUME SignalInv, NEW p \in Proc, Ends(p), UNCHANGED <<trigger, cp, artifact>>,
         review' \in [Item -> BOOLEAN], done' \in [Item -> BOOLEAN],
         \A i \in Item : done'[i] => done[i]
  PROVE  SignalInv'
  <1>1. TypeOK
    BY DEF SignalInv
  <1>2. /\ proc' \in [Proc -> Procs] /\ proc'[p] = Idle
        /\ \A q \in Proc \ {p} : proc'[q] = proc[q]
    BY <1>1, IdleIsOne, OneProc DEF Ends
  <1>3. TypeOK' /\ LockInv'
    BY <1>1, <1>2, EndFreesLocks DEF TypeOK, SignalInv
  <1>4. DecisionIsCurrent'
    <2>1. ASSUME NEW q \in Proc, At(q, "persist")'
          PROVE  proc'[q].out = Decision(proc[q])'
      <3>1. proc'[q] = proc[q]
        BY <1>2, <2>1 DEF At, Idle
      <3>2. proc[q].out = Decision(proc[q])
        BY <2>1, <3>1 DEF SignalInv, DecisionIsCurrent, At
      <3> QED
        BY <3>1, <3>2, SameDecision
    <2> QED
      BY <2>1 DEF DecisionIsCurrent
  <1>5. ArtifactInv' /\ OneOwner' /\ DoneIsOver' /\ ReadOnce'
    BY <1>2 DEF SignalInv, ArtifactInv, OneOwner, DoneIsOver, ReadOnce, Idle, At
  <1> QED
    BY <1>3, <1>4, <1>5 DEF SignalInv


-----------------------------------------------------------------------------
(* The steps.                                                              *)

\* A free process takes the lock of a free WorkItem.
LEMMA BeginKeepsInv ==
  ASSUME SignalInv, NEW p \in Proc, NEW s \in Procs, Begin(p, s), s.pc \in {"look", "call"},
         ~(s.run /\ s.call = "advance")
  PROVE  SignalInv'
  <1> DEFINE i == s.item
  <1>1. TypeOK /\ i \in Item /\ owner[i] = {} /\ At(p, "idle")
        /\ UNCHANGED <<trigger, cp, artifact, review, done, guard>>
    BY DEF SignalInv, Procs, Begin
  <1>2. /\ proc' \in [Proc -> Procs] /\ proc'[p] = s
        /\ \A q \in Proc \ {p} : proc'[q] = proc[q]
    BY <1>1, OneProc DEF Begin
  <1>3. /\ owner' \in [Item -> SUBSET Proc] /\ owner'[i] = {p}
        /\ \A j \in Item \ {i} : owner'[j] = owner[j]
    BY <1>1 DEF TypeOK, Begin
  <1> HIDE DEF i
  <1>4. TypeOK'
    BY <1>1, <1>2, <1>3 DEF TypeOK
  <1>5. LockInv'
    <2>1. ASSUME NEW j \in Item, NEW q \in Proc
          PROVE  q \in owner'[j] <=> ~At(q, "idle")' /\ proc'[q].item = j
      <3>1. CASE q = p
        BY <1>1, <1>2, <1>3, <3>1 DEF SignalInv, LockInv, At, i
      <3>2. CASE q # p
        BY <1>1, <1>2, <1>3, <3>2 DEF SignalInv, LockInv, At
      <3> QED
        BY <3>1, <3>2
    <2>2. \A j \in Item : \A q, r \in owner'[j] : q = r
      BY <1>3 DEF SignalInv, LockInv
    <2>3. \A q \in Proc : q \in guard' <=> proc'[q].pc \in {"decide", "persist"}
      BY <1>1, <1>2 DEF SignalInv, LockInv, At
    <2>4. \A q, r \in guard' : q = r
      BY <1>1 DEF SignalInv, LockInv
    <2> QED
      BY <2>1, <2>2, <2>3, <2>4 DEF LockInv
  <1>6. DecisionIsCurrent'
    <2>1. ASSUME NEW q \in Proc, At(q, "persist")'
          PROVE  proc'[q].out = Decision(proc[q])'
      <3>1. proc'[q] = proc[q]
        BY <1>2, <2>1 DEF At
      <3>2. proc[q].out = Decision(proc[q])
        BY <2>1, <3>1 DEF SignalInv, DecisionIsCurrent, At
      <3> QED
        BY <1>1, <3>1, <3>2, SameDecision
    <2> QED
      BY <2>1 DEF DecisionIsCurrent
  <1>7. ArtifactInv' /\ OneOwner' /\ DoneIsOver' /\ ReadOnce'
    BY <1>1, <1>2 DEF SignalInv, ArtifactInv, OneOwner, DoneIsOver, ReadOnce, At
  <1> QED
    BY <1>4, <1>5, <1>6, <1>7 DEF SignalInv

\* A step that only moves p on, in its own hand or to the admission lock.
LEMMA HandStep ==
  ASSUME SignalInv, NEW p \in Proc, NEW s \in Procs, Becomes(p, s),
         proc[p].pc \in {"call", "decide"}, s.pc \in {"decide", "persist"},
         s.item = proc[p].item, s.run = proc[p].run, s.call = proc[p].call,
         UNCHANGED <<trigger, cp, artifact, review, done, owner>>,
         guard' = {p}, guard \subseteq {p},
         s.pc = "persist" => s.out = Decision(s)
  PROVE  SignalInv'
  <1>1. TypeOK
    BY DEF SignalInv
  <1>2. /\ proc' \in [Proc -> Procs] /\ proc'[p] = s
        /\ \A q \in Proc \ {p} : proc'[q] = proc[q]
    BY <1>1, OneProc
  <1>3. TypeOK'
    BY <1>1, <1>2 DEF TypeOK
  <1>4. LockInv'
    <2>1. \A j \in Item, q \in Proc :
            q \in owner'[j] <=> ~At(q, "idle")' /\ proc'[q].item = j
      BY <1>2 DEF SignalInv, LockInv, At
    <2>2. \A q \in Proc : q \in guard' <=> proc'[q].pc \in {"decide", "persist"}
      BY <1>2 DEF SignalInv, LockInv
    <2> QED
      BY <2>1, <2>2 DEF SignalInv, LockInv
  <1>5. DecisionIsCurrent'
    <2>1. ASSUME NEW q \in Proc, At(q, "persist")'
          PROVE  proc'[q].out = Decision(proc[q])'
      <3>1. q = p
        BY <1>2, <2>1 DEF SignalInv, LockInv, At
      <3>2. s.pc = "persist" /\ s.out = Decision(s)
        BY <1>2, <2>1, <3>1 DEF At
      <3>3. Decision(s)' = Decision(s)
        BY DEF Decision, Prepared, Classified, NewestOf, Owners, Advanced, Duplicate
      <3> QED
        BY <1>2, <3>1, <3>2, <3>3 DEF Decision
    <2> QED
      BY <2>1 DEF DecisionIsCurrent
  <1>6. ArtifactInv' /\ OneOwner' /\ DoneIsOver' /\ ReadOnce'
    BY <1>2 DEF SignalInv, ArtifactInv, OneOwner, DoneIsOver, ReadOnce, At
  <1> QED
    BY <1>3, <1>4, <1>5, <1>6 DEF SignalInv

LEMMA TakeGuardKeepsInv ==
  ASSUME SignalInv, NEW p \in Proc, TakeGuard(p)
  PROVE  SignalInv'
  <1> DEFINE s == Goes(proc[p], "decide")
  <1>1. TypeOK /\ proc[p] \in Procs /\ proc[p].pc = "call" /\ guard = {} /\ guard' = {p}
        /\ Becomes(p, s) /\ UNCHANGED <<trigger, cp, artifact, review, done, owner>>
    BY ItemOfProc DEF SignalInv, TakeGuard, At
  <1>2. /\ s \in Procs /\ s.pc = "decide" /\ s.item = proc[p].item
        /\ s.run = proc[p].run /\ s.call = proc[p].call
    BY <1>1 DEF Goes, Procs
  <1> HIDE DEF s
  <1> QED
    BY <1>1, <1>2, HandStep

LEMMA DecideKeepsInv ==
  ASSUME SignalInv, NEW p \in Proc, Decide(p)
  PROVE  SignalInv'
  <1> DEFINE s == [proc[p] EXCEPT !.pc = "persist", !.out = Decision(proc[p])]
  <1>1. TypeOK /\ proc[p] \in Procs /\ proc[p].pc = "decide" /\ Becomes(p, s)
        /\ UNCHANGED <<trigger, cp, artifact, review, done, owner, guard>>
    BY ItemOfProc DEF SignalInv, Decide, At
  <1>2. Decision(proc[p]) \in Checkpoints
    BY <1>1, DecisionFits
  <1>3. /\ s \in Procs /\ s.pc = "persist" /\ s.item = proc[p].item
        /\ s.run = proc[p].run /\ s.call = proc[p].call
        /\ s.out = Decision(proc[p])
        /\ s.batch = proc[p].batch /\ s.stage = proc[p].stage /\ s.failed = proc[p].failed
    BY <1>1, <1>2 DEF Procs
  <1>4. Decision(s) = Decision(proc[p])
    BY <1>3 DEF Decision
  <1>5. guard = {p}
    BY <1>1 DEF SignalInv, LockInv, TypeOK
  <1> HIDE DEF s
  <1> QED
    BY <1>1, <1>3, <1>4, <1>5, HandStep


RunSteps == {"look", "fetch", "call", "prepared", "evidence", "finalize"}

LEMMA RunningIsOne ==
  ASSUME NEW i \in Item, NEW step \in RunSteps
  PROVE  /\ Running(i, step) \in Procs
         /\ Running(i, step).pc = step /\ Running(i, step).item = i
         /\ Running(i, step).call = "prepare"
  BY IdleIsOne DEF Running, Idle, Procs, RunSteps

LEMMA StepOverIsOne ==
  ASSUME NEW i \in Item, NEW b \in BOOLEAN
  PROVE  /\ StepOver(i, b) \in Procs
         /\ StepOver(i, b).pc = "review" /\ StepOver(i, b).item = i
         /\ StepOver(i, b).call = "prepare"
  BY IdleIsOne DEF Running, StepOver, Idle, Procs

\* The step of a run is over, and its WorkItem done or not.
LEMMA OverKeepsInv ==
  ASSUME SignalInv, NEW p \in Proc, proc[p].pc \in RunSteps,
         NEW b \in BOOLEAN, NEW d \in BOOLEAN,
         Becomes(p, StepOver(proc[p].item, b)),
         done' = [done EXCEPT ![proc[p].item] = d],
         d => LET c == cp[proc[p].item]
              IN  \/ c.status = "completed" /\ artifact[proc[p].item]
                  \/ c.status \in {"duplicate_trigger", "no_action"},
         UNCHANGED <<trigger, cp, artifact, review, owner, guard>>
  PROVE  SignalInv'
  <1> DEFINE i == proc[p].item
             s == StepOver(i, b)
  <1>1. /\ TypeOK /\ i \in Item /\ Fits(proc[p], cp[i], artifact[i], done[i])
    BY ItemOfProc, AllFit DEF SignalInv
  <1>2. s \in Procs /\ s.pc = "review" /\ s.item = i /\ s.call = "prepare"
    <2> HIDE DEF i
    <2> QED
      BY <1>1, StepOverIsOne
  <1>3. Becomes(p, s)
    OBVIOUS
  <1>4. /\ ~At(p, "idle") /\ proc[p].pc \notin {"decide", "persist"}
        /\ s.pc \notin {"idle", "decide", "persist"}
    BY <1>2 DEF RunSteps, At
  <1>5. /\ artifact' \in [Item -> BOOLEAN] /\ done' \in [Item -> BOOLEAN]
        /\ review' \in [Item -> BOOLEAN] /\ done'[i] = d /\ artifact'[i] = artifact[i]
        /\ \A j \in Item \ {i} : artifact'[j] = artifact[j] /\ done'[j] = done[j]
    BY <1>1 DEF TypeOK
  <1>6. Fits(s, cp[i], artifact'[i], done'[i])
    BY <1>1, <1>2, <1>5 DEF Fits
  <1> HIDE DEF s
  <1> QED
    BY <1>2, <1>3, <1>4, <1>5, <1>6, OwnStep

\* The run goes on: nothing has changed but what it has in hand.
LEMMA OnKeepsInv ==
  ASSUME SignalInv, NEW p \in Proc, proc[p].pc \in RunSteps, NEW s \in Procs, Becomes(p, s),
         s.pc \in RunSteps, s.item = proc[p].item,
         LET i == proc[p].item IN Fits(s, cp[i], artifact[i], done[i]),
         UNCHANGED <<trigger, cp, artifact, review, done, owner, guard>>
  PROVE  SignalInv'
  <1>1. /\ ~At(p, "idle") /\ proc[p].pc \notin {"decide", "persist"}
        /\ s.pc \notin {"idle", "decide", "persist"}
    BY DEF RunSteps, At
  <1>2. /\ artifact' \in [Item -> BOOLEAN] /\ done' \in [Item -> BOOLEAN]
        /\ review' \in [Item -> BOOLEAN]
        /\ \A j \in Item : artifact'[j] = artifact[j] /\ done'[j] = done[j]
    BY DEF SignalInv, TypeOK
  <1>3. s.item \in Item /\ Fits(s, cp[s.item], artifact'[s.item], done'[s.item])
    BY <1>2 DEF Procs
  <1> QED
    BY <1>1, <1>2, <1>3, OwnStep

\* What is done stays done when its step is blocked.
LEMMA BlocksKeepsInv ==
  ASSUME SignalInv, NEW p \in Proc, proc[p].pc \in RunSteps, Blocks(p, proc[p].item),
         UNCHANGED <<trigger, cp, artifact, review, owner, guard>>
  PROVE  SignalInv'
  <1>1. PICK i \in Item : i = proc[p].item
    BY ItemOfProc DEF SignalInv
  <1>2. /\ UNCHANGED done /\ Becomes(p, StepOver(i, FALSE))
        /\ done \in [Item -> BOOLEAN]
    BY <1>1 DEF Blocks, SignalInv, TypeOK
  <1>3. done' = [done EXCEPT ![i] = done[i]] /\ done[i] \in BOOLEAN
    BY <1>2
  <1>4. done[i] => \/ cp[i].status = "completed" /\ artifact[i]
                   \/ cp[i].status \in {"duplicate_trigger", "no_action"}
    BY DEF SignalInv, DoneIsOver
  <1> QED
    BY <1>1, <1>2, <1>3, <1>4, OverKeepsInv

LEMMA LookKeepsInv ==
  ASSUME SignalInv, NEW p \in Proc, Look(p)
  PROVE  SignalInv'
  <1> DEFINE i == proc[p].item
             over    == cp[i].status \in {"duplicate_trigger", "no_action"}
             whole   == cp[i].status = "completed" /\ done[i] /\ artifact[i]
             staged  == cp[i].status # "none" /\ artifact[i]
             missing == cp[i].stages > 0 /\ ~artifact[i]
  <1>1. /\ TypeOK /\ i \in Item /\ done[i] \in BOOLEAN /\ artifact[i] \in BOOLEAN
        /\ cp[i].stages \in 0 .. 4 /\ Fits(proc[p], cp[i], artifact[i], done[i])
        /\ done = [done EXCEPT ![i] = done[i]]
    BY ItemOfProc, AllFit, CheckpointFields DEF SignalInv, TypeOK, Fields
  <1>2. /\ proc[p].pc \in RunSteps
        /\ UNCHANGED <<trigger, cp, artifact, review, owner, guard>>
    BY DEF Look, At, RunSteps
  <1>3. CASE over /\ Closes(p, i)
    <2>1. done' = [done EXCEPT ![i] = TRUE] /\ Becomes(p, StepOver(i, ~done[i]))
      BY <1>3 DEF Closes
    <2> QED
      BY <1>1, <1>2, <1>3, <2>1, OverKeepsInv
  <1>4. CASE whole /\ Becomes(p, StepOver(i, FALSE)) /\ UNCHANGED done
    BY <1>1, <1>2, <1>4, OverKeepsInv
  <1>5. CASE Blocks(p, i)
    BY <1>2, <1>5, BlocksKeepsInv
  <1>6. CASE /\ ~over /\ ~whole /\ ~missing
             /\ Becomes(p, Running(i, IF staged THEN "evidence" ELSE "fetch"))
             /\ UNCHANGED done
    <2>1. PICK step \in {"evidence", "fetch"} :
            /\ Becomes(p, Running(i, step))
            /\ step = "evidence" => artifact[i]
            /\ step = "fetch" => cp[i].stages = 0 /\ ~artifact[i]
      <3>1. CASE staged
        BY <1>6, <3>1
      <3>2. CASE ~staged
        <4>1. ~artifact[i] /\ cp[i].stages = 0
          BY <1>1, <1>6, <3>2 DEF Fits
        <4> QED
          BY <1>6, <3>2, <4>1
      <3> QED
        BY <3>1, <3>2
    <2> DEFINE s == Running(i, step)
    <2>2. /\ s \in Procs /\ s.pc = step /\ s.item = i /\ s.call = "prepare"
      <3>1. i \in Item /\ step \in RunSteps
        BY <1>1 DEF RunSteps
      <3> HIDE DEF i
      <3> QED
        BY <3>1, RunningIsOne
    <2>3. UNCHANGED done
      BY <1>6
    <2> HIDE DEF s
    <2>4. Fits(s, cp[i], artifact[i], done[i])
      BY <1>1, <2>1, <2>2 DEF Fits
    <2> QED
      BY <1>2, <2>1, <2>2, <2>3, <2>4, OnKeepsInv DEF RunSteps, s
  <1>7. \/ over /\ Closes(p, i)
        \/ whole /\ Becomes(p, StepOver(i, FALSE)) /\ UNCHANGED done
        \/ Blocks(p, i)
        \/ /\ ~over /\ ~whole /\ ~missing
           /\ Becomes(p, Running(i, IF staged THEN "evidence" ELSE "fetch"))
           /\ UNCHANGED done
    BY DEF Look
  <1> QED
    BY <1>3, <1>4, <1>5, <1>6, <1>7

LEMMA FetchKeepsInv ==
  ASSUME SignalInv, NEW p \in Proc, NEW S \in SUBSET Rev, Fetch(p, S)
  PROVE  SignalInv'
  <1> DEFINE i == proc[p].item
             s == [Running(i, "call") EXCEPT !.batch = S]
  <1>1. /\ i \in Item /\ proc[p].pc \in RunSteps /\ Becomes(p, s)
        /\ Fits(proc[p], cp[i], artifact[i], done[i])
        /\ UNCHANGED <<trigger, cp, artifact, review, done, owner, guard>>
    BY ItemOfProc, AllFit DEF SignalInv, Fetch, At, RunSteps
  <1>2. s \in Procs /\ s.pc = "call" /\ s.item = i /\ s.call = "prepare"
    <2>1. /\ Running(i, "call") \in Procs /\ Running(i, "call").pc = "call"
          /\ Running(i, "call").item = i /\ Running(i, "call").call = "prepare"
      BY <1>1, RunningIsOne DEF RunSteps
    <2> QED
      BY <2>1 DEF Procs
  <1> HIDE DEF s
  <1>3. Fits(s, cp[i], artifact[i], done[i])
    BY <1>1, <1>2 DEF Fits
  <1> QED
    BY <1>1, <1>2, <1>3, OnKeepsInv DEF RunSteps

LEMMA FetchFailsKeepsInv ==
  ASSUME SignalInv, NEW p \in Proc, FetchFails(p)
  PROVE  SignalInv'
  <1>1. /\ proc[p].pc \in RunSteps
        /\ Blocks(p, proc[p].item)
        /\ UNCHANGED <<trigger, cp, artifact, review, owner, guard>>
    BY DEF FetchFails, At, RunSteps
  <1> QED
    BY <1>1, BlocksKeepsInv

LEMMA StageKeepsInv ==
  ASSUME SignalInv, NEW p \in Proc, Stage(p)
  PROVE  SignalInv'
  <1> DEFINE i == proc[p].item
             over == cp[i].status \in {"duplicate_trigger", "no_action"}
             kept == proc[p].batch \cap cp[i].admitted
  <1>1. /\ TypeOK /\ i \in Item /\ done[i] \in BOOLEAN /\ cp[i] \in Checkpoints
        /\ Fits(proc[p], cp[i], artifact[i], done[i]) /\ review \in [Item -> BOOLEAN]
    BY ItemOfProc, AllFit DEF SignalInv, TypeOK
  <1>2. proc[p].pc = "prepared" /\ UNCHANGED <<trigger, cp, review, owner, guard>>
    BY DEF Stage, At
  <1>3. CASE over /\ Closes(p, i) /\ UNCHANGED artifact
    <2>1. done' = [done EXCEPT ![i] = TRUE] /\ Becomes(p, StepOver(i, ~done[i]))
      BY <1>3 DEF Closes
    <2> QED
      BY <1>1, <1>2, <1>3, <2>1, OverKeepsInv DEF RunSteps
  <1>4. CASE Blocks(p, i) /\ UNCHANGED artifact
    BY <1>2, <1>4, BlocksKeepsInv DEF RunSteps
  <1>5. CASE /\ kept # {} /\ done' = [done EXCEPT ![i] = FALSE]
             /\ artifact' = [artifact EXCEPT ![i] = TRUE]
             /\ Becomes(p, Running(i, "evidence"))
    <2> DEFINE s == Running(i, "evidence")
    <2>1. cp[i].status # "none"
      <3>1. cp[i].status \in Owning
        BY <1>1, <1>5, CheckpointFields, CheckpointIff
      <3> QED
        BY <3>1 DEF Owning, Live
    <2>2. s \in Procs /\ s.pc = "evidence" /\ s.item = i /\ s.call = "prepare"
      BY <1>1, RunningIsOne DEF RunSteps
    <2>3. Becomes(p, s)
      BY <1>5
    <2> HIDE DEF s
    <2>4. Fits(s, cp[i], TRUE, FALSE)
      BY <2>1, <2>2 DEF Fits
    <2>5. /\ artifact' \in [Item -> BOOLEAN] /\ done' \in [Item -> BOOLEAN]
          /\ review' \in [Item -> BOOLEAN] /\ artifact'[i] = TRUE /\ done'[i] = FALSE
          /\ \A j \in Item \ {i} : artifact'[j] = artifact[j] /\ done'[j] = done[j]
      BY <1>1, <1>2, <1>5 DEF TypeOK
    <2>6. ~At(p, "idle") /\ proc[p].pc \notin {"decide", "persist"}
      BY <1>2 DEF At
    <2>7. Fits(s, cp[i], artifact'[i], done'[i])
      BY <2>4, <2>5
    <2> QED
      BY <1>2, <2>2, <2>3, <2>5, <2>6, <2>7, OwnStep
  <1>6. \/ over /\ Closes(p, i) /\ UNCHANGED artifact
        \/ Blocks(p, i) /\ UNCHANGED artifact
        \/ /\ kept # {} /\ done' = [done EXCEPT ![i] = FALSE]
           /\ artifact' = [artifact EXCEPT ![i] = TRUE]
           /\ Becomes(p, Running(i, "evidence"))
    BY DEF Stage
  <1> QED
    BY <1>3, <1>4, <1>5, <1>6

LEMMA EvidenceKeepsInv ==
  ASSUME SignalInv, NEW p \in Proc, Evidence(p)
  PROVE  SignalInv'
  <1> DEFINE i == proc[p].item
             next == cp[i].stages + 1
  <1>1. /\ TypeOK /\ i \in Item /\ cp[i].stages \in 0 .. 4
        /\ Fits(proc[p], cp[i], artifact[i], done[i]) /\ artifact[i]
    BY ItemOfProc, AllFit, CheckpointFields DEF SignalInv, ArtifactInv, Evidence, At, Fields
  <1>2. /\ proc[p].pc \in RunSteps
        /\ UNCHANGED <<trigger, cp, artifact, review, owner, guard>>
    BY DEF Evidence, At, RunSteps
  <1>3. CASE Becomes(p, Running(i, "finalize")) /\ UNCHANGED done
    <2> DEFINE s == Running(i, "finalize")
    <2>1. s \in Procs /\ s.pc = "finalize" /\ s.item = i /\ s.call = "prepare"
      BY <1>1, RunningIsOne DEF RunSteps
    <2>2. Becomes(p, s)
      BY <1>3
    <2> HIDE DEF s
    <2>3. Fits(s, cp[i], artifact[i], done[i])
      BY <1>1, <2>1 DEF Fits
    <2> QED
      BY <1>2, <1>3, <2>1, <2>2, <2>3, OnKeepsInv DEF RunSteps
  <1>4. CASE /\ cp[i].stages < 4 /\ UNCHANGED done
             /\ Becomes(p, [Running(i, "call") EXCEPT !.call = "advance", !.stage = next])
    <2> DEFINE s == [Running(i, "call") EXCEPT !.call = "advance", !.stage = next]
    <2>1. next \in 1 .. 4
      BY <1>1, <1>4
    <2>2. s \in Procs /\ s.pc = "call" /\ s.item = i
      <3>1. /\ Running(i, "call") \in Procs /\ Running(i, "call").pc = "call"
            /\ Running(i, "call").item = i
        BY <1>1, RunningIsOne DEF RunSteps
      <3> QED
        BY <2>1, <3>1 DEF Procs
    <2>3. Becomes(p, s)
      BY <1>4
    <2> HIDE DEF s
    <2>4. Fits(s, cp[i], artifact[i], done[i])
      BY <1>1, <2>2 DEF Fits
    <2> QED
      BY <1>2, <1>4, <2>2, <2>3, <2>4, OnKeepsInv DEF RunSteps
  <1>5. CASE Pauses(p, i, FALSE)
    <2>1. done' = [done EXCEPT ![i] = FALSE] /\ Becomes(p, StepOver(i, FALSE))
      BY <1>5 DEF Pauses
    <2> QED
      BY <1>2, <2>1, OverKeepsInv
  <1>6. \/ Becomes(p, Running(i, "finalize")) /\ UNCHANGED done
        \/ /\ cp[i].stages < 4 /\ UNCHANGED done
           /\ Becomes(p, [Running(i, "call") EXCEPT !.call = "advance", !.stage = next])
        \/ Pauses(p, i, FALSE)
    BY DEF Evidence
  <1> QED
    BY <1>3, <1>4, <1>5, <1>6

LEMMA FinalizeKeepsInv ==
  ASSUME SignalInv, NEW p \in Proc, Finalize(p)
  PROVE  SignalInv'
  <1> DEFINE i == proc[p].item
  <1>1. /\ proc[p].pc \in RunSteps /\ artifact[i]
        /\ UNCHANGED <<trigger, cp, artifact, review, owner, guard>>
    BY DEF SignalInv, ArtifactInv, Finalize, At, RunSteps
  <1>2. CASE cp[i].status = "completed"
    <2>1. done' = [done EXCEPT ![i] = TRUE] /\ Becomes(p, StepOver(i, TRUE))
      BY <1>2 DEF Finalize
    <2> QED
      BY <1>1, <1>2, <2>1, OverKeepsInv
  <1>3. CASE cp[i].status # "completed"
    <2>1. done' = [done EXCEPT ![i] = FALSE] /\ Becomes(p, StepOver(i, TRUE))
      BY <1>3 DEF Finalize, Pauses
    <2> QED
      BY <1>1, <2>1, OverKeepsInv
  <1> QED
    BY <1>2, <1>3


\* What p is about to write keeps a checkpoint one, what is done over, and gives
\* WorkItem i no revision that another WorkItem owns.
LEMMA WrittenFits ==
  ASSUME SignalInv, NEW p \in Proc, At(p, "persist")
  PROVE  LET i == proc[p].item
             c == proc[p].out
         IN  /\ i \in Item /\ c \in Checkpoints
             /\ cp[i].status # "none" => c.status # "none"
             /\ done[i] => \/ c.status = "completed" /\ artifact[i]
                           \/ c.status \in {"duplicate_trigger", "no_action"}
             /\ \A j \in Item \ {i} :
                  c.status \in Owning /\ cp[j].status \in Owning =>
                    c.admitted \cap cp[j].admitted = {}
  <1> DEFINE i == proc[p].item
             c == proc[p].out
  <1>1. /\ TypeOK /\ proc[p] \in Procs /\ i \in Item /\ c = Decision(proc[p])
        /\ Fits(proc[p], cp[i], artifact[i], done[i])
    BY ItemOfProc, AllFit DEF SignalInv, DecisionIsCurrent
  <1>2. /\ c \in Checkpoints
        /\ \/ /\ c.admitted = cp[i].admitted /\ c.stages >= cp[i].stages
              /\ c # cp[i] => cp[i].status \in Live
              /\ c.status \in Owning <=> cp[i].status \in Owning
              /\ c.status = "none" <=> cp[i].status = "none"
           \/ /\ c.status = "duplicate_trigger"
              /\ Same(i) # {} /\ Min(Same(i)) # i
           \/ /\ cp[i].status = "none"
              /\ c.status \in {"ready", "duplicate_trigger", "no_action"}
              /\ \A r \in c.admitted : Owners(r) = {}
    BY <1>1, DecisionFits
  <1> HIDE DEF c, i
  <1>3. CASE /\ c.admitted = cp[i].admitted
             /\ c # cp[i] => cp[i].status \in Live
             /\ c.status \in Owning <=> cp[i].status \in Owning
             /\ c.status = "none" <=> cp[i].status = "none"
    <2>1. done[i] => \/ c.status = "completed" /\ artifact[i]
                     \/ c.status \in {"duplicate_trigger", "no_action"}
      BY <1>1, <1>3 DEF Fits, Live
    <2>2. \A j \in Item \ {i} :
            c.status \in Owning /\ cp[j].status \in Owning =>
              c.admitted \cap cp[j].admitted = {}
      BY <1>1, <1>3 DEF SignalInv, OneOwner
    <2> QED
      BY <1>1, <1>2, <1>3, <2>1, <2>2 DEF c, i
  <1>4. CASE c.status = "duplicate_trigger"
    BY <1>1, <1>2, <1>4 DEF Owning, Live, c, i
  <1>5. CASE /\ cp[i].status = "none"
             /\ c.status \in {"ready", "duplicate_trigger", "no_action"}
             /\ \A r \in c.admitted : Owners(r) = {}
    <2>1. ~done[i]
      BY <1>1, <1>5 DEF Fits
    <2>2. ASSUME NEW j \in Item, cp[j].status \in Owning, NEW r \in c.admitted,
                 r \in cp[j].admitted
          PROVE  FALSE
      <3>1. j \in Owners(r)
        BY <2>2 DEF Owners
      <3> QED
        BY <1>5, <3>1
    <2> QED
      BY <1>1, <1>2, <1>5, <2>1, <2>2 DEF c, i
  <1> QED
    BY <1>2, <1>3, <1>4, <1>5

\* Once p has written, its checkpoint is stored and its process elsewhere.
LEMMA PersistEffect ==
  ASSUME SignalInv, NEW p \in Proc, Persist(p)
  PROVE  /\ TypeOK' /\ LockInv'
         /\ cp'[proc[p].item] = proc[p].out
         /\ \A j \in Item \ {proc[p].item} : cp'[j] = cp[j]
         /\ UNCHANGED <<trigger, artifact, done>>
         /\ \A q \in Proc \ {p} : proc'[q] = proc[q]
         /\ proc'[p].pc \in {"idle", "prepared", "finalize"}
         /\ proc'[p].call = "prepare"
         /\ proc'[p].pc = "finalize" =>
              /\ proc'[p].item = proc[p].item
              /\ proc[p].run /\ proc[p].call = "advance"
  <1> DEFINE i == proc[p].item
             s == proc[p]
  <1>1. /\ TypeOK /\ s \in Procs /\ i \in Item /\ s.pc = "persist" /\ s.out \in Checkpoints
        /\ UNCHANGED <<trigger, artifact, done>> /\ s.batch \in SUBSET Rev
        /\ cp' = [cp EXCEPT ![i] = s.out]
    BY ItemOfProc DEF SignalInv, Persist, At, Procs
  <1>2. /\ cp' \in [Item -> Checkpoints] /\ cp'[i] = s.out
        /\ \A j \in Item \ {i} : cp'[j] = cp[j]
        /\ review' \in [Item -> BOOLEAN]
    <2>1. cp' \in [Item -> Checkpoints] /\ cp'[i] = s.out
          /\ \A j \in Item \ {i} : cp'[j] = cp[j]
      BY <1>1 DEF TypeOK
    <2>2. review' \in [Item -> BOOLEAN]
      <3>1. PICK b \in BOOLEAN : review' = [review EXCEPT ![i] = @ /\ ~b]
        BY DEF Persist
      <3> QED
        BY <1>1, <3>1 DEF TypeOK
    <2> QED
      BY <2>1, <2>2
  <1>3. CASE s.run /\ guard' = guard \ {p} /\ UNCHANGED owner
             /\ Becomes(p, IF s.call = "prepare"
                           THEN [Running(i, "prepared") EXCEPT !.batch = s.batch]
                           ELSE Running(i, "finalize"))
    <2>1. PICK r \in Procs :
            /\ Becomes(p, r) /\ r.item = i /\ r.call = "prepare"
            /\ \/ r.pc = "prepared"
               \/ r.pc = "finalize" /\ s.call = "advance"
      <3>1. CASE s.call = "prepare"
        <4> DEFINE r == [Running(i, "prepared") EXCEPT !.batch = s.batch]
        <4>1. Becomes(p, r)
          BY <1>3, <3>1
        <4>2. r \in Procs /\ r.item = i /\ r.call = "prepare" /\ r.pc = "prepared"
          <5>1. /\ Running(i, "prepared") \in Procs /\ Running(i, "prepared").pc = "prepared"
                /\ Running(i, "prepared").item = i /\ Running(i, "prepared").call = "prepare"
            BY <1>1, RunningIsOne DEF RunSteps
          <5> QED
            BY <1>1, <5>1 DEF Procs
        <4> HIDE DEF r
        <4> QED
          BY <4>1, <4>2
      <3>2. CASE s.call # "prepare"
        <4> DEFINE r == Running(i, "finalize")
        <4>1. Becomes(p, r)
          BY <1>3, <3>2
        <4>2. r \in Procs /\ r.item = i /\ r.call = "prepare" /\ r.pc = "finalize"
          BY <1>1, RunningIsOne DEF RunSteps
        <4>3. s.call = "advance"
          BY <1>1, <3>2 DEF Procs
        <4> HIDE DEF r
        <4> QED
          BY <4>1, <4>2, <4>3
      <3> QED
        BY <3>1, <3>2
    <2>2. /\ proc' \in [Proc -> Procs] /\ proc'[p] = r
          /\ \A q \in Proc \ {p} : proc'[q] = proc[q]
      BY <1>1, <2>1, OneProc
    <2>3. TypeOK'
      BY <1>1, <1>2, <1>3, <2>2 DEF TypeOK
    <2>4. LockInv'
      <3>1. \A j \in Item, q \in Proc :
              q \in owner'[j] <=> ~At(q, "idle")' /\ proc'[q].item = j
        BY <1>1, <1>3, <2>1, <2>2 DEF SignalInv, LockInv, At
      <3>2. \A q \in Proc : q \in guard' <=> proc'[q].pc \in {"decide", "persist"}
        BY <1>3, <2>1, <2>2 DEF SignalInv, LockInv
      <3>3. (\A j \in Item : \A q, o \in owner'[j] : q = o) /\ \A q, o \in guard' : q = o
        BY <1>3 DEF SignalInv, LockInv
      <3> QED
        BY <3>1, <3>2, <3>3 DEF LockInv
    <2> QED
      BY <1>1, <1>2, <1>3, <2>1, <2>2, <2>3, <2>4
  <1>4. CASE Ends(p)
    <2>1. /\ proc' \in [Proc -> Procs] /\ proc'[p] = Idle
          /\ \A q \in Proc \ {p} : proc'[q] = proc[q]
      BY <1>1, <1>4, IdleIsOne, OneProc DEF Ends
    <2>2. LockInv' /\ owner' \in [Item -> SUBSET Proc] /\ guard' \in SUBSET Proc
      BY <1>4, EndFreesLocks
    <2>3. TypeOK'
      BY <1>1, <1>2, <2>1, <2>2 DEF TypeOK
    <2> QED
      BY <1>1, <1>2, <2>1, <2>2, <2>3 DEF Idle
  <1> QED
    BY <1>3, <1>4 DEF Persist

LEMMA PersistKeepsInv ==
  ASSUME SignalInv, NEW p \in Proc, Persist(p)
  PROVE  SignalInv'
  <1> DEFINE i == proc[p].item
             c == proc[p].out
  <1>1. /\ i \in Item /\ c \in Checkpoints
        /\ cp[i].status # "none" => c.status # "none"
        /\ done[i] => \/ c.status = "completed" /\ artifact[i]
                      \/ c.status \in {"duplicate_trigger", "no_action"}
        /\ \A j \in Item \ {i} :
             c.status \in Owning /\ cp[j].status \in Owning =>
               c.admitted \cap cp[j].admitted = {}
    BY WrittenFits DEF Persist
  <1>2. /\ TypeOK' /\ LockInv'
        /\ cp'[i] = c /\ (\A j \in Item \ {i} : cp'[j] = cp[j])
        /\ UNCHANGED <<trigger, artifact, done>>
        /\ \A q \in Proc \ {p} : proc'[q] = proc[q]
        /\ proc'[p].pc \in {"idle", "prepared", "finalize"}
        /\ proc'[p].call = "prepare"
        /\ proc'[p].pc = "finalize" => proc'[p].item = i /\ proc[p].run /\ proc[p].call = "advance"
    BY PersistEffect
  <1>3. ~At(p, "idle") /\ p \in guard
    BY DEF Persist, At, SignalInv, LockInv
  <1> HIDE DEF c, i
  <1>4. DecisionIsCurrent'
    <2>1. ASSUME NEW q \in Proc, At(q, "persist")'
          PROVE  FALSE
      <3>1. q # p /\ At(q, "persist")
        BY <1>2, <2>1 DEF At
      <3> QED
        BY <1>3, <3>1 DEF SignalInv, LockInv, At
    <2> QED
      BY <2>1 DEF DecisionIsCurrent
  <1>5. ArtifactInv'
    <2>1. \A j \in Item : artifact'[j] => cp'[j].status # "none"
      BY <1>1, <1>2 DEF SignalInv, ArtifactInv
    <2>2. ASSUME NEW q \in Proc,
                 \/ proc'[q].pc \in {"evidence", "finalize"}
                 \/ proc'[q].run /\ proc'[q].call = "advance"
          PROVE  artifact'[proc'[q].item]
      <3>1. CASE q = p
        <4>1. proc'[p].item = i /\ proc[p].run /\ proc[p].call = "advance"
          BY <1>2, <2>2, <3>1
        <4> QED
          BY <1>2, <3>1, <4>1 DEF SignalInv, ArtifactInv, i
      <3>2. CASE q # p
        BY <1>2, <2>2, <3>2 DEF SignalInv, ArtifactInv
      <3> QED
        BY <3>1, <3>2
    <2> QED
      BY <2>1, <2>2 DEF ArtifactInv
  <1>6. OneOwner'
    BY <1>1, <1>2 DEF SignalInv, OneOwner
  <1>7. DoneIsOver'
    BY <1>1, <1>2 DEF SignalInv, DoneIsOver
  <1>8. ReadOnce'
    <2>1. ASSUME NEW q \in Proc, At(q, "fetch")'
          PROVE  cp'[proc'[q].item].stages = 0 /\ ~artifact'[proc'[q].item]
      <3>1. q # p /\ proc'[q] = proc[q] /\ At(q, "fetch")
        BY <1>2, <2>1 DEF At
      <3>2. proc[q].item # i /\ proc[q].item \in Item
        BY <1>3, <3>1, OthersElsewhere, ItemOfProc DEF At, SignalInv, i
      <3> QED
        BY <1>2, <3>1, <3>2 DEF SignalInv, ReadOnce
    <2> QED
      BY <2>1 DEF ReadOnce
  <1> QED
    BY <1>2, <1>4, <1>5, <1>6, <1>7, <1>8 DEF SignalInv

LEMMA ReviewKeepsInv ==
  ASSUME SignalInv, NEW p \in Proc, NEW blocks \in BOOLEAN, Review(p, blocks)
  PROVE  SignalInv'
  <1> DEFINE i == proc[p].item
  <1>1. /\ TypeOK /\ i \in Item /\ proc[p].pc = "review"
        /\ Fits(proc[p], cp[i], artifact[i], done[i])
        /\ UNCHANGED <<trigger, cp, artifact>>
        /\ review' = [review EXCEPT ![i] = @ \/ ~blocks]
        /\ done' = [done EXCEPT ![i] = @ /\ ~blocks]
    BY ItemOfProc, AllFit DEF SignalInv, Review, At
  <1>2. /\ review' \in [Item -> BOOLEAN] /\ done' \in [Item -> BOOLEAN]
        /\ \A j \in Item : done'[j] => done[j]
        /\ \A j \in Item \ {i} : done'[j] = done[j]
    BY <1>1 DEF TypeOK
  <1>3. CASE Becomes(p, Running(i, "look")) /\ UNCHANGED <<owner, guard>>
    <2> DEFINE s == Running(i, "look")
    <2>1. s \in Procs /\ s.pc = "look" /\ s.item = i /\ s.call = "prepare"
      <3> HIDE DEF i
      <3> QED
        BY <1>1, RunningIsOne DEF RunSteps
    <2>2. /\ artifact' \in [Item -> BOOLEAN] /\ \A j \in Item : artifact'[j] = artifact[j]
      BY <1>1 DEF TypeOK
    <2> HIDE DEF s
    <2>3. Fits(s, cp[i], artifact'[i], done'[i])
      BY <1>1, <1>2, <2>1, <2>2 DEF Fits
    <2> QED
      BY <1>1, <1>2, <1>3, <2>1, <2>2, <2>3, OwnStep DEF At, s
  <1>4. CASE Ends(p)
    BY <1>1, <1>2, <1>4, EndKeepsInv
  <1> QED
    BY <1>3, <1>4 DEF Review


-----------------------------------------------------------------------------
(* The theorems.                                                           *)

LEMMA InitEstablishesInv ==
  ASSUME Init
  PROVE  SignalInv
  <1>1. TypeOK
    BY IdleIsOne, NoCheckpointIsOne DEF Init, TypeOK
  <1>2. LockInv
    BY DEF Init, LockInv, At, Idle
  <1>3. DecisionIsCurrent /\ ArtifactInv /\ ReadOnce /\ DoneIsOver
    BY DEF Init, DecisionIsCurrent, ArtifactInv, ReadOnce, DoneIsOver, At, Idle
  <1>4. OneOwner
    BY DEF Init, OneOwner, NoCheckpoint, Owning, Live
  <1> QED
    BY <1>1, <1>2, <1>3, <1>4 DEF SignalInv

LEMMA StutterKeepsInv ==
  ASSUME SignalInv, UNCHANGED vars
  PROVE  SignalInv'
  <1>1. \A p \in Proc : Decision(proc[p])' = Decision(proc[p])
    BY SameDecision DEF vars
  <1>2. DecisionIsCurrent'
    BY <1>1 DEF SignalInv, DecisionIsCurrent, At, vars
  <1> QED
    BY <1>2 DEF SignalInv, TypeOK, LockInv, ArtifactInv, OneOwner, DoneIsOver, ReadOnce, At, vars

LEMMA StepKeepsInv ==
  ASSUME SignalInv, Next
  PROVE  SignalInv'
  <1>1. PICK p \in Proc :
          \/ \E i \in Item : Run(p, i)
          \/ \E i \in Item, S \in SUBSET Rev : CallPrepare(p, i, S)
          \/ \E i \in Item, n \in Reported, failed \in BOOLEAN : CallAdvance(p, i, n, failed)
          \/ Look(p)
          \/ \E S \in SUBSET Rev : Fetch(p, S)
          \/ FetchFails(p)
          \/ TakeGuard(p) \/ Decide(p) \/ Persist(p)
          \/ Stage(p) \/ Evidence(p) \/ Finalize(p)
          \/ \E blocks \in BOOLEAN : Review(p, blocks)
          \/ Leave(p) \/ Crash(p)
    BY DEF Next
  <1>2. ASSUME NEW i \in Item, Run(p, i)
        PROVE  SignalInv'
    <2>1. /\ Running(i, "look") \in Procs /\ Running(i, "look").pc = "look"
          /\ Running(i, "look").call = "prepare"
      BY RunningIsOne DEF RunSteps
    <2> QED
      BY <1>2, <2>1, BeginKeepsInv DEF Run
  <1>3. ASSUME NEW i \in Item, NEW S \in SUBSET Rev, CallPrepare(p, i, S)
        PROVE  SignalInv'
    <2> DEFINE s == [Idle EXCEPT !.pc = "call", !.item = i, !.batch = S]
    <2>1. s \in Procs /\ s.pc = "call" /\ ~s.run
      BY IdleIsOne DEF Idle, Procs
    <2>2. Begin(p, s)
      BY <1>3 DEF CallPrepare, Call
    <2> HIDE DEF s
    <2> QED
      BY <2>1, <2>2, BeginKeepsInv
  <1>4. ASSUME NEW i \in Item, NEW n \in Reported, NEW failed \in BOOLEAN,
               CallAdvance(p, i, n, failed)
        PROVE  SignalInv'
    <2> DEFINE s == [Idle EXCEPT !.pc = "call", !.item = i, !.call = "advance",
                                 !.stage = n, !.failed = failed]
    <2>1. s \in Procs /\ s.pc = "call" /\ ~s.run
      BY IdleIsOne, SignalAssumption DEF Idle, Procs
    <2>2. Begin(p, s)
      BY <1>4 DEF CallAdvance, Call
    <2> HIDE DEF s
    <2> QED
      BY <2>1, <2>2, BeginKeepsInv
  <1>5. ASSUME Leave(p) \/ Crash(p)
        PROVE  SignalInv'
    <2>1. Ends(p) /\ UNCHANGED <<trigger, cp, artifact, review, done>>
      BY <1>5 DEF Leave, Crash
    <2>2. review' \in [Item -> BOOLEAN] /\ done' \in [Item -> BOOLEAN]
      BY <2>1 DEF SignalInv, TypeOK
    <2> QED
      BY <2>1, <2>2, EndKeepsInv
  <1> QED
    BY <1>1, <1>2, <1>3, <1>4, <1>5, LookKeepsInv, FetchKeepsInv, FetchFailsKeepsInv,
       TakeGuardKeepsInv, DecideKeepsInv, PersistKeepsInv, StageKeepsInv,
       EvidenceKeepsInv, FinalizeKeepsInv, ReviewKeepsInv

\* The inductive invariant: the locks make each WorkItem one process' own, and a
\* decision under the admission lock is still current when it is written.
THEOREM SignalInvHolds == Spec => []SignalInv
  <1>1. SignalInv /\ [Next]_vars => SignalInv'
    BY StepKeepsInv, StutterKeepsInv
  <1> QED
    BY <1>1, InitEstablishesInv, PTL DEF Spec

\* Checkpoints, artifacts, locks and what processes hold have their types.
THEOREM SignalTypeCorrect == Spec => []TypeOK
  BY SignalInvHolds, PTL DEF SignalInv

\* No two WorkItems own the same revision, however many triggers are decided about
\* at the same time (_signal_admission_guard).
THEOREM RevisionsHaveOneOwner == Spec => []OneOwner
  BY SignalInvHolds, PTL DEF SignalInv

\* A WorkItem that says "done" has nothing left to do (_finalize_signal_context_work_item).
THEOREM DoneWorkIsOver == Spec => []DoneIsOver
  BY SignalInvHolds, PTL DEF SignalInv

\* The provider is not read for a WorkItem that has its context or has got anywhere
\* (_advance_announcement_context_agent).
THEOREM SourcesAreReadOnce == Spec => []ReadOnce
  BY SignalInvHolds, PTL DEF SignalInv

-----------------------------------------------------------------------------
(* What owners keep.                                                       *)

Kept(i) ==
  /\ cp'[i].status \in Owning
  /\ cp'[i].stages >= cp[i].stages
  /\ cp'[i].admitted = cp[i].admitted

LEMMA UnchangedIsKept ==
  ASSUME TypeOK, NEW i \in Item, cp[i].status \in Owning, cp'[i] = cp[i]
  PROVE  Kept(i)
  <1>1. cp[i].stages \in 0 .. 4
    BY CheckpointFields DEF TypeOK, Fields
  <1> QED
    BY <1>1 DEF Kept

\* Only writing changes a checkpoint.
LEMMA OthersKeepCheckpoints ==
  ASSUME [Next]_vars, \A p \in Proc : ~Persist(p)
  PROVE  UNCHANGED cp
  <1>1. ASSUME NEW p \in Proc, NEW s, Begin(p, s)
        PROVE  UNCHANGED cp
    BY <1>1 DEF Begin
  <1>2. ASSUME NEW p \in Proc,
               \/ Look(p) \/ (\E S \in SUBSET Rev : Fetch(p, S)) \/ FetchFails(p)
               \/ TakeGuard(p) \/ Decide(p)
        PROVE  UNCHANGED cp
    BY <1>2 DEF Look, Fetch, FetchFails, TakeGuard, Decide
  <1>3. ASSUME NEW p \in Proc, Stage(p) \/ Evidence(p) \/ Finalize(p)
        PROVE  UNCHANGED cp
    BY <1>3 DEF Stage, Evidence, Finalize
  <1>4. ASSUME NEW p \in Proc,
               (\E blocks \in BOOLEAN : Review(p, blocks)) \/ Leave(p) \/ Crash(p)
        PROVE  UNCHANGED cp
    BY <1>4 DEF Review, Leave, Crash
  <1>5. CASE Next
    BY <1>1, <1>2, <1>3, <1>4, <1>5 DEF Next, Run, CallPrepare, CallAdvance, Call
  <1> QED
    BY <1>5 DEF vars

LEMMA PersistKeepsWork ==
  ASSUME SignalInv, NEW p \in Proc, Persist(p), NEW i \in Item, cp[i].status \in Owning,
         \A j \in 1 .. i - 1 : trigger[j] = trigger[i] => cp[j].status = "none"
  PROVE  Kept(i)
  <1>1. /\ TypeOK /\ proc[p] \in Procs /\ proc[p].out = Decision(proc[p])
        /\ cp'[proc[p].item] = proc[p].out
        /\ \A j \in Item \ {proc[p].item} : cp'[j] = cp[j]
    BY ItemOfProc, PersistEffect DEF SignalInv, DecisionIsCurrent, Persist, At
  <1>2. CASE i # proc[p].item
    BY <1>1, <1>2, UnchangedIsKept
  <1>3. CASE i = proc[p].item
    <2> DEFINE c == Decision(proc[p])
    <2>1. \/ /\ c.admitted = cp[i].admitted /\ c.stages >= cp[i].stages
             /\ c.status \in Owning <=> cp[i].status \in Owning
          \/ Same(i) # {} /\ Min(Same(i)) # i
          \/ cp[i].status = "none"
      BY <1>1, <1>3, DecisionFits
    <2>2. cp[i].status # "none"
      BY DEF Owning, Live
    <2>3. Min(Same(i)) = i
      <3>1. i \in Same(i) /\ Same(i) \in SUBSET Item
        BY <2>2 DEF Same
      <3>2. ASSUME NEW j \in Same(i)
            PROVE  i <= j
        <4>1. j \in Item /\ trigger[j] = trigger[i] /\ cp[j].status # "none"
          BY DEF Same
        <4>2. j \notin 1 .. i - 1
          BY <4>1
        <4> QED
          BY <4>1, <4>2, SignalAssumption DEF Item
      <3> QED
        BY <3>1, <3>2, SmallestIsMin
    <2>4. cp'[i] = c
      BY <1>1, <1>3
    <2> HIDE DEF c
    <2> QED
      BY <2>1, <2>2, <2>3, <2>4 DEF Kept
  <1> QED
    BY <1>2, <1>3

\* An owner keeps its revisions and its completed stages, unless a WorkItem with a
\* smaller id has a checkpoint of its trigger
\* (_prepare_signal_lifecycle_checkpoint_under_guard).
THEOREM OwnersAlwaysKeepWork == Spec => OwnersKeepWork
  <1>1. ASSUME SignalInv, [Next]_vars, NEW i \in Item, cp[i].status \in Owning,
               \A j \in 1 .. i - 1 : trigger[j] = trigger[i] => cp[j].status = "none"
        PROVE  Kept(i)
    <2>1. CASE \E p \in Proc : Persist(p)
      BY <1>1, <2>1, PersistKeepsWork
    <2>2. CASE \A p \in Proc : ~Persist(p)
      BY <1>1, <2>2, OthersKeepCheckpoints, UnchangedIsKept DEF SignalInv
    <2> QED
      BY <2>1, <2>2
  <1>2. SignalInv /\ [Next]_vars =>
          [\A i \in Item :
             /\ cp[i].status \in Owning
             /\ \A j \in 1 .. i - 1 : trigger[j] = trigger[i] => cp[j].status = "none"
             => /\ cp'[i].status \in Owning
                /\ cp'[i].stages >= cp[i].stages
                /\ cp'[i].admitted = cp[i].admitted]_vars
    BY <1>1 DEF Kept
  <1> QED
    BY <1>2, SignalInvHolds, PTL DEF Spec, OwnersKeepWork

-----------------------------------------------------------------------------
(* The refinement: decisions as RevisionOwners sees them.                  *)

Seen   == [i \in Item |-> cp[i].status # "none"]
Owns   == [i \in Item |-> cp[i].admitted]
Staged == [i \in Item |-> cp[i].stages]

\* What is admitted has one revision of a source.
LEMMA NewestAreDistinct ==
  ASSUME NEW S \in SUBSET Rev, NEW q \in NewestOf(S), NEW r \in NewestOf(S),
         q.source = r.source
  PROVE  q = r
  <1>1. /\ q \in Rev /\ r \in Rev
        /\ q.version <= r.version /\ r.version <= q.version
    BY DEF NewestOf
  <1>2. q.version \in Nat /\ r.version \in Nat
    BY <1>1 DEF Rev
  <1>3. q.version = r.version
    BY <1>1, <1>2
  <1> QED
    BY <1>1, <1>3 DEF Rev

LEMMA ClassifiedIsAdmission ==
  ASSUME TypeOK, NEW S \in SUBSET Rev
  PROVE  LET c == Classified(S)
         IN  /\ c.stages = 0
             /\ c.admitted \in SUBSET Rev
             /\ \A q, r \in c.admitted : q.source = r.source => q = r
  <1> DEFINE admitted == {r \in NewestOf(S) : Owners(r) = {}}
             owners   == {Max(Owners(r)) : r \in {q \in S : Owners(q) # {}}}
  <1>1. admitted \in SUBSET Rev /\ \A q, r \in admitted : q.source = r.source => q = r
    <2>1. admitted \in SUBSET NewestOf(S) /\ NewestOf(S) \in SUBSET Rev
      BY DEF NewestOf
    <2> QED
      BY <2>1, NewestAreDistinct
  <1>2. Classified(S) =
          CASE admitted # {} -> [NoCheckpoint EXCEPT !.status = "ready", !.admitted = admitted]
            [] admitted = {} /\ owners # {} -> Duplicate(owners)
            [] OTHER -> [NoCheckpoint EXCEPT !.status = "no_action"]
    BY DEF Classified
  <1> HIDE DEF admitted, owners
  <1>3. /\ Classified(S).stages = 0
        /\ Classified(S).admitted = admitted \/ Classified(S).admitted = {}
    <2>1. CASE admitted # {}
      BY <1>2, <2>1 DEF NoCheckpoint
    <2>2. CASE admitted = {} /\ owners # {}
      BY <1>2, <2>2 DEF NoCheckpoint, Duplicate
    <2>3. CASE admitted = {} /\ owners = {}
      BY <1>2, <2>3 DEF NoCheckpoint
    <2> QED
      BY <2>1, <2>2, <2>3
  <1> QED
    BY <1>1, <1>3

\* A checkpoint is advanced by one stage, or by none.
LEMMA AdvancedByOne ==
  ASSUME NEW c \in Checkpoints, NEW stage \in 1 .. 4, NEW failed \in BOOLEAN
  PROVE  LET d == Advanced(c, stage, failed)
         IN  \/ d.stages = c.stages
             \/ /\ d.stages = c.stages + 1 /\ c.stages < 4
                /\ c.status \in Live
  <1>1. c \in Fields
    BY CheckpointFields
  <1>2. c.stages \in 0 .. 4
    BY <1>1 DEF Fields
  <1>3. CASE c.status \notin Live \/ stage # c.stages + 1
    BY <1>3 DEF Advanced
  <1>4. CASE c.status \in Live /\ stage = c.stages + 1 /\ failed
    <2>1. Advanced(c, stage, failed) = [c EXCEPT !.status = "partial_failure"]
      BY <1>4 DEF Advanced
    <2> QED
      BY <1>1, <2>1 DEF Fields
  <1>5. CASE c.status \in Live /\ stage = c.stages + 1 /\ ~failed
    <2>1. Advanced(c, stage, failed) =
            [c EXCEPT !.status = IF stage = 4 THEN "completed" ELSE "ready",
                      !.stages = stage]
      BY <1>5 DEF Advanced
    <2>2. Advanced(c, stage, failed).stages = stage
      BY <1>1, <2>1 DEF Fields
    <2> QED
      BY <1>2, <1>5, <2>2
  <1> QED
    BY <1>3, <1>4, <1>5

\* A decision admits, suppresses, goes one stage on, or leaves all as it is.
LEMMA DecisionIsPromised ==
  ASSUME TypeOK, NEW s \in Procs
  PROVE  LET i == s.item
             c == Decision(s)
         IN  \/ /\ Same(i) = {}
                /\ c.status # "none" /\ c.stages = 0 /\ c.admitted \in SUBSET Rev
                /\ \A q, r \in c.admitted : q.source = r.source => q = r
                /\ \A r \in c.admitted : Owners(r) = {}
             \/ /\ \E j \in Same(i) : j # i /\ (cp[i].status # "none" => j < i)
                /\ c.status # "none" /\ c.stages = 0 /\ c.admitted = {}
             \/ /\ c.admitted = cp[i].admitted
                /\ c.status = "none" <=> cp[i].status = "none"
                /\ \/ c.stages = cp[i].stages
                   \/ /\ c.stages = cp[i].stages + 1 /\ cp[i].stages < 4
                      /\ cp[i].status \in Live
  <1> DEFINE i == s.item
  <1>1. /\ i \in Item /\ s.batch \in SUBSET Rev /\ s.stage \in 1 .. 4 /\ s.failed \in BOOLEAN
        /\ s.call \in {"prepare", "advance"} /\ cp[i] \in Checkpoints
    BY DEF TypeOK, Procs
  <1>2. CASE s.call = "prepare"
    <2>1. Decision(s) = Prepared(i, s.batch)
      BY <1>2 DEF Decision
    <2>2. CASE Same(i) = {} /\ Prepared(i, s.batch) = Classified(s.batch)
      <3>1. /\ Classified(s.batch).status # "none"
            /\ \A r \in Classified(s.batch).admitted : Owners(r) = {}
        BY <1>1, ClassifiedFits
      <3> QED
        BY <1>1, <2>1, <2>2, <3>1, ClassifiedIsAdmission
    <2>3. CASE Prepared(i, s.batch) = cp[i]
      BY <2>1, <2>3
    <2>4. CASE /\ Same(i) # {} /\ Min(Same(i)) # i
               /\ Prepared(i, s.batch) = Duplicate({Min(Same(i))})
      <3>1. Same(i) \in SUBSET Item
        BY DEF Same
      <3>2. Min(Same(i)) \in Same(i) /\ \A j \in Same(i) : Min(Same(i)) <= j
        BY <2>4, <3>1, MinIsMember DEF Min
      <3>3. cp[i].status # "none" => i \in Same(i)
        BY <1>1 DEF Same
      <3>4. Min(Same(i)) \in Nat /\ i \in Nat
        BY <1>1, <3>1, <3>2, ItemsAreNats
      <3>5. cp[i].status # "none" => Min(Same(i)) < i
        BY <2>4, <3>2, <3>3, <3>4
      <3> QED
        BY <2>1, <2>4, <3>2, <3>5 DEF Duplicate, NoCheckpoint
    <2> QED
      BY <1>1, <2>2, <2>3, <2>4, PreparedCases
  <1>3. CASE s.call = "advance"
    <2> DEFINE c == cp[i]
    <2>1. Decision(s) = Advanced(c, s.stage, s.failed)
      BY <1>3 DEF Decision
    <2>2. c \in Checkpoints
      BY <1>1
    <2> HIDE DEF c
    <2>3. LET d == Advanced(c, s.stage, s.failed)
          IN  /\ d.admitted = c.admitted
              /\ d.status = "none" <=> c.status = "none"
              /\ \/ d.stages = c.stages
                 \/ d.stages = c.stages + 1 /\ c.stages < 4 /\ c.status \in Live
      BY <1>1, <2>2, AdvancedFits, AdvancedByOne
    <2> QED
      BY <2>1, <2>3 DEF c
  <1> QED
    BY <1>1, <1>2, <1>3

\* No WorkItem is given to another trigger.
LEMMA TriggersStay ==
  ASSUME [Next]_vars
  PROVE  UNCHANGED trigger
  <1>1. ASSUME NEW p \in Proc, NEW s, Begin(p, s)
        PROVE  UNCHANGED trigger
    BY <1>1 DEF Begin
  <1>2. ASSUME NEW p \in Proc,
               \/ Look(p) \/ (\E S \in SUBSET Rev : Fetch(p, S)) \/ FetchFails(p)
               \/ TakeGuard(p) \/ Decide(p) \/ Persist(p)
        PROVE  UNCHANGED trigger
    BY <1>2 DEF Look, Fetch, FetchFails, TakeGuard, Decide, Persist
  <1>3. ASSUME NEW p \in Proc,
               \/ Stage(p) \/ Evidence(p) \/ Finalize(p)
               \/ (\E blocks \in BOOLEAN : Review(p, blocks)) \/ Leave(p) \/ Crash(p)
        PROVE  UNCHANGED trigger
    BY <1>3 DEF Stage, Evidence, Finalize, Review, Leave, Crash
  <1>4. CASE Next
    BY <1>1, <1>2, <1>3, <1>4 DEF Next, Run, CallPrepare, CallAdvance, Call
  <1> QED
    BY <1>4 DEF vars

\* Writing a decision is a step of RevisionOwners: the admission lock has kept it current.
LEMMA PersistIsPromised ==
  ASSUME SignalInv, NEW p \in Proc, Persist(p)
  PROVE  Promise!Next \/ UNCHANGED Promise!vars
  <1>0. PICK i \in Item : i = proc[p].item
    BY ItemOfProc DEF SignalInv
  <1> DEFINE c == Decision(proc[p])
  <1>1. /\ TypeOK /\ proc[p] \in Procs
        /\ cp'[i] = c
        /\ \A j \in Item \ {i} : cp'[j] = cp[j]
        /\ UNCHANGED trigger
    BY <1>0, PersistEffect DEF SignalInv, TypeOK, DecisionIsCurrent, Persist, At
  <1>2. \/ /\ Same(i) = {}
           /\ c.status # "none" /\ c.stages = 0 /\ c.admitted \in SUBSET Rev
           /\ \A q, r \in c.admitted : q.source = r.source => q = r
           /\ \A r \in c.admitted : Owners(r) = {}
        \/ /\ \E j \in Same(i) : j # i /\ (cp[i].status # "none" => j < i)
           /\ c.status # "none" /\ c.stages = 0 /\ c.admitted = {}
        \/ /\ c.admitted = cp[i].admitted
           /\ c.status = "none" <=> cp[i].status = "none"
           /\ \/ c.stages = cp[i].stages
              \/ /\ c.stages = cp[i].stages + 1 /\ cp[i].stages < 4
                 /\ cp[i].status \in Live
    BY <1>0, <1>1, DecisionIsPromised
  <1> HIDE DEF c
  <1>3. /\ Seen'   = [Seen EXCEPT ![i] = c.status # "none"]
        /\ Owns'   = [Owns EXCEPT ![i] = c.admitted]
        /\ Staged' = [Staged EXCEPT ![i] = c.stages]
    <2>1. \A j \in Item : /\ cp'[j].status = IF j = i THEN c.status ELSE cp[j].status
                          /\ cp'[j].admitted = IF j = i THEN c.admitted ELSE cp[j].admitted
                          /\ cp'[j].stages = IF j = i THEN c.stages ELSE cp[j].stages
      BY <1>1
    <2> QED
      BY <2>1 DEF Seen, Owns, Staged
  <1>4. Promise!Rivals(i) = Same(i)
    BY DEF Promise!Rivals, Same
  <1>5. CASE /\ Same(i) = {}
             /\ c.status # "none" /\ c.stages = 0 /\ c.admitted \in SUBSET Rev
             /\ \A q, r \in c.admitted : q.source = r.source => q = r
             /\ \A r \in c.admitted : Owners(r) = {}
    <2>1. ASSUME NEW r \in c.admitted
          PROVE  Promise!Unowned(r)
      <3>1. \A j \in Item : cp[j].status \in Owning <=> cp[j].admitted # {}
        BY <1>1, CheckpointFields, CheckpointIff DEF TypeOK
      <3>2. Owners(r) = {}
        BY <1>5
      <3> QED
        BY <3>1, <3>2 DEF Owners, Promise!Unowned
    <2>2. Promise!Admit(i)
      BY <1>1, <1>3, <1>4, <1>5, <2>1 DEF Promise!Admit, Seen, Owns, Staged
    <2> QED
      BY <2>2 DEF Promise!Next
  <1>6. CASE /\ \E j \in Same(i) : j # i /\ (cp[i].status # "none" => j < i)
             /\ c.status # "none" /\ c.stages = 0 /\ c.admitted = {}
    <2>1. Promise!Suppress(i)
      BY <1>1, <1>3, <1>4, <1>6 DEF Promise!Suppress, Seen, Owns, Staged
    <2> QED
      BY <2>1 DEF Promise!Next
  <1>7. CASE /\ c.admitted = cp[i].admitted
             /\ c.status = "none" <=> cp[i].status = "none"
    <2>1. Seen' = Seen /\ Owns' = Owns
      BY <1>3, <1>7 DEF Seen, Owns
    <2>2. CASE c.stages = cp[i].stages
      <3>1. Staged' = Staged
        BY <1>3, <2>2 DEF Staged
      <3> QED
        BY <1>1, <2>1, <3>1 DEF Promise!vars, Seen, Owns, Staged
    <2>3. CASE /\ c.stages = cp[i].stages + 1 /\ cp[i].stages < 4
               /\ cp[i].status \in Live
      <3>1. cp[i].admitted # {}
        BY <1>1, <2>3, CheckpointFields, CheckpointIff DEF TypeOK, Owning
      <3>2. Promise!Advance(i)
        BY <1>1, <1>3, <2>1, <2>3, <3>1 DEF Promise!Advance, Promise!Final, Seen, Owns, Staged
      <3> QED
        BY <3>2 DEF Promise!Next
    <2> QED
      BY <1>2, <1>5, <1>6, <1>7, <2>2, <2>3
  <1> QED
    BY <1>2, <1>5, <1>6, <1>7

\* Locks, crashes, tool calls and runs notwithstanding, prepare and advance of the signal
\* lifecycle do to the revisions what RevisionOwners allows and nothing else: deciding and
\* writing (_signal_admission_guard) is one step.
THEOREM SignalsImplementOwners == Spec => ImplementsOwners
  <1>1. Init => Promise!Init
    <2> SUFFICES ASSUME Init PROVE Promise!Init
      OBVIOUS
    <2>1. \A i \in Item : /\ (cp[i].status # "none") = FALSE
                          /\ cp[i].admitted = {} /\ cp[i].stages = 0
      BY DEF Init, NoCheckpoint
    <2> QED
      BY <2>1 DEF Init, Promise!Init
  <1>2. SignalInv /\ [Next]_vars => [Promise!Next]_(Promise!vars)
    <2> SUFFICES ASSUME SignalInv, [Next]_vars
                 PROVE  Promise!Next \/ UNCHANGED Promise!vars
      OBVIOUS
    <2>1. CASE \E p \in Proc : Persist(p)
      BY <2>1, PersistIsPromised
    <2>2. CASE \A p \in Proc : ~Persist(p)
      <3>1. UNCHANGED cp
        BY <2>2, OthersKeepCheckpoints
      <3>2. UNCHANGED trigger
        BY TriggersStay
      <3> QED
        BY <3>1, <3>2 DEF Promise!vars
    <2> QED
      BY <2>1, <2>2
  <1> QED
    BY <1>1, <1>2, SignalInvHolds, PTL DEF Spec, ImplementsOwners, Promise!Spec

=============================================================================
