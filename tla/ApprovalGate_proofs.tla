------------------------- MODULE ApprovalGate_proofs -------------------------
(***************************************************************************)
(* Proofs about the approval queue, for any number of processes and of     *)
(* operations, and any statuses that scripts set: ApprovalInv is           *)
(* inductive.  Each action is one lemma; the step's own process has to be  *)
(* fit for its new step (Fits) and, if operations follow one another, to   *)
(* know the truth there (Sound); StepKeepsInvIf does the rest, because the *)
(* other processes keep what they have in hand, and are idle in a serial   *)
(* run.                                                                    *)
(***************************************************************************)
EXTENDS ApprovalGate, SequenceTheorems, TLAPS

Others(p) == \A q \in Proc \ {p} : At(q, "idle")

\* What a step of p has to respect is enough.
LEMMA StepKeepsInvIf ==
  ASSUME ApprovalInv, NEW p \in Proc,
         linked' = linked, proc' = [proc EXCEPT ![p] = proc'[p]],
         row' \in Items, gate' \in GateStates, moves' \subseteq GateStates,
         drafts' \in Seq(Nat), ops' \in Nat, overlap' \in BOOLEAN, proc'[p] \in Procs,
         Fits(proc[p])', moves \subseteq moves', GateMovesAreRecorded',
         proc'[p].pc = "save_gate" => GateState(proc'[p].target) \in moves',
         ~overlap' => /\ Others(p)
                      /\ Len(drafts') <= 1 /\ Known(row)' /\ DraftIsApprovedText'
                      /\ Sound(proc[p])'
  PROVE  ApprovalInv'
  <1>1. \A q \in Proc \ {p} : proc'[q] = proc[q]
    BY DEF ApprovalInv, TypeOK
  <1>2. TypeOK'
    BY DEF ApprovalInv, TypeOK
  <1>3. \A q \in Proc : Fits(proc[q])'
    BY <1>1 DEF ApprovalInv, Fits
  <1>4. GateInv'
    BY <1>1 DEF ApprovalInv, GateInv, At
  <1>5. SerialInv'
    <2> SUFFICES ASSUME ~overlap' PROVE SerialInv'
      BY DEF SerialInv
    <2>1. \A q \in Proc \ {p} : proc'[q].pc = "idle" /\ proc'[q].kind = "update"
      BY <1>1 DEF Others, At, ApprovalInv, Fits
    <2>2. \A q \in Proc \ {p} : Sound(proc[q])'
      BY <2>1 DEF Sound, BeforeCheck, FormInv, AfterCheck, DraftInv, SaveInv, First, SaveSteps
    <2> QED
      BY <2>1, <2>2 DEF SerialInv, At
  <1> QED
    BY <1>2, <1>3, <1>4, <1>5 DEF ApprovalInv

\* A process that is alone stays so.
LEMMA Alone ==
  ASSUME ApprovalInv, NEW p \in Proc, ~At(p, "idle"), ~overlap
  PROVE  Others(p) /\ Len(drafts) <= 1 /\ Known(row) /\ DraftIsApprovedText /\ Sound(proc[p])
  BY DEF ApprovalInv, SerialInv, Others

LEMMA InHand ==
  ASSUME ApprovalInv, NEW p \in Proc
  PROVE  TypeOK /\ Fits(proc[p]) /\ proc[p] \in Procs /\ GateMovesAreRecorded
  BY DEF ApprovalInv, TypeOK, GateInv

-----------------------------------------------------------------------------
(* What is in hand, field by field.                                        *)

SameTask(t, s) ==
  /\ t.kind = s.kind /\ t.op = s.op /\ t.target = s.target /\ t.wants = s.wants
  /\ t.base = s.base /\ t.prev = s.prev /\ t.gate = s.gate
SameItem(t, s) == t.item = s.item /\ t.draft = s.draft /\ t.note = s.note
SameSave(t, s) == t.out = s.out /\ t.next = s.next

LEMMA IdleHand == Idle \in Procs /\ Idle.pc = "idle" /\ Idle.kind = "update" /\ ~Idle.wants
  BY DEF Idle, NoItem, Items, Status, Procs, Steps, Kinds, Nexts, GateStates

LEMMA GoesHand ==
  ASSUME NEW s \in Procs, NEW step \in Steps
  PROVE  LET t == Goes(s, step) IN
         t \in Procs /\ t.pc = step /\ SameTask(t, s) /\ SameItem(t, s) /\ SameSave(t, s)
  BY DEF Goes, Procs, SameTask, SameItem, SameSave

LEMMA MetadataItem ==
  ASSUME NEW s \in Procs
  PROVE  LET i == WithMetadata(s) IN
         /\ i \in Items /\ i.status = s.item.status /\ i.text = s.item.text
         /\ i.draft = s.draft /\ i.note = s.note
  BY DEF WithMetadata, Procs, Items

LEMMA SavingHand ==
  ASSUME NEW s \in Procs, NEW i \in Items, NEW next \in Nexts
  PROVE  LET t == Saving(s, i, next) IN
         /\ t \in Procs /\ t.pc = "save_check" /\ t.out = i /\ t.next = next
         /\ SameTask(t, s) /\ SameItem(t, s)
  BY DEF Saving, Procs, Steps, SameTask, SameItem

\* s, with its metadata about to be saved, and what comes after that.
SavesMetadata(t, s, next) ==
  /\ t.pc = "save_check" /\ t.next = next /\ SameTask(t, s) /\ SameItem(t, s)
  /\ t.out.status = s.item.status /\ t.out.text = s.item.text /\ t.out.draft = s.draft

LEMMA SavingMetadataHand ==
  ASSUME NEW s \in Procs, NEW next \in Nexts
  PROVE  /\ Saving(s, WithMetadata(s), next) \in Procs
         /\ SavesMetadata(Saving(s, WithMetadata(s), next), s, next)
  <1> DEFINE i == WithMetadata(s)
             t == Saving(s, i, next)
  <1>1. /\ i \in Items /\ i.status = s.item.status /\ i.text = s.item.text
        /\ i.draft = s.draft
    BY MetadataItem
  <1> HIDE DEF i
  <1>2. /\ t \in Procs /\ t.pc = "save_check" /\ t.out = i /\ t.next = next
        /\ SameTask(t, s) /\ SameItem(t, s)
    BY <1>1, SavingHand
  <1> HIDE DEF t
  <1>3. t \in Procs /\ SavesMetadata(t, s, next)
    BY <1>1, <1>2 DEF SavesMetadata
  <1> QED
    BY <1>3 DEF t, i

\* s has answered, or goes on to revise.
Finishes(t, s) ==
  /\ t.pc = IF s.kind = "form" /\ ~linked THEN "revise" ELSE "done"
  /\ SameTask(t, s) /\ SameItem(t, s)

LEMMA FinishedHand ==
  ASSUME NEW s \in Procs
  PROVE  Finished(s) \in Procs /\ Finishes(Finished(s), s)
  BY GoesHand DEF Finished, Finishes, Steps

DecidesOn(t, s) ==
  \/ /\ s.target = "approved" /\ s.wants /\ s.prev # "approved"
     /\ t.pc = "draft" /\ SameTask(t, s) /\ SameItem(t, s)
  \/ s.target = "approved" /\ s.wants /\ s.prev = "approved" /\ SavesMetadata(t, s, "end")
  \/ s.target \in {"revise", "rejected"} /\ SavesMetadata(t, s, "note")
  \/ /\ s.target \notin {"revise", "rejected"} /\ ~(s.target = "approved" /\ s.wants)
     /\ Finishes(t, s)

LEMMA DecidedHand ==
  ASSUME NEW s \in Procs
  PROVE  Decided(s) \in Procs /\ DecidesOn(Decided(s), s)
  BY GoesHand, FinishedHand, SavingMetadataHand DEF Decided, DecidesOn, Steps, Nexts

-----------------------------------------------------------------------------
(* One lemma per action.                                                   *)

LEMMA GateStateTyped ==
  ASSUME NEW s \in {"approved", "revise", "rejected"}
  PROVE  GateState(s) \in GateStates
  BY DEF GateState, GateStates

LEMMA ReadItemKeepsInv ==
  ASSUME ApprovalInv, NEW p \in Proc, ReadItem(p)
  PROVE  ApprovalInv'
  <1>1. TypeOK /\ Fits(proc[p]) /\ proc[p] \in Procs /\ ~At(p, "idle")
    BY InHand DEF ReadItem, At
  <1>2. /\ proc'[p] = [proc[p] EXCEPT !.item = row, !.prev = row.status,
                                   !.pc = IF linked THEN "link" ELSE "check"]
        /\ proc' = [proc EXCEPT ![p] = proc'[p]]
    BY <1>1 DEF ReadItem, Becomes, TypeOK
  <1>3. proc'[p] \in Procs
    <2>1. /\ row \in Items /\ row.status \in Status
          /\ (IF linked THEN "link" ELSE "check") \in Steps
      BY <1>1 DEF TypeOK, Items, Steps
    <2> QED
      BY <1>1, <1>2, <2>1 DEF Procs
  <1>4. Fits(proc[p])'
    BY <1>1, <1>2 DEF ReadItem, At, TypeOK, Fits, SaveSteps, Items, Procs, Steps
  <1>5. /\ row' \in Items /\ gate' \in GateStates /\ moves' \subseteq GateStates
        /\ drafts' \in Seq(Nat) /\ ops' \in Nat /\ overlap' = overlap /\ linked' = linked
        /\ moves \subseteq moves' /\ GateMovesAreRecorded'
        /\ proc'[p].pc = "save_gate" => GateState(proc'[p].target) \in moves'
    BY <1>1, <1>2, InHand DEF ReadItem, At, TypeOK, Items, Procs, GateMovesAreRecorded,
       ApprovalInv, GateInv, Fits, GateState, GateStates, SameTask
  <1>6. ASSUME ~overlap
        PROVE  /\ Len(drafts') <= 1 /\ Known(row)' /\ DraftIsApprovedText'
               /\ Sound(proc[p])'
    <2>1. Len(drafts) <= 1 /\ Known(row) /\ DraftIsApprovedText /\ Sound(proc[p])
      BY <1>1, <1>6, Alone
    <2>2. Len(drafts') <= 1 /\ Known(row)' /\ DraftIsApprovedText'
      BY <1>1, <1>6, <2>1 DEF ReadItem, At, TypeOK, Items, Procs, Known,
         DraftIsApprovedText, NextStatus, AfterCheck, Sound
    <2>3. Sound(proc[p])'
      BY <1>1, <1>2, <2>1 DEF ReadItem, At, TypeOK, Items, Fits, Sound, BeforeCheck,
         FormInv, AfterCheck, DraftInv, SaveInv, First, SaveSteps, Procs
    <2> QED
      BY <2>2, <2>3
  <1> QED
    BY <1>1, <1>2, <1>3, <1>4, <1>5, <1>6, Alone, StepKeepsInvIf DEF TypeOK

LEMMA ReadWorkItemKeepsInv ==
  ASSUME ApprovalInv, NEW p \in Proc, ReadWorkItem(p)
  PROVE  ApprovalInv'
  <1>1. TypeOK /\ Fits(proc[p]) /\ proc[p] \in Procs /\ ~At(p, "idle")
    BY InHand DEF ReadWorkItem, At
  <1>2. /\ proc'[p] = [proc[p] EXCEPT !.gate = gate, !.pc = "check"]
        /\ proc' = [proc EXCEPT ![p] = proc'[p]]
    BY <1>1 DEF ReadWorkItem, Becomes, TypeOK
  <1>3. proc'[p] \in Procs
    <2>1. gate \in GateStates /\ "check" \in Steps
      BY <1>1 DEF TypeOK, Steps
    <2> QED
      BY <1>1, <1>2, <2>1 DEF Procs
  <1>4. Fits(proc[p])'
    BY <1>1, <1>2 DEF ReadWorkItem, At, TypeOK, Fits, SaveSteps, Items, Procs, Steps
  <1>5. /\ row' \in Items /\ gate' \in GateStates /\ moves' \subseteq GateStates
        /\ drafts' \in Seq(Nat) /\ ops' \in Nat /\ overlap' = overlap /\ linked' = linked
        /\ moves \subseteq moves' /\ GateMovesAreRecorded'
        /\ proc'[p].pc = "save_gate" => GateState(proc'[p].target) \in moves'
    BY <1>1, <1>2, InHand DEF ReadWorkItem, At, TypeOK, Items, Procs,
       GateMovesAreRecorded, ApprovalInv, GateInv, Fits, GateState, GateStates, SameTask
  <1>6. ASSUME ~overlap
        PROVE  /\ Len(drafts') <= 1 /\ Known(row)' /\ DraftIsApprovedText'
               /\ Sound(proc[p])'
    <2>1. Len(drafts) <= 1 /\ Known(row) /\ DraftIsApprovedText /\ Sound(proc[p])
      BY <1>1, <1>6, Alone
    <2>2. Len(drafts') <= 1 /\ Known(row)' /\ DraftIsApprovedText'
      BY <1>1, <1>6, <2>1 DEF ReadWorkItem, At, TypeOK, Items, Procs, Known,
         DraftIsApprovedText, NextStatus, AfterCheck, Sound
    <2>3. Sound(proc[p])'
      BY <1>1, <1>2, <2>1 DEF ReadWorkItem, At, TypeOK, Items, Fits, Sound, BeforeCheck,
         FormInv, AfterCheck, DraftInv, SaveInv, First, SaveSteps, Procs
    <2> QED
      BY <2>2, <2>3
  <1> QED
    BY <1>1, <1>2, <1>3, <1>4, <1>5, <1>6, Alone, StepKeepsInvIf DEF TypeOK

LEMMA CheckUpdateKeepsInv ==
  ASSUME ApprovalInv, NEW p \in Proc, CheckUpdate(p)
  PROVE  ApprovalInv'
  <1>1. TypeOK /\ Fits(proc[p]) /\ proc[p] \in Procs /\ ~At(p, "idle")
    BY InHand DEF CheckUpdate, At
  <1>2. /\ proc'[p] = IF proc[p].target \in NextStatus(row.status)
                    THEN Goes(proc[p], "write") ELSE Idle
        /\ proc' = [proc EXCEPT ![p] = proc'[p]]
    BY <1>1 DEF CheckUpdate, Becomes, TypeOK
  <1>3. /\ proc'[p] \in Procs
        /\ \/ /\ proc'[p].pc = "write" /\ proc[p].target \in NextStatus(row.status)
              /\ SameTask(proc'[p], proc[p])
           \/ proc'[p].pc = "idle" /\ proc'[p].kind = "update" /\ ~proc'[p].wants
    BY <1>1, <1>2, IdleHand, GoesHand DEF CheckUpdate, Steps
  <1>4. Fits(proc[p])'
    BY <1>1, <1>3 DEF CheckUpdate, At, TypeOK, Fits, SaveSteps, SameTask, SameItem,
       SameSave
  <1>5. /\ row' \in Items /\ gate' \in GateStates /\ moves' \subseteq GateStates
        /\ drafts' \in Seq(Nat) /\ ops' \in Nat /\ overlap' = overlap /\ linked' = linked
        /\ moves \subseteq moves' /\ GateMovesAreRecorded'
        /\ proc'[p].pc = "save_gate" => GateState(proc'[p].target) \in moves'
    BY <1>1, <1>3, InHand DEF CheckUpdate, At, TypeOK, Items, Procs,
       GateMovesAreRecorded, ApprovalInv, GateInv, Fits, GateState, GateStates, SameTask
  <1>6. ASSUME ~overlap
        PROVE  /\ Len(drafts') <= 1 /\ Known(row)' /\ DraftIsApprovedText'
               /\ Sound(proc[p])'
    <2>1. Len(drafts) <= 1 /\ Known(row) /\ DraftIsApprovedText /\ Sound(proc[p])
      BY <1>1, <1>6, Alone
    <2>2. Len(drafts') <= 1 /\ Known(row)' /\ DraftIsApprovedText'
      BY <1>1, <1>6, <2>1 DEF CheckUpdate, At, TypeOK, Items, Procs, Known,
         DraftIsApprovedText, NextStatus, AfterCheck, Sound
    <2>3. Sound(proc[p])'
      BY <1>1, <1>3, <2>1 DEF CheckUpdate, At, TypeOK, Items, Fits, Sound, BeforeCheck,
         FormInv, AfterCheck, DraftInv, SaveInv, First, SaveSteps, NextStatus, Known,
         SameTask, SameItem, SameSave
    <2> QED
      BY <2>2, <2>3
  <1> QED
    BY <1>1, <1>2, <1>3, <1>4, <1>5, <1>6, Alone, StepKeepsInvIf DEF TypeOK

LEMMA WriteStatusKeepsInv ==
  ASSUME ApprovalInv, NEW p \in Proc, WriteStatus(p)
  PROVE  ApprovalInv'
  <1>1. TypeOK /\ Fits(proc[p]) /\ proc[p] \in Procs /\ ~At(p, "idle")
    BY InHand DEF WriteStatus, At
  <1>2. /\ proc'[p] = Goes(proc[p], IF proc[p].kind = "update" THEN "done" ELSE "reread")
        /\ proc' = [proc EXCEPT ![p] = proc'[p]]
    BY <1>1 DEF WriteStatus, Becomes, TypeOK
  <1>3. /\ proc'[p] \in Procs
        /\ proc'[p].pc = IF proc[p].kind = "update" THEN "done" ELSE "reread"
        /\ SameTask(proc'[p], proc[p])
    BY <1>1, <1>2, GoesHand DEF WriteStatus, Steps
  <1>4. Fits(proc[p])'
    BY <1>1, <1>3 DEF WriteStatus, At, TypeOK, Fits, SaveSteps, SameTask, SameItem,
       SameSave, Kinds, Procs
  <1>5. /\ row' \in Items /\ gate' \in GateStates /\ moves' \subseteq GateStates
        /\ drafts' \in Seq(Nat) /\ ops' \in Nat /\ overlap' = overlap /\ linked' = linked
        /\ moves \subseteq moves' /\ GateMovesAreRecorded'
        /\ proc'[p].pc = "save_gate" => GateState(proc'[p].target) \in moves'
    BY <1>1, <1>3, InHand DEF WriteStatus, At, TypeOK, Items, Procs,
       GateMovesAreRecorded, ApprovalInv, GateInv, Fits, GateState, GateStates, SameTask
  <1>6. ASSUME ~overlap
        PROVE  /\ Len(drafts') <= 1 /\ Known(row)' /\ DraftIsApprovedText'
               /\ Sound(proc[p])'
    <2>1. Len(drafts) <= 1 /\ Known(row) /\ DraftIsApprovedText /\ Sound(proc[p])
      BY <1>1, <1>6, Alone
    <2>2. Len(drafts') <= 1 /\ Known(row)' /\ DraftIsApprovedText'
      BY <1>1, <1>6, <2>1 DEF WriteStatus, At, TypeOK, Items, Procs, Known,
         DraftIsApprovedText, NextStatus, AfterCheck, Sound
    <2>3. Sound(proc[p])'
      BY <1>1, <1>3, <2>1 DEF WriteStatus, At, TypeOK, Items, Fits, Sound, BeforeCheck,
         FormInv, AfterCheck, DraftInv, SaveInv, First, SaveSteps, NextStatus, Known,
         SameTask, SameItem, SameSave
    <2> QED
      BY <2>2, <2>3
  <1> QED
    BY <1>1, <1>2, <1>3, <1>4, <1>5, <1>6, Alone, StepKeepsInvIf DEF TypeOK

LEMMA SaveGateKeepsInv ==
  ASSUME ApprovalInv, NEW p \in Proc, SaveGate(p)
  PROVE  ApprovalInv'
  <1>1. TypeOK /\ Fits(proc[p]) /\ proc[p] \in Procs /\ ~At(p, "idle")
    BY InHand DEF SaveGate, At
  <1>2. /\ proc'[p] = Saving(proc[p], WithMetadata(proc[p]), "decide")
        /\ proc' = [proc EXCEPT ![p] = proc'[p]]
    BY <1>1 DEF SaveGate, Becomes, TypeOK
  <1>3. /\ proc'[p] \in Procs
        /\ SavesMetadata(proc'[p], proc[p], "decide")
    BY <1>1, <1>2, SavingMetadataHand DEF SaveGate, Nexts
  <1>4. Fits(proc[p])'
    BY <1>1, <1>3 DEF SaveGate, At, TypeOK, Fits, SaveSteps, SameTask, SameItem,
       SameSave, SavesMetadata
  <1>5. /\ row' \in Items /\ gate' \in GateStates /\ moves' \subseteq GateStates
        /\ drafts' \in Seq(Nat) /\ ops' \in Nat /\ overlap' = overlap /\ linked' = linked
        /\ moves \subseteq moves' /\ GateMovesAreRecorded'
        /\ proc'[p].pc = "save_gate" => GateState(proc'[p].target) \in moves'
    BY <1>1, <1>3, InHand, GateStateTyped DEF SaveGate, At, TypeOK, GateMovesAreRecorded,
       ApprovalInv, GateInv, Fits, SavesMetadata
  <1>6. ASSUME ~overlap
        PROVE  /\ Len(drafts') <= 1 /\ Known(row)' /\ DraftIsApprovedText'
               /\ Sound(proc[p])'
    <2>1. Len(drafts) <= 1 /\ Known(row) /\ DraftIsApprovedText /\ Sound(proc[p])
      BY <1>1, <1>6, Alone
    <2>2. Len(drafts') <= 1 /\ Known(row)' /\ DraftIsApprovedText'
      BY <1>1, <1>6, <2>1 DEF SaveGate, At, TypeOK, Items, Procs, Known,
         DraftIsApprovedText, NextStatus, AfterCheck, Sound
    <2>3. Sound(proc[p])'
      BY <1>1, <1>3, <2>1 DEF SaveGate, At, TypeOK, Items, Fits, Sound, BeforeCheck,
         FormInv, AfterCheck, DraftInv, SaveInv, First, SaveSteps, SameTask, SameItem,
         SameSave, SavesMetadata
    <2> QED
      BY <2>2, <2>3
  <1> QED
    BY <1>1, <1>2, <1>3, <1>4, <1>5, <1>6, Alone, StepKeepsInvIf DEF TypeOK

LEMMA RecordGateMoveKeepsInv ==
  ASSUME ApprovalInv, NEW p \in Proc, RecordGateMove(p)
  PROVE  ApprovalInv'
  <1>1. TypeOK /\ Fits(proc[p]) /\ proc[p] \in Procs /\ ~At(p, "idle")
    BY InHand DEF RecordGateMove, At
  <1>2. proc' = [proc EXCEPT ![p] = proc'[p]]
    BY <1>1 DEF RecordGateMove, Becomes, TypeOK
  <1>3. /\ proc'[p] \in Procs
        /\ \/ /\ SavesMetadata(proc'[p], proc[p], "decide")
              /\ proc[p].gate = GateState(proc[p].target) /\ moves' = moves
           \/ /\ proc'[p].pc = "save_gate" /\ SameTask(proc'[p], proc[p])
              /\ SameItem(proc'[p], proc[p])
              /\ moves' = moves \cup {GateState(proc[p].target)}
    BY <1>1, <1>2, SavingMetadataHand, GoesHand DEF RecordGateMove, Becomes, TypeOK,
       Steps, Nexts
  <1>4. Fits(proc[p])'
    BY <1>1, <1>3 DEF RecordGateMove, At, TypeOK, Fits, SaveSteps, SameTask, SameItem,
       SameSave, SavesMetadata
  <1>5. /\ row' \in Items /\ gate' \in GateStates /\ moves' \subseteq GateStates
        /\ drafts' \in Seq(Nat) /\ ops' \in Nat /\ overlap' = overlap /\ linked' = linked
        /\ moves \subseteq moves' /\ GateMovesAreRecorded'
        /\ proc'[p].pc = "save_gate" => GateState(proc'[p].target) \in moves'
    BY <1>1, <1>3, InHand, GateStateTyped DEF RecordGateMove, At, TypeOK, Fits,
       GateMovesAreRecorded, SavesMetadata, SameTask
  <1>6. ASSUME ~overlap
        PROVE  /\ Len(drafts') <= 1 /\ Known(row)' /\ DraftIsApprovedText'
               /\ Sound(proc[p])'
    <2>1. Len(drafts) <= 1 /\ Known(row) /\ DraftIsApprovedText /\ Sound(proc[p])
      BY <1>1, <1>6, Alone
    <2>2. Len(drafts') <= 1 /\ Known(row)' /\ DraftIsApprovedText'
      BY <1>1, <1>6, <2>1 DEF RecordGateMove, At, TypeOK, Items, Procs, Known,
         DraftIsApprovedText, NextStatus, AfterCheck, Sound
    <2>3. Sound(proc[p])'
      BY <1>1, <1>3, <2>1 DEF RecordGateMove, At, TypeOK, Items, Fits, Sound,
         BeforeCheck, FormInv, AfterCheck, DraftInv, SaveInv, First, SaveSteps,
         SameTask, SameItem, SameSave, SavesMetadata
    <2> QED
      BY <2>2, <2>3
  <1> QED
    BY <1>1, <1>2, <1>3, <1>4, <1>5, <1>6, Alone, StepKeepsInvIf DEF TypeOK

LEMMA MakeDraftKeepsInv ==
  ASSUME ApprovalInv, NEW p \in Proc, MakeDraft(p)
  PROVE  ApprovalInv'
  <1>1. TypeOK /\ Fits(proc[p]) /\ proc[p] \in Procs /\ ~At(p, "idle")
    BY InHand DEF MakeDraft, At
  <1>2. proc' = [proc EXCEPT ![p] = proc'[p]]
    BY <1>1 DEF MakeDraft, Becomes, TypeOK
  <1>3. /\ proc'[p] \in Procs
        /\ proc'[p].pc = "save_check" /\ proc'[p].next = "end"
        /\ SameTask(proc'[p], proc[p])
        /\ proc'[p].draft = IF proc[p].item.draft = 0 THEN Len(drafts) + 1
                                                  ELSE proc[p].item.draft
        /\ proc'[p].out.status = proc[p].item.status
        /\ proc'[p].out.text = proc[p].item.text
        /\ proc'[p].out.draft = proc'[p].draft
    <2> DEFINE i  == proc[p].item
               id == IF i.draft = 0 THEN Len(drafts) + 1 ELSE i.draft
               s  == [proc[p] EXCEPT !.draft = id]
    <2>1. proc'[p] = Saving(s, WithMetadata(s), "end")
      BY <1>1 DEF MakeDraft, Becomes, TypeOK
    <2>2. s \in Procs /\ SameTask(s, proc[p]) /\ s.draft = id /\ s.item = i
      <3>1. id \in Nat
        BY <1>1 DEF Procs, Items, TypeOK
      <3> QED
        BY <1>1, <3>1 DEF Procs, SameTask
    <2>3. Saving(s, WithMetadata(s), "end") \in Procs
          /\ SavesMetadata(Saving(s, WithMetadata(s), "end"), s, "end")
      BY <2>2, SavingMetadataHand DEF Nexts
    <2> DEFINE t == Saving(s, WithMetadata(s), "end")
    <2> HIDE DEF s, i, id, t
    <2>4. t \in Procs /\ SavesMetadata(t, s, "end") /\ proc'[p] = t
      BY <2>1, <2>3 DEF t
    <2>5. SameTask(t, proc[p]) /\ t.draft = id
      BY <2>2, <2>4 DEF SavesMetadata, SameTask, SameItem
    <2>6. t.out.status = i.status /\ t.out.text = i.text /\ t.out.draft = t.draft
      BY <2>2, <2>4 DEF SavesMetadata, SameItem
    <2> QED
      BY <2>4, <2>5, <2>6 DEF SavesMetadata, i, id
  <1>4. Fits(proc[p])'
    BY <1>1, <1>3 DEF MakeDraft, At, TypeOK, Fits, SaveSteps, SameTask, SameItem,
       SameSave
  <1>5. /\ row' \in Items /\ gate' \in GateStates /\ moves' \subseteq GateStates
        /\ drafts' \in Seq(Nat) /\ ops' \in Nat /\ overlap' = overlap /\ linked' = linked
        /\ moves \subseteq moves' /\ GateMovesAreRecorded'
        /\ proc'[p].pc = "save_gate" => GateState(proc'[p].target) \in moves'
    <2>1. drafts' \in Seq(Nat)
      <3> DEFINE i == proc[p].item
                 id == IF i.draft = 0 THEN Len(drafts) + 1 ELSE i.draft
      <3>1. i.text \in Nat /\ drafts \in Seq(Nat)
        BY <1>1 DEF TypeOK, Procs, Items
      <3>2. drafts' = IF i.draft = 0 THEN Append(drafts, i.text)
                                     ELSE [drafts EXCEPT ![id] = i.text]
        BY DEF MakeDraft
      <3>3. CASE id \in 1 .. Len(drafts)
        <4>1. [drafts EXCEPT ![id] = i.text] \in Seq(Nat)
          BY <3>1, <3>3, ExceptSeq
        <4> QED
          BY <3>1, <3>2, <4>1
      <3>4. CASE id \notin 1 .. Len(drafts)
        <4>1. [drafts EXCEPT ![id] = i.text] = drafts
          BY <3>1, <3>4
        <4>2. Append(drafts, i.text) \in Seq(Nat)
          BY <3>1
        <4> HIDE DEF i, id
        <4> QED
          BY <3>1, <3>2, <4>1, <4>2
      <3> QED
        BY <3>3, <3>4
    <2> QED
      BY <1>1, <1>3, <2>1, InHand DEF MakeDraft, At, TypeOK, GateMovesAreRecorded
  <1>6. ASSUME ~overlap
        PROVE  /\ Len(drafts') <= 1 /\ Known(row)' /\ DraftIsApprovedText'
               /\ Sound(proc[p])'
    <2>1. Len(drafts) <= 1 /\ Known(row) /\ DraftIsApprovedText /\ Sound(proc[p])
      BY <1>1, <1>6, Alone
    <2>2. Len(drafts') <= 1 /\ Known(row)' /\ DraftIsApprovedText'
      <3>1. /\ proc[p].item = row /\ row.status = "approved" /\ row.draft = Len(drafts)
            /\ row.draft \in Nat /\ row.text \in Nat /\ drafts \in Seq(Nat) /\ row' = row
        BY <1>1, <2>1
        DEF MakeDraft, At, TypeOK, Items, Fits, Sound, AfterCheck, DraftInv, First
      <3>2. CASE row.draft = 0
        <4>1. drafts' = Append(drafts, row.text) /\ Len(drafts) = 0
          BY <3>1, <3>2 DEF MakeDraft
        <4>2. Len(drafts') = 1 /\ drafts'[1] = row.text
          BY <3>1, <4>1
        <4> QED
          BY <3>1, <3>2, <4>2 DEF Known, DraftIsApprovedText
      <3>3. CASE row.draft # 0
        <4>1. Len(drafts) = 1 /\ row.draft = 1
          <5>1. Len(drafts) \in Nat
            BY <3>1
          <5>2. Len(drafts) <= 1 /\ Len(drafts) # 0
            BY <2>1, <3>1, <3>3
          <5>3. Len(drafts) = 1
            BY <5>1, <5>2
          <5> QED
            BY <3>1, <5>3
        <4>2. drafts' = [drafts EXCEPT ![1] = row.text]
          BY <3>1, <4>1 DEF MakeDraft
        <4>3. Len(drafts') = 1 /\ drafts'[1] = row.text
          BY <3>1, <4>1, <4>2, ExceptSeq
        <4> QED
          BY <3>1, <4>1, <4>3 DEF Known, DraftIsApprovedText
      <3> QED
        BY <3>2, <3>3
    <2>3. Sound(proc[p])'
      <3> DEFINE s == proc[p]
                 t == proc'[p]
      <3>1. /\ s.pc = "draft" /\ s.kind = "click" /\ First(s) /\ row' = row /\ gate' = gate
            /\ linked' = linked /\ s.item = row /\ row.status = s.target
            /\ row.draft = Len(drafts) /\ row.text \in Nat /\ drafts \in Seq(Nat)
            /\ linked => gate = GateState(s.target)
        BY <1>1, <2>1
        DEF MakeDraft, At, TypeOK, Items, Fits, Sound, AfterCheck, DraftInv, First, SaveSteps
      <3>2. t.draft = Len(drafts') /\ t.draft \in 1 .. Len(drafts') /\ drafts'[t.draft] = row.text
        <4>1. CASE row.draft = 0
          <5>1. drafts' = Append(drafts, row.text) /\ Len(drafts) = 0 /\ t.draft = 1
            BY <1>3, <3>1, <4>1 DEF MakeDraft
          <5>2. Len(drafts') = 1 /\ drafts'[1] = row.text
            BY <3>1, <5>1
          <5> QED
            BY <5>1, <5>2
        <4>2. CASE row.draft # 0
          <5>1. Len(drafts) \in 1 .. Len(drafts) /\ t.draft = Len(drafts)
            BY <1>3, <3>1, <4>2
          <5>2. drafts' = [drafts EXCEPT ![Len(drafts)] = row.text]
            BY <3>1, <4>2 DEF MakeDraft
          <5> QED
            BY <3>1, <5>1, <5>2, ExceptSeq
        <4> QED
          BY <4>1, <4>2
      <3> HIDE DEF s, t
      <3>3. /\ t.pc = "save_check" /\ t.next = "end" /\ SameTask(t, s) /\ t.out.status = row.status
            /\ t.out.text = row.text /\ t.out.draft = t.draft
        BY <1>3, <3>1 DEF s, t
      <3>4. t = proc[p]'
        BY DEF t
      <3>5. BeforeCheck(proc[p])' /\ FormInv(proc[p])' /\ AfterCheck(proc[p])'
        BY <3>1, <3>3, <3>4 DEF BeforeCheck, FormInv, AfterCheck, SaveSteps, SameTask
      <3>6. DraftInv(proc[p])' /\ SaveInv(proc[p])'
        BY <3>1, <3>2, <3>3, <3>4 DEF DraftInv, SaveInv, First, SaveSteps, SameTask
      <3> QED
        BY <3>5, <3>6 DEF Sound
    <2> QED
      BY <2>2, <2>3
  <1> QED
    BY <1>1, <1>2, <1>3, <1>4, <1>5, <1>6, Alone, StepKeepsInvIf DEF TypeOK

LEMMA CheckSaveKeepsInv ==
  ASSUME ApprovalInv, NEW p \in Proc, CheckSave(p)
  PROVE  ApprovalInv'
  <1>1. TypeOK /\ Fits(proc[p]) /\ proc[p] \in Procs /\ ~At(p, "idle")
    BY InHand DEF CheckSave, At
  <1>2. proc' = [proc EXCEPT ![p] = proc'[p]]
    BY <1>1 DEF CheckSave, Becomes, TypeOK
  <1>3. /\ proc'[p] \in Procs
        /\ \/ /\ proc[p].out.status \in NextStatus(row.status)
              /\ proc'[p].pc = "save_write" /\ SameTask(proc'[p], proc[p])
              /\ SameItem(proc'[p], proc[p]) /\ SameSave(proc'[p], proc[p])
           \/ /\ proc[p].kind = "form" /\ proc[p].next = "done"
              /\ proc'[p].pc = "save_check" /\ proc'[p].next = "unrevised"
              /\ proc'[p].out = proc[p].base /\ SameTask(proc'[p], proc[p])
           \/ proc'[p].pc = "idle" /\ proc'[p].kind = "update" /\ ~proc'[p].wants
    BY <1>1, <1>2, IdleHand, GoesHand, SavingHand DEF CheckSave, Becomes, TypeOK, Steps,
       Nexts, Procs
  <1>4. Fits(proc[p])'
    BY <1>1, <1>3 DEF CheckSave, At, TypeOK, Fits, SaveSteps, SameTask, SameItem,
       SameSave, Procs, Nexts
  <1>5. /\ row' \in Items /\ gate' \in GateStates /\ moves' \subseteq GateStates
        /\ drafts' \in Seq(Nat) /\ ops' \in Nat /\ overlap' = overlap /\ linked' = linked
        /\ moves \subseteq moves' /\ GateMovesAreRecorded'
        /\ proc'[p].pc = "save_gate" => GateState(proc'[p].target) \in moves'
    BY <1>1, <1>3, InHand DEF CheckSave, At, TypeOK, Items, Procs, GateMovesAreRecorded,
       ApprovalInv, GateInv, Fits, GateState, GateStates, SameTask
  <1>6. ASSUME ~overlap
        PROVE  /\ Len(drafts') <= 1 /\ Known(row)' /\ DraftIsApprovedText'
               /\ Sound(proc[p])'
    <2>1. Len(drafts) <= 1 /\ Known(row) /\ DraftIsApprovedText /\ Sound(proc[p])
      BY <1>1, <1>6, Alone
    <2>2. Len(drafts') <= 1 /\ Known(row)' /\ DraftIsApprovedText'
      BY <1>1, <1>6, <2>1 DEF CheckSave, At, TypeOK, Items, Procs, Known,
         DraftIsApprovedText, NextStatus, AfterCheck, Sound
    <2>3. Sound(proc[p])'
      <3>1. CASE proc'[p].pc = "save_write"
        BY <1>1, <1>3, <2>1, <3>1
        DEF CheckSave, At, TypeOK, Fits, Sound, BeforeCheck,
           FormInv, AfterCheck, DraftInv, SaveInv, First, SaveSteps,
           SameTask, SameItem, SameSave
      <3>2. CASE proc'[p].pc = "save_check"
        BY <1>1, <1>3, <2>1, <3>2
        DEF CheckSave, At, TypeOK, Fits, Sound, BeforeCheck,
           FormInv, AfterCheck, DraftInv, SaveInv, First, SaveSteps,
           SameTask
      <3>3. CASE proc'[p].pc = "idle"
        BY <1>3, <3>3
        DEF Sound, BeforeCheck,
           FormInv, AfterCheck, DraftInv, SaveInv, First, SaveSteps
      <3> QED
        BY <1>3, <3>1, <3>2, <3>3
    <2> QED
      BY <2>2, <2>3
  <1> QED
    BY <1>1, <1>2, <1>3, <1>4, <1>5, <1>6, Alone, StepKeepsInvIf DEF TypeOK

LEMMA WriteItemKeepsInv ==
  ASSUME ApprovalInv, NEW p \in Proc, WriteItem(p)
  PROVE  ApprovalInv'
  <1>1. TypeOK /\ Fits(proc[p]) /\ proc[p] \in Procs /\ ~At(p, "idle")
    BY InHand DEF WriteItem, At
  <1>2. proc' = [proc EXCEPT ![p] = proc'[p]]
    BY <1>1 DEF WriteItem, Becomes, TypeOK
  <1>3. /\ proc'[p] \in Procs
        /\ proc'[p].pc = IF proc[p].next = "done" THEN "done" ELSE "save_reread"
        /\ SameTask(proc'[p], proc[p])
        /\ SameItem(proc'[p], proc[p]) /\ SameSave(proc'[p], proc[p])
    BY <1>1, <1>2, GoesHand DEF WriteItem, Becomes, TypeOK, Steps
  <1>4. Fits(proc[p])'
    BY <1>1, <1>3 DEF WriteItem, At, TypeOK, Fits, SaveSteps, SameTask, SameItem,
       SameSave, Procs, Nexts, Kinds
  <1>5. /\ row' \in Items /\ gate' \in GateStates /\ moves' \subseteq GateStates
        /\ drafts' \in Seq(Nat) /\ ops' \in Nat /\ overlap' = overlap /\ linked' = linked
        /\ moves \subseteq moves' /\ GateMovesAreRecorded'
        /\ proc'[p].pc = "save_gate" => GateState(proc'[p].target) \in moves'
    BY <1>1, <1>3, InHand DEF WriteItem, At, TypeOK, Items, Procs, GateMovesAreRecorded,
       ApprovalInv, GateInv, Fits, GateState, GateStates, SameTask
  <1>6. ASSUME ~overlap
        PROVE  /\ Len(drafts') <= 1 /\ Known(row)' /\ DraftIsApprovedText'
               /\ Sound(proc[p])'
    <2>1. Len(drafts) <= 1 /\ Known(row) /\ DraftIsApprovedText /\ Sound(proc[p])
      BY <1>1, <1>6, Alone
    <2>2. Len(drafts') <= 1 /\ Known(row)' /\ DraftIsApprovedText'
      <3>1. /\ row' = proc[p].out /\ drafts' = drafts /\ overlap' = overlap
            /\ proc[p].pc = "save_write" /\ proc[p].next \in Nexts
        BY <1>1 DEF WriteItem, At, Procs
      <3>2. CASE proc[p].next \in {"decide", "note", "end"}
        <4>1. /\ row'.status = row.status /\ row'.text = row.text
              /\ row'.draft \in {row.draft, Len(drafts)}
          BY <2>1, <3>1, <3>2 DEF Sound, SaveInv, SaveSteps
        <4> QED
          BY <2>1, <3>1, <4>1 DEF Known, DraftIsApprovedText
      <3>3. CASE proc[p].kind = "feedback"
        BY <2>1, <3>1, <3>3 DEF Sound, SaveInv, Known, DraftIsApprovedText
      <3>4. CASE proc[p].kind = "form" /\ proc[p].next \in {"done", "unrevised"}
        <4>1. row'.draft = Len(drafts) /\ row.status \in {"pending", "revise"}
          BY <2>1, <3>1, <3>4 DEF Sound, SaveInv, FormInv, SaveSteps
        <4> QED
          BY <1>6, <2>1, <3>1, <4>1 DEF Known, DraftIsApprovedText
      <3> QED
        BY <1>1, <3>1, <3>2, <3>3, <3>4 DEF Fits, SaveSteps, Nexts
    <2>3. Sound(proc[p])'
      BY <1>1, <1>3, <2>1 DEF WriteItem, At, TypeOK, Items, Fits, Sound, BeforeCheck,
         FormInv, AfterCheck, DraftInv, SaveInv, First, SaveSteps, Known, SameTask,
         SameItem, SameSave, Nexts, Procs
    <2> QED
      BY <2>2, <2>3
  <1> QED
    BY <1>1, <1>2, <1>3, <1>4, <1>5, <1>6, Alone, StepKeepsInvIf DEF TypeOK

LEMMA LeaveKeepsInv ==
  ASSUME ApprovalInv, NEW p \in Proc, Leave(p)
  PROVE  ApprovalInv'
  <1>1. TypeOK /\ Fits(proc[p]) /\ proc[p] \in Procs /\ ~At(p, "idle")
    BY InHand DEF Leave, At
  <1>2. /\ proc'[p] = Idle
        /\ proc' = [proc EXCEPT ![p] = proc'[p]]
    BY <1>1 DEF Leave, Becomes, TypeOK
  <1>3. /\ proc'[p] \in Procs
        /\ proc'[p].pc = "idle" /\ proc'[p].kind = "update" /\ ~proc'[p].wants
    BY <1>1, <1>2, IdleHand DEF Leave
  <1>4. Fits(proc[p])'
    BY <1>1, <1>3 DEF Leave, At, TypeOK, Fits, SaveSteps, SameTask, SameItem, SameSave
  <1>5. /\ row' \in Items /\ gate' \in GateStates /\ moves' \subseteq GateStates
        /\ drafts' \in Seq(Nat) /\ ops' \in Nat /\ overlap' = overlap /\ linked' = linked
        /\ moves \subseteq moves' /\ GateMovesAreRecorded'
        /\ proc'[p].pc = "save_gate" => GateState(proc'[p].target) \in moves'
    BY <1>1, <1>3, InHand DEF Leave, At, TypeOK, Items, Procs, GateMovesAreRecorded,
       ApprovalInv, GateInv, Fits, GateState, GateStates, SameTask
  <1>6. ASSUME ~overlap
        PROVE  /\ Len(drafts') <= 1 /\ Known(row)' /\ DraftIsApprovedText'
               /\ Sound(proc[p])'
    <2>1. Len(drafts) <= 1 /\ Known(row) /\ DraftIsApprovedText /\ Sound(proc[p])
      BY <1>1, <1>6, Alone
    <2>2. Len(drafts') <= 1 /\ Known(row)' /\ DraftIsApprovedText'
      BY <1>1, <1>6, <2>1 DEF Leave, At, TypeOK, Items, Procs, Known,
         DraftIsApprovedText, NextStatus, AfterCheck, Sound
    <2>3. Sound(proc[p])'
      BY <1>1, <1>3, <2>1 DEF Leave, At, TypeOK, Items, Fits, Sound, BeforeCheck,
         FormInv, AfterCheck, DraftInv, SaveInv, First, SaveSteps, SameTask, SameItem,
         SameSave
    <2> QED
      BY <2>2, <2>3
  <1> QED
    BY <1>1, <1>2, <1>3, <1>4, <1>5, <1>6, Alone, StepKeepsInvIf DEF TypeOK

LEMMA CrashKeepsInv ==
  ASSUME ApprovalInv, NEW p \in Proc, Crash(p)
  PROVE  ApprovalInv'
  <1>1. TypeOK /\ Fits(proc[p]) /\ proc[p] \in Procs /\ ~At(p, "idle")
    BY InHand DEF Crash, At
  <1>2. /\ proc'[p] = Idle
        /\ proc' = [proc EXCEPT ![p] = proc'[p]]
    BY <1>1 DEF Crash, Becomes, TypeOK
  <1>3. /\ proc'[p] \in Procs
        /\ proc'[p].pc = "idle" /\ proc'[p].kind = "update" /\ ~proc'[p].wants
    BY <1>1, <1>2, IdleHand DEF Crash
  <1>4. Fits(proc[p])'
    BY <1>1, <1>3 DEF Crash, At, TypeOK, Fits, SaveSteps, SameTask, SameItem, SameSave
  <1>5. /\ row' \in Items /\ gate' \in GateStates /\ moves' \subseteq GateStates
        /\ drafts' \in Seq(Nat) /\ ops' \in Nat /\ overlap' = overlap /\ linked' = linked
        /\ moves \subseteq moves' /\ GateMovesAreRecorded'
        /\ proc'[p].pc = "save_gate" => GateState(proc'[p].target) \in moves'
    BY <1>1, <1>3, InHand DEF Crash, At, TypeOK, Items, Procs, GateMovesAreRecorded,
       ApprovalInv, GateInv, Fits, GateState, GateStates, SameTask
  <1>6. ASSUME ~overlap
        PROVE  /\ Len(drafts') <= 1 /\ Known(row)' /\ DraftIsApprovedText'
               /\ Sound(proc[p])'
    <2>1. Len(drafts) <= 1 /\ Known(row) /\ DraftIsApprovedText /\ Sound(proc[p])
      BY <1>1, <1>6, Alone
    <2>2. Len(drafts') <= 1 /\ Known(row)' /\ DraftIsApprovedText'
      BY <1>1, <1>6, <2>1 DEF Crash, At, TypeOK, Items, Procs, Known,
         DraftIsApprovedText, NextStatus, AfterCheck, Sound
    <2>3. Sound(proc[p])'
      BY <1>1, <1>3, <2>1 DEF Crash, At, TypeOK, Items, Fits, Sound, BeforeCheck,
         FormInv, AfterCheck, DraftInv, SaveInv, First, SaveSteps, SameTask, SameItem,
         SameSave
    <2> QED
      BY <2>2, <2>3
  <1> QED
    BY <1>1, <1>2, <1>3, <1>4, <1>5, <1>6, Alone, StepKeepsInvIf DEF TypeOK

-----------------------------------------------------------------------------
(* The longer ends of an operation.                                        *)

\* Where Decided leads to is fit for the operation.
LEMMA DecidedFits ==
  ASSUME NEW s, NEW t, DecidesOn(t, s), s.kind \in {"click", "form"},
         s.kind = "click" => s.target \in {"approved", "revise", "rejected"},
         s.kind = "form" => s.target = "revise",
         s.wants => s.target = "approved" /\ s.kind = "click"
  PROVE  Fits(t) /\ t.pc # "save_gate"
  BY DEF DecidesOn, SavesMetadata, Finishes, SameTask, Fits, SaveSteps

\* It knows the truth there if the item in hand is the stored one, with the status
\* asked for, and the gate agrees.
LEMMA DecidedSound ==
  ASSUME NEW s, NEW t, DecidesOn(t, s), s.kind \in {"click", "form"},
         s.kind = "click" => s.target \in {"approved", "revise", "rejected"},
         s.kind = "form" => s.target = "revise",
         s.wants => s.target = "approved" /\ s.kind = "click",
         s.item = row, row.status = s.target, s.draft \in {row.draft, Len(drafts)},
         linked => gate = GateState(s.target),
         First(s) => row.draft = Len(drafts),
         s.kind = "form" => /\ s.base.status \in {"pending", "revise"}
                            /\ s.base.draft = Len(drafts)
  PROVE  Sound(t)
  <1>1. CASE t.pc = "draft" /\ SameTask(t, s) /\ SameItem(t, s)
    BY <1>1 DEF SameTask, SameItem, Sound, BeforeCheck, FormInv, AfterCheck,
       DraftInv, SaveInv, First, SaveSteps
  <1>2. CASE SavesMetadata(t, s, "end") /\ s.prev = "approved"
    BY <1>2 DEF SavesMetadata, SameTask, SameItem, Sound, BeforeCheck, FormInv, AfterCheck,
       DraftInv, SaveInv, First, SaveSteps
  <1>3. CASE SavesMetadata(t, s, "note") /\ s.target \in {"revise", "rejected"}
    BY <1>3 DEF SavesMetadata, SameTask, SameItem, Sound, BeforeCheck, FormInv, AfterCheck,
       DraftInv, SaveInv, First, SaveSteps
  <1>4. CASE Finishes(t, s) /\ s.target = "approved" /\ ~s.wants
    BY <1>4 DEF Finishes, SameTask, SameItem, Sound, BeforeCheck, FormInv, AfterCheck,
       DraftInv, SaveInv, First, SaveSteps
  <1> QED
    BY <1>1, <1>2, <1>3, <1>4 DEF DecidesOn

LEMMA ReadUpdatedKeepsInv ==
  ASSUME ApprovalInv, NEW p \in Proc, ReadUpdated(p)
  PROVE  ApprovalInv'
  <1>1. TypeOK /\ Fits(proc[p]) /\ proc[p] \in Procs /\ ~At(p, "idle")
    BY InHand DEF ReadUpdated, At
  <1>2. /\ proc' = [proc EXCEPT ![p] = proc'[p]] /\ proc[p].pc = "reread"
        /\ UNCHANGED <<linked, row, gate, moves, drafts, ops, overlap>>
    BY <1>1 DEF ReadUpdated, Becomes, TypeOK, At
  <1>3. PICK s \in Procs :
          /\ SameTask(s, proc[p]) /\ s.item = row /\ s.draft = row.draft
          /\ proc'[p] \in Procs
          /\ \/ linked /\ proc'[p].pc = "gate" /\ SameTask(proc'[p], s) /\ SameItem(proc'[p], s)
             \/ ~linked /\ DecidesOn(proc'[p], s)
    <2> DEFINE s == [proc[p] EXCEPT !.item = row, !.draft = row.draft,
                                    !.note = IF proc[p].kind = "form" THEN p ELSE row.note]
    <2>1. s \in Procs /\ SameTask(s, proc[p]) /\ s.item = row /\ s.draft = row.draft
      BY <1>1 DEF Procs, Items, TypeOK, SameTask
    <2>2. proc'[p] = IF linked THEN Goes(s, "gate") ELSE Decided(s)
      BY <1>1 DEF ReadUpdated, Becomes, TypeOK
    <2> HIDE DEF s
    <2> QED
      BY <2>1, <2>2, GoesHand, DecidedHand DEF Steps
  <1>4. Fits(proc[p])' /\ proc'[p].pc # "save_gate"
    <2>1. CASE linked
      BY <1>1, <1>2, <1>3, <2>1 DEF SameTask, Fits, SaveSteps
    <2>2. CASE ~linked
      <3>1. Fits(proc'[p]) /\ proc'[p].pc # "save_gate"
        BY <1>1, <1>2, <1>3, <2>2, DecidedFits DEF SameTask, Fits
      <3> QED
        BY <1>2, <3>1 DEF Fits
    <2> QED
      BY <2>1, <2>2
  <1>5. GateMovesAreRecorded'
    BY <1>2, InHand DEF GateMovesAreRecorded
  <1>6. ASSUME ~overlap
        PROVE  /\ Len(drafts') <= 1 /\ Known(row)' /\ DraftIsApprovedText'
               /\ Sound(proc[p])'
    <2>1. Len(drafts) <= 1 /\ Known(row) /\ DraftIsApprovedText /\ Sound(proc[p])
      BY <1>1, <1>6, Alone
    <2>2. Len(drafts') <= 1 /\ Known(row)' /\ DraftIsApprovedText'
      BY <1>2, <2>1 DEF Known, DraftIsApprovedText
    <2>3. Sound(proc'[p])
      <3>1. CASE linked
        BY <1>1, <1>2, <1>3, <2>1, <3>1
        DEF Fits, SameTask, SameItem, Sound, BeforeCheck, FormInv, AfterCheck, DraftInv,
            SaveInv, First, SaveSteps
      <3>2. CASE ~linked
        BY <1>1, <1>2, <1>3, <2>1, <3>2, DecidedSound
        DEF Fits, SameTask, Sound, FormInv, AfterCheck, DraftInv, First
      <3> QED
        BY <3>1, <3>2
    <2>4. Sound(proc[p])'
      BY <1>2, <2>3 DEF Sound, BeforeCheck, FormInv, AfterCheck, DraftInv, SaveInv, First
    <2> QED
      BY <2>2, <2>4
  <1> QED
    BY <1>1, <1>2, <1>3, <1>4, <1>5, <1>6, Alone, StepKeepsInvIf DEF TypeOK

LEMMA ReadSavedKeepsInv ==
  ASSUME ApprovalInv, NEW p \in Proc, ReadSaved(p)
  PROVE  ApprovalInv'
  <1>1. TypeOK /\ Fits(proc[p]) /\ proc[p] \in Procs /\ ~At(p, "idle")
    BY InHand DEF ReadSaved, At
  <1>2. /\ proc' = [proc EXCEPT ![p] = proc'[p]] /\ proc[p].pc = "save_reread"
        /\ UNCHANGED <<linked, row, gate, moves, drafts, ops, overlap>>
    BY <1>1 DEF ReadSaved, Becomes, TypeOK, At
  <1>3. PICK s \in Procs :
          /\ SameTask(s, proc[p]) /\ s.item = row /\ s.draft = proc[p].draft
          /\ s.next = proc[p].next /\ proc'[p] \in Procs
          /\ \/ s.next = "decide" /\ DecidesOn(proc'[p], s)
             \/ s.next = "note" /\ SavesMetadata(proc'[p], s, "end")
             \/ s.next \in {"note", "end"} /\ Finishes(proc'[p], s)
             \/ /\ s.next \in {"done", "unrevised"} /\ proc'[p].pc = s.next
                /\ SameTask(proc'[p], s) /\ SameItem(proc'[p], s)
    <2> DEFINE s == [proc[p] EXCEPT !.item = row]
    <2>1. /\ s \in Procs /\ SameTask(s, proc[p]) /\ s.item = row
          /\ s.draft = proc[p].draft /\ s.next = proc[p].next /\ s.next \in Nexts
      BY <1>1 DEF Procs, TypeOK, SameTask
    <2>2. proc'[p] = AfterSave(p, s)
      BY <1>1 DEF ReadSaved, Becomes, TypeOK
    <2> HIDE DEF s
    <2>3. CASE s.next = "decide"
      BY <2>1, <2>2, <2>3, DecidedHand DEF AfterSave
    <2>4. CASE s.next = "note"
      BY <2>1, <2>2, <2>4, FinishedHand, SavingMetadataHand DEF AfterSave, Nexts
    <2>5. CASE s.next = "end"
      BY <2>1, <2>2, <2>5, FinishedHand DEF AfterSave
    <2>6. CASE s.next \in {"done", "unrevised"}
      BY <2>1, <2>2, <2>6, GoesHand DEF AfterSave, Steps
    <2> QED
      BY <2>1, <2>3, <2>4, <2>5, <2>6 DEF Nexts
  <1>4. Fits(proc[p])' /\ proc'[p].pc # "save_gate"
    <2>1. CASE s.next = "decide"
      <3>1. Fits(proc'[p]) /\ proc'[p].pc # "save_gate"
        BY <1>1, <1>2, <1>3, <2>1, DecidedFits DEF SameTask, Fits, SaveSteps
      <3> QED
        BY <1>2, <3>1 DEF Fits
    <2>2. CASE s.next # "decide"
      BY <1>1, <1>2, <1>3, <2>2 DEF SameTask, SavesMetadata, Finishes, Fits, SaveSteps
    <2> QED
      BY <2>1, <2>2
  <1>5. GateMovesAreRecorded'
    BY <1>2, InHand DEF GateMovesAreRecorded
  <1>6. ASSUME ~overlap
        PROVE  /\ Len(drafts') <= 1 /\ Known(row)' /\ DraftIsApprovedText'
               /\ Sound(proc[p])'
    <2>1. Len(drafts) <= 1 /\ Known(row) /\ DraftIsApprovedText /\ Sound(proc[p])
      BY <1>1, <1>6, Alone
    <2>2. Len(drafts') <= 1 /\ Known(row)' /\ DraftIsApprovedText'
      BY <1>2, <2>1 DEF Known, DraftIsApprovedText
    <2>3. Sound(proc'[p])
      <3>1. CASE s.next = "decide"
        <4>1. /\ DecidesOn(proc'[p], s) /\ s.kind \in {"click", "form"}
              /\ s.kind = "click" => s.target \in {"approved", "revise", "rejected"}
              /\ s.kind = "form" => s.target = "revise"
              /\ s.wants => s.target = "approved" /\ s.kind = "click"
          BY <1>1, <1>2, <1>3, <3>1 DEF Fits, SameTask, SaveSteps
        <4>2. /\ row.status = s.target /\ s.draft = row.draft
              /\ linked => gate = GateState(s.target)
              /\ First(s) => row.draft = Len(drafts)
          BY <1>2, <1>3, <2>1, <3>1, <4>1
          DEF SameTask, Sound, AfterCheck, DraftInv, SaveInv, First, SaveSteps
        <4>3. s.kind = "form" => /\ s.base.status \in {"pending", "revise"}
                                 /\ s.base.draft = Len(drafts)
          BY <1>2, <1>3, <2>1 DEF SameTask, Sound, FormInv
        <4> QED
          BY <1>3, <4>1, <4>2, <4>3, DecidedSound
      <3>2. CASE s.next = "note" /\ SavesMetadata(proc'[p], s, "end")
        BY <1>1, <1>2, <1>3, <2>1, <3>2
        DEF SavesMetadata, Fits, SameTask, SameItem, Sound, BeforeCheck, FormInv,
            AfterCheck, DraftInv, SaveInv, First, SaveSteps
      <3>3. CASE s.next \in {"note", "end"} /\ Finishes(proc'[p], s)
        BY <1>1, <1>2, <1>3, <2>1, <3>3
        DEF Finishes, Fits, SameTask, SameItem, Sound, BeforeCheck, FormInv,
            AfterCheck, DraftInv, SaveInv, First, SaveSteps
      <3>4. CASE /\ s.next \in {"done", "unrevised"} /\ proc'[p].pc = s.next
                 /\ SameTask(proc'[p], s)
        BY <1>1, <1>2, <1>3, <2>1, <3>4
        DEF Fits, SameTask, Sound, BeforeCheck, FormInv,
            AfterCheck, DraftInv, SaveInv, First, SaveSteps
      <3> QED
        BY <1>3, <3>1, <3>2, <3>3, <3>4
    <2>4. Sound(proc[p])'
      BY <1>2, <2>3 DEF Sound, BeforeCheck, FormInv, AfterCheck, DraftInv, SaveInv, First
    <2> QED
      BY <2>2, <2>4
  <1> QED
    BY <1>1, <1>2, <1>3, <1>4, <1>5, <1>6, Alone, StepKeepsInvIf DEF TypeOK

LEMMA ReviseTextKeepsInv ==
  ASSUME ApprovalInv, NEW p \in Proc, ReviseText(p)
  PROVE  ApprovalInv'
  <1>1. TypeOK /\ Fits(proc[p]) /\ proc[p] \in Procs /\ ~At(p, "idle")
    BY InHand DEF ReviseText, At
  <1>2. /\ proc' = [proc EXCEPT ![p] = proc'[p]] /\ proc[p].pc = "revise"
        /\ UNCHANGED <<linked, row, gate, moves, drafts, ops, overlap>>
    BY <1>1 DEF ReviseText, Becomes, TypeOK, At
  <1>3. /\ proc'[p] \in Procs /\ SameTask(proc'[p], proc[p])
        /\ \/ /\ proc'[p].pc = "save_check" /\ proc'[p].next = "done"
              /\ proc'[p].out.status = "pending" /\ proc'[p].out.text = proc[p].op + 1
              /\ proc'[p].out.draft = proc[p].base.draft
           \/ /\ proc'[p].pc = "save_check" /\ proc'[p].next = "unrevised"
              /\ proc'[p].out = proc[p].base
           \/ proc'[p].pc = "done"
    <2> DEFINE s == proc[p]
               i == [s.base EXCEPT !.text = s.op + 1, !.status = "pending"]
    <2>1. s \in Procs /\ s.base \in Items /\ i \in Items /\ i.status = "pending"
          /\ i.text = s.op + 1 /\ i.draft = s.base.draft
      <3>1. s \in Procs /\ s.base \in Items /\ s.op + 1 \in Nat
        BY <1>1 DEF Procs
      <3> HIDE DEF s
      <3> QED
        BY <3>1 DEF Items, Status
    <2>2. \/ proc'[p] = Saving(s, i, "done")
          \/ proc'[p] = Saving(s, s.base, "unrevised")
          \/ proc'[p] = Goes(s, "done")
      BY <1>1 DEF ReviseText, Becomes, TypeOK
    <2> HIDE DEF s, i
    <2>3. /\ proc'[p] \in Procs /\ SameTask(proc'[p], s)
          /\ \/ proc'[p].pc = "save_check" /\ proc'[p].next = "done" /\ proc'[p].out = i
             \/ proc'[p].pc = "save_check" /\ proc'[p].next = "unrevised" /\ proc'[p].out = s.base
             \/ proc'[p].pc = "done"
      <3>1. CASE proc'[p] = Saving(s, i, "done")
        BY <2>1, <3>1, SavingHand DEF Nexts
      <3>2. CASE proc'[p] = Saving(s, s.base, "unrevised")
        <4> DEFINE b == s.base
                   r == Saving(s, b, "unrevised")
        <4>1. s \in Procs /\ b \in Items /\ "unrevised" \in Nexts
          BY <2>1 DEF Nexts
        <4> HIDE DEF b
        <4>2. r \in Procs /\ r.pc = "save_check" /\ r.out = b /\ r.next = "unrevised" /\ SameTask(r, s)
          BY <4>1, SavingHand
        <4> HIDE DEF r
        <4>3. proc'[p] = r
          BY <3>2 DEF b, r
        <4> QED
          BY <4>2, <4>3 DEF b
      <3>3. CASE proc'[p] = Goes(s, "done")
        BY <2>1, <3>3, GoesHand DEF Steps
      <3> QED
        BY <2>2, <3>1, <3>2, <3>3
    <2> QED
      BY <2>1, <2>3 DEF s
  <1>4. Fits(proc[p])' /\ proc'[p].pc # "save_gate"
    BY <1>1, <1>2, <1>3 DEF SameTask, Fits, SaveSteps
  <1>5. GateMovesAreRecorded'
    BY <1>2, InHand DEF GateMovesAreRecorded
  <1>6. ASSUME ~overlap
        PROVE  /\ Len(drafts') <= 1 /\ Known(row)' /\ DraftIsApprovedText'
               /\ Sound(proc[p])'
    <2>1. Len(drafts) <= 1 /\ Known(row) /\ DraftIsApprovedText /\ Sound(proc[p])
      BY <1>1, <1>6, Alone
    <2>2. Len(drafts') <= 1 /\ Known(row)' /\ DraftIsApprovedText'
      BY <1>2, <2>1 DEF Known, DraftIsApprovedText
    <2>3. Sound(proc'[p])
      BY <1>1, <1>2, <1>3, <2>1
      DEF Fits, SameTask, Sound, BeforeCheck, FormInv, AfterCheck, DraftInv, SaveInv,
          First, SaveSteps
    <2>4. Sound(proc[p])'
      BY <1>2, <2>3 DEF Sound, BeforeCheck, FormInv, AfterCheck, DraftInv, SaveInv, First
    <2> QED
      BY <2>2, <2>4
  <1> QED
    BY <1>1, <1>2, <1>3, <1>4, <1>5, <1>6, Alone, StepKeepsInvIf DEF TypeOK

-----------------------------------------------------------------------------
(* The four operations begin.                                              *)

\* Each kind of operation at its first step.
Opens(s) ==
  \/ /\ s.pc = "read" /\ s.kind = "click" /\ s.target \in {"approved", "revise", "rejected"}
     /\ s.wants => s.target = "approved"
  \/ s.pc = "read" /\ s.kind = "form" /\ s.target = "revise" /\ ~s.wants /\ s.base = row
  \/ s.pc = "check" /\ s.kind = "update" /\ ~s.wants
  \/ s.pc = "save_check" /\ s.kind = "feedback" /\ ~s.wants /\ s.out = row /\ s.next = "done"

LEMMA BeginKeepsInv ==
  ASSUME ApprovalInv, NEW p \in Proc, NEW s \in Procs, Begin(p, s), Opens(s)
  PROVE  ApprovalInv'
  <1>1. TypeOK /\ GateMovesAreRecorded
    BY InHand
  <1>2. /\ proc' = [proc EXCEPT ![p] = proc'[p]]
        /\ UNCHANGED <<linked, row, gate, moves, drafts>>
        /\ overlap' \in BOOLEAN /\ ops' \in Nat
        /\ ~overlap' => ~overlap /\ Others(p)
    <2>1. overlap' = (overlap \/ \E q \in Proc \ {p} : ~At(q, "idle"))
      BY DEF Begin
    <2>2. ~overlap' => ~overlap /\ Others(p)
      BY <2>1 DEF Others
    <2> QED
      BY <1>1, <2>1, <2>2 DEF Begin, Becomes, TypeOK
  <1>3. proc'[p] \in Procs /\ Opens(proc'[p])
    <2>1. proc'[p] = [s EXCEPT !.op = ops + 1] /\ ops + 1 \in Nat
      BY <1>1 DEF Begin, Becomes, TypeOK
    <2> QED
      BY <2>1 DEF Procs, Opens
  <1>4. Fits(proc[p])' /\ proc'[p].pc # "save_gate"
    BY <1>3 DEF Opens, Fits, SaveSteps
  <1>5. GateMovesAreRecorded'
    BY <1>1, <1>2 DEF GateMovesAreRecorded
  <1>6. ASSUME ~overlap'
        PROVE  /\ Len(drafts') <= 1 /\ Known(row)' /\ DraftIsApprovedText'
               /\ Sound(proc[p])'
    <2>1. Len(drafts) <= 1 /\ Known(row) /\ DraftIsApprovedText
      BY <1>2, <1>6 DEF ApprovalInv, SerialInv
    <2>2. Len(drafts') <= 1 /\ Known(row)' /\ DraftIsApprovedText'
      BY <1>2, <1>6, <2>1 DEF Known, DraftIsApprovedText
    <2>3. Sound(proc[p])'
      BY <1>2, <1>3 DEF Opens, Sound, BeforeCheck, FormInv, AfterCheck, DraftInv, SaveInv,
         First, SaveSteps
    <2> QED
      BY <2>2, <2>3
  <1> QED
    BY <1>1, <1>2, <1>3, <1>4, <1>5, <1>6, StepKeepsInvIf DEF TypeOK

LEMMA ClickKeepsInv ==
  ASSUME ApprovalInv, NEW p \in Proc, NEW s \in {"approved", "revise", "rejected"},
         NEW w \in BOOLEAN, Click(p, s, w)
  PROVE  ApprovalInv'
  <1> DEFINE o == [Idle EXCEPT !.pc = "read", !.kind = "click", !.target = s, !.wants = w]
  <1>1. o \in Procs /\ Opens(o)
    BY IdleHand DEF Click, Procs, Steps, Kinds, Status, Opens
  <1>2. Begin(p, o)
    BY DEF Click
  <1> QED
    BY <1>1, <1>2, BeginKeepsInv

LEMMA SubmitFormKeepsInv ==
  ASSUME ApprovalInv, NEW p \in Proc, SubmitForm(p)
  PROVE  ApprovalInv'
  <1> DEFINE o == [Idle EXCEPT !.pc = "read", !.kind = "form", !.target = "revise", !.base = row]
  <1>1. row \in Items
    BY DEF ApprovalInv, TypeOK
  <1>2. o \in Procs /\ Opens(o)
    BY <1>1, IdleHand DEF Procs, Steps, Kinds, Status, Opens
  <1>3. Begin(p, o)
    BY DEF SubmitForm
  <1> QED
    BY <1>2, <1>3, BeginKeepsInv

LEMMA UpdateKeepsInv ==
  ASSUME ApprovalInv, NEW p \in Proc, NEW s \in Updates, Update(p, s)
  PROVE  ApprovalInv'
  <1> DEFINE o == [Idle EXCEPT !.pc = "check", !.kind = "update", !.target = s]
  <1>1. o \in Procs /\ Opens(o)
    BY IdleHand, ApprovalAssumption DEF Procs, Steps, Kinds, Opens
  <1>2. Begin(p, o)
    BY DEF Update
  <1> QED
    BY <1>1, <1>2, BeginKeepsInv

LEMMA FeedbackKeepsInv ==
  ASSUME ApprovalInv, NEW p \in Proc, Feedback(p)
  PROVE  ApprovalInv'
  <1> DEFINE i == [Idle EXCEPT !.kind = "feedback"]
             o == Saving(i, row, "done")
  <1>1. row \in Items /\ i \in Procs /\ i.kind = "feedback" /\ ~i.wants
    BY IdleHand DEF ApprovalInv, TypeOK, Procs, Kinds
  <1>2. Begin(p, o)
    BY DEF Feedback
  <1> HIDE DEF i
  <1>3. o \in Procs /\ Opens(o)
    <2>1. "done" \in Nexts
      BY DEF Nexts
    <2>2. /\ o \in Procs /\ o.pc = "save_check" /\ o.out = row /\ o.next = "done"
          /\ SameTask(o, i)
      BY <1>1, <2>1, SavingHand
    <2> HIDE DEF o
    <2> QED
      BY <1>1, <2>2 DEF SameTask, Opens
  <1> QED
    BY <1>2, <1>3, BeginKeepsInv

-----------------------------------------------------------------------------

\* The invariant holds when the item has just been queued.
LEMMA InitInv == Init => ApprovalInv
  <1> SUFFICES ASSUME Init PROVE ApprovalInv
    OBVIOUS
  <1>1. drafts \in Seq(Nat) /\ Len(drafts) \in {0, 1} /\ (Len(drafts) = 1 => drafts[1] = 0)
    <2>1. CASE drafts = <<>>
      BY <2>1
    <2>2. CASE drafts = <<0>>
      BY <2>2
    <2> QED
      BY <2>1, <2>2 DEF Init
  <1>2. row \in Items /\ row.status = "pending" /\ row.draft = Len(drafts)
    BY <1>1 DEF Init, Items, Status
  <1>3. \A p \in Proc : proc[p].pc = "idle" /\ proc[p].kind = "update" /\ ~proc[p].wants
    BY IdleHand DEF Init
  <1>4. TypeOK
    BY <1>1, <1>2, IdleHand DEF Init, TypeOK, GateStates
  <1>5. (\A p \in Proc : Fits(proc[p])) /\ GateInv
    BY <1>3 DEF Init, Fits, SaveSteps, GateInv, GateMovesAreRecorded, At
  <1>6. \A p \in Proc : Sound(proc[p])
    BY <1>3 DEF Sound, BeforeCheck, FormInv, AfterCheck, DraftInv, SaveInv, First, SaveSteps
  <1>7. Len(drafts) <= 1 /\ Known(row) /\ DraftIsApprovedText
    <2>1. \A d \in 1 .. Len(drafts) : drafts[d] = 0
      BY <1>1
    <2> QED
      BY <1>1, <1>2, <2>1 DEF Known, DraftIsApprovedText
  <1> QED
    BY <1>3, <1>4, <1>5, <1>6, <1>7 DEF ApprovalInv, SerialInv, At

\* Every step of every process, and stuttering, keeps it.
LEMMA StepKeepsInv == ApprovalInv /\ [Next]_vars => ApprovalInv'
  <1> SUFFICES ASSUME ApprovalInv, [Next]_vars PROVE ApprovalInv'
    OBVIOUS
  <1>1. CASE Next
    <2>1. PICK p \in Proc :
            \/ \E s \in {"approved", "revise", "rejected"}, w \in BOOLEAN : Click(p, s, w)
            \/ SubmitForm(p)
            \/ \E s \in Updates : Update(p, s)
            \/ Feedback(p)
            \/ ReadItem(p) \/ ReadWorkItem(p)
            \/ CheckUpdate(p) \/ WriteStatus(p) \/ ReadUpdated(p)
            \/ RecordGateMove(p) \/ SaveGate(p)
            \/ MakeDraft(p)
            \/ CheckSave(p) \/ WriteItem(p) \/ ReadSaved(p)
            \/ ReviseText(p)
            \/ Leave(p) \/ Crash(p)
      BY <1>1 DEF Next
    <2>2. CASE SubmitForm(p) \/ Feedback(p)
               \/ (\E s \in {"approved", "revise", "rejected"}, w \in BOOLEAN : Click(p, s, w))
               \/ (\E s \in Updates : Update(p, s))
      BY <2>2, ClickKeepsInv, SubmitFormKeepsInv, UpdateKeepsInv, FeedbackKeepsInv
    <2>3. CASE ReadItem(p) \/ ReadWorkItem(p) \/ CheckUpdate(p) \/ WriteStatus(p) \/ ReadUpdated(p)
      BY <2>3, ReadItemKeepsInv, ReadWorkItemKeepsInv, CheckUpdateKeepsInv, WriteStatusKeepsInv,
         ReadUpdatedKeepsInv
    <2>4. CASE RecordGateMove(p) \/ SaveGate(p) \/ MakeDraft(p)
      BY <2>4, RecordGateMoveKeepsInv, SaveGateKeepsInv, MakeDraftKeepsInv
    <2>5. CASE CheckSave(p) \/ WriteItem(p) \/ ReadSaved(p) \/ ReviseText(p) \/ Leave(p) \/ Crash(p)
      BY <2>5, CheckSaveKeepsInv, WriteItemKeepsInv, ReadSavedKeepsInv, ReviseTextKeepsInv,
         LeaveKeepsInv, CrashKeepsInv
    <2> QED
      BY <2>1, <2>2, <2>3, <2>4, <2>5
  <1>2. CASE UNCHANGED vars
    <2>1. TypeOK'
      BY <1>2 DEF vars, ApprovalInv, TypeOK
    <2>2. (\A p \in Proc : Fits(proc[p]))' /\ GateInv'
      BY <1>2 DEF vars, ApprovalInv, Fits, GateInv, GateMovesAreRecorded, At
    <2>3. ~overlap => \A p \in Proc : Sound(proc[p])'
      BY <1>2 DEF vars, ApprovalInv, SerialInv, Sound, BeforeCheck, FormInv, AfterCheck,
         DraftInv, SaveInv, First
    <2>4. SerialInv'
      BY <1>2, <2>3 DEF vars, ApprovalInv, SerialInv, At, Known, DraftIsApprovedText
    <2> QED
      BY <2>1, <2>2, <2>4 DEF ApprovalInv
  <1> QED
    BY <1>1, <1>2

-----------------------------------------------------------------------------
(* The theorems.                                                           *)

\* The inductive invariant holds in every state: what each operation has in hand at
\* each of its steps, and what an operation that runs alone may rely on there.
THEOREM ApprovalInvHolds == Spec => []ApprovalInv
  BY InitInv, StepKeepsInv, PTL DEF Spec

\* Item, gate, drafts and the data of every process have their types, in every
\* interleaving of clicks, forms, updates and feedback.
THEOREM ApprovalTypeCorrect == Spec => []TypeOK
  <1>1. ApprovalInv => TypeOK
    BY DEF ApprovalInv
  <1> QED
    BY <1>1, ApprovalInvHolds, PTL

\* In any interleaving and after any crash, a gate that has left "pending" shows a
\* decision that a gate event of the WorkItem records
\* (apply_slack_approval_to_work_item_gate writes the event before the WorkItem).
THEOREM GateMovesAreAlwaysRecorded == Spec => []GateMovesAreRecorded
  <1>1. ApprovalInv => GateMovesAreRecorded
    BY DEF ApprovalInv, GateInv
  <1> QED
    BY <1>1, ApprovalInvHolds, PTL

\* As long as operations follow one another, any number of clicks, crashes and
\* repeated clicks leaves one Gmail draft.
THEOREM SerialClicksMakeOneDraft == Spec => []OneDraft
  <1>1. ApprovalInv => OneDraft
    BY DEF ApprovalInv, SerialInv, OneDraft
  <1> QED
    BY <1>1, ApprovalInvHolds, PTL

\* As long as operations follow one another, a draft made here has the text of an item
\* that was approved and has not been revised since.
THEOREM SerialDraftIsApprovedText == Spec => []DraftIsApprovedText
  <1>1. ApprovalInv => DraftIsApprovedText
    BY DEF ApprovalInv, SerialInv, DraftIsApprovedText
  <1> QED
    BY <1>1, ApprovalInvHolds, PTL

\* As long as operations follow one another, the item, the gate and the draft are as
\* the answer to a click, an update or a revision form says, whatever an operation
\* that died before it had left behind.
THEOREM SerialAnswerIsTrue == Spec => []AnswerIsTrue
  <1>1. ApprovalInv => AnswerIsTrue
    <2> SUFFICES ASSUME ApprovalInv, NEW p \in Proc, At(p, "done"), ~overlap
                 PROVE  LET s == proc[p]
                        IN  /\ s.kind \in {"click", "update"} => row.status = s.target
                            /\ s.kind = "click" /\ linked => gate = GateState(s.target)
                            /\ s.kind = "click" /\ s.wants /\ s.prev # "approved" =>
                                 row.draft \in 1 .. Len(drafts) /\ drafts[row.draft] = row.text
                            /\ s.kind = "form" /\ ~linked =>
                                 row.status = "revise"
                                   \/ (row.status = "pending" /\ row.text = s.op + 1)
      BY DEF AnswerIsTrue
    <2>1. AfterCheck(proc[p]) /\ DraftInv(proc[p]) /\ SaveInv(proc[p]) /\ proc[p].pc = "done"
      BY DEF ApprovalInv, SerialInv, Sound, At
    <2> QED
      BY <2>1 DEF AfterCheck, DraftInv, SaveInv, First
  <1> QED
    BY <1>1, ApprovalInvHolds, PTL

\* As long as operations follow one another, no step takes the item's status where
\* VALID_APPROVAL_QUEUE_TRANSITIONS does not let it go.
THEOREM SerialTransitionsFollowTable == Spec => SerialStatusFollowsTable
  <1>1. ApprovalInv /\ [Next]_vars => [overlap' \/ row'.status \in NextStatus(row.status)]_vars
    <2> SUFFICES ASSUME ApprovalInv, Next, ~overlap'
                 PROVE  row'.status \in NextStatus(row.status)
      OBVIOUS
    <2>1. row.status \in Status /\ row.status \in NextStatus(row.status)
      BY DEF ApprovalInv, TypeOK, Items, Status, NextStatus
    <2>2. PICK p \in Proc : WriteStatus(p) \/ WriteItem(p) \/ UNCHANGED row
      <3>1. ASSUME NEW p \in Proc,
                   \/ ReadItem(p) \/ ReadWorkItem(p) \/ CheckUpdate(p) \/ ReadUpdated(p)
                   \/ RecordGateMove(p) \/ SaveGate(p)
            PROVE  UNCHANGED row
        BY <3>1 DEF ReadItem, ReadWorkItem, CheckUpdate, ReadUpdated, RecordGateMove, SaveGate
      <3>2. ASSUME NEW p \in Proc,
                   \/ MakeDraft(p) \/ CheckSave(p) \/ ReadSaved(p) \/ ReviseText(p)
                   \/ Leave(p) \/ Crash(p)
            PROVE  UNCHANGED row
        BY <3>2 DEF MakeDraft, CheckSave, ReadSaved, ReviseText, Leave, Crash
      <3>3. ASSUME NEW p \in Proc,
                   \/ \E s \in {"approved", "revise", "rejected"}, w \in BOOLEAN : Click(p, s, w)
                   \/ SubmitForm(p)
                   \/ \E s \in Updates : Update(p, s)
                   \/ Feedback(p)
            PROVE  UNCHANGED row
        BY <3>3 DEF Click, SubmitForm, Update, Feedback, Begin
      <3> QED
        BY <3>1, <3>2, <3>3 DEF Next
    <2>3. CASE WriteStatus(p)
      <3>1. proc[p].pc = "write" /\ ~overlap /\ row'.status = proc[p].target
        BY <2>3 DEF WriteStatus, At, ApprovalInv, TypeOK, Items
      <3> QED
        BY <3>1 DEF ApprovalInv, SerialInv, Sound, AfterCheck
    <2>4. CASE WriteItem(p)
      <3>1. proc[p].pc = "save_write" /\ ~overlap /\ row' = proc[p].out
        BY <2>4 DEF WriteItem, At
      <3> QED
        BY <3>1 DEF ApprovalInv, SerialInv, Sound, SaveInv
    <2> QED
      BY <2>1, <2>2, <2>3, <2>4
  <1> QED
    BY <1>1, ApprovalInvHolds, PTL DEF Spec, SerialStatusFollowsTable

=============================================================================
