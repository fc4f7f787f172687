---------------------------- MODULE ApprovalGate ----------------------------
(***************************************************************************)
(* One item of the approval queue, the WorkItem gate it may be linked to,  *)
(* and the Gmail drafts made from it.  A reviewer's click, a submitted     *)
(* revision form, a status update (script or tool) and an operator's       *)
(* feedback each run in a process of their own.  None holds a lock or a    *)
(* transaction over its steps: the store opens a connection for every call *)
(* (storage/sqlite_store.py, managed_connection), so that what a process   *)
(* read may be old when it writes, and it may die between any two steps.   *)
(*                                                                         *)
(* A text is a number: 0 is what an earlier draft says, 1 the item's first *)
(* text, and the o-th operation, if it revises, writes text o + 1.         *)
(***************************************************************************)
EXTENDS Naturals, Sequences, FiniteSets

CONSTANTS Proc,      \* processes, used again once an operation has ended
          NoProc,    \* "nobody's feedback"
          Updates,   \* the statuses scripts and tools set
          MaxOps     \* bound: operations begun

Status == {"pending", "revise", "approved", "rejected", "expired", "archived"}

ASSUME ApprovalAssumption ==
  /\ NoProc \notin Proc
  /\ Updates \subseteq Status
  /\ MaxOps \in Nat

VARIABLES linked,   \* the item names a WorkItem
          row,      \* the item: status, text, draft id in its metadata, feedback there
          gate,     \* the state of the WorkItem's gate
          moves,    \* gate states recorded as WorkItem events
          drafts,   \* Gmail: the text of each draft, by id
          proc,     \* the processes
          ops,      \* operations begun
          overlap   \* history: an operation began before another had ended

vars == <<linked, row, gate, moves, drafts, proc, ops, overlap>>

-----------------------------------------------------------------------------

\* Slip: an approved item may be sent back for revision.
NextStatusReopening(s) ==
  IF s \in {"pending", "approved"} THEN Status
  ELSE IF s = "revise" THEN {"pending", "revise", "archived", "expired"}
  ELSE {s, "archived"}

NextStatus(s) ==
  CASE s = "pending"  -> Status
    [] s = "revise"   -> {"pending", "revise", "archived", "expired"}
    [] s = "approved" -> {"approved", "archived", "expired"}
    [] OTHER          -> {s, "archived"}

GateStates == {"pending", "approved", "rejected", "revision_requested"}

\* Slip: a click's status is taken for the state of the gate.
GateStateRaw(s) == s

\* A click's status as a state of the gate.
GateState(s) == IF s = "revise" THEN "revision_requested" ELSE s

Items == [status : Status, text : Nat, draft : Nat,
          note : Proc \cup {NoProc}]

Kinds == {"click", "form", "update", "feedback"}
Steps == {"idle", "read", "link", "check", "write", "reread", "gate", "save_gate",
          "draft", "save_check", "save_write", "save_reread", "revise", "done", "unrevised"}
Nexts == {"decide", "note", "end", "done", "unrevised"}

(***************************************************************************)
(* What a process has in hand: the status it sets, whether a draft is      *)
(* wanted, the form's first copy of the item (base), the status before     *)
(* (prev), the item as last read, the draft id and the feedback it will    *)
(* store as metadata, the gate of the WorkItem as read, the item it is     *)
(* about to save, and what it does after that.                             *)
(***************************************************************************)
NoItem == [status |-> "pending", text |-> 0, draft |-> 0, note |-> NoProc]

Idle == [pc |-> "idle", kind |-> "update", op |-> 0, target |-> "pending",
         wants |-> FALSE, base |-> NoItem, prev |-> "pending", item |-> NoItem,
         draft |-> 0, note |-> NoProc, gate |-> "pending", out |-> NoItem, next |-> "done"]

Procs == [pc : Steps, kind : Kinds, op : Nat, target : Status,
          wants : BOOLEAN, base : Items, prev : Status, item : Items,
          draft : Nat, note : Proc \cup {NoProc}, gate : GateStates,
          out : Items, next : Nexts]

TypeOK ==
  /\ linked \in BOOLEAN
  /\ row \in Items
  /\ gate \in GateStates
  /\ moves \subseteq GateStates
  /\ drafts \in Seq(Nat)
  /\ proc \in [Proc -> Procs]
  /\ ops \in Nat
  /\ overlap \in BOOLEAN

\* The item waits for review; it may update a draft that exists already.
Init ==
  /\ linked \in BOOLEAN
  /\ drafts \in {<<>>, <<0>>}
  /\ row = [status |-> "pending", text |-> 1, draft |-> Len(drafts), note |-> NoProc]
  /\ gate = "pending"
  /\ moves = {}
  /\ proc = [p \in Proc |-> Idle]
  /\ ops = 0
  /\ overlap = FALSE

-----------------------------------------------------------------------------

At(p, step) == proc[p].pc = step

\* p goes on with s in hand.
Becomes(p, s) == proc' = [proc EXCEPT ![p] = s]

Goes(s, step) == [s EXCEPT !.pc = step]

\* s is about to save item i, to read it again and to go on with next.
Saving(s, i, next) == [s EXCEPT !.pc = "save_check", !.out = i, !.next = next]

\* The item in hand with the metadata in hand, as _save_metadata stores it.
WithMetadata(s) == [s.item EXCEPT !.draft = s.draft, !.note = s.note]

\* The end of a click.  A form goes on to revise the text; with a WorkItem it
\* runs the WorkItem's workflow, which has items of its own.
Finished(s) == Goes(s, IF s.kind = "form" /\ ~linked THEN "revise" ELSE "done")

\* Slip: the status before the click is not looked at.
DecidedAnew(s) ==
  CASE s.target = "approved" /\ s.wants      -> Goes(s, "draft")
    [] s.target \in {"revise", "rejected"}    -> Saving(s, WithMetadata(s), "note")
    [] OTHER                                  -> Finished(s)

(***************************************************************************)
(* What follows the update and the gate: an approval that should make a    *)
(* draft makes it, unless the item was approved before the click; a        *)
(* duplicate, a request to revise and a rejection save their metadata.     *)
(***************************************************************************)
Decided(s) ==
  CASE s.target = "approved" /\ s.wants /\ s.prev # "approved" -> Goes(s, "draft")
    [] s.target = "approved" /\ s.wants /\ s.prev = "approved" ->
         Saving(s, WithMetadata(s), "end")
    [] s.target \in {"revise", "rejected"} -> Saving(s, WithMetadata(s), "note")
    [] OTHER -> Finished(s)

\* After a save.  Feedback that the item does not show is saved once more.
AfterSave(p, s) ==
  CASE s.next = "decide" -> Decided(s)
    [] s.next = "note" /\ s.kind = "form" /\ s.item.note # p ->
         Saving(s, WithMetadata(s), "end")
    [] s.next = "note" /\ (s.kind = "form" => s.item.note = p) -> Finished(s)
    [] s.next = "end" -> Finished(s)
    [] OTHER -> Goes(s, s.next)

-----------------------------------------------------------------------------

\* An operation begins as s; it overlaps when another has not ended.
Begin(p, s) ==
  /\ At(p, "idle")
  /\ ops < MaxOps
  /\ ops' = ops + 1
  /\ overlap' = (overlap \/ \E q \in Proc \ {p} : ~At(q, "idle"))
  /\ Becomes(p, [s EXCEPT !.op = ops + 1])
  /\ UNCHANGED <<linked, row, gate, moves, drafts>>

\* A reviewer's button; only an approval may ask for a Gmail draft.
Click(p, s, wants) ==
  /\ wants => s = "approved"
  /\ Begin(p, [Idle EXCEPT !.pc = "read", !.kind = "click", !.target = s, !.wants = wants])

\* A submitted revision form: it reads the item, then acts as the click "revise".
SubmitForm(p) ==
  Begin(p, [Idle EXCEPT !.pc = "read", !.kind = "form", !.target = "revise", !.base = row])

\* A status set by a script or a tool; no gate and no draft go with it.
Update(p, s) ==
  Begin(p, [Idle EXCEPT !.pc = "check", !.kind = "update", !.target = s])

\* Feedback on the agent's work, linked in the item's metadata.
Feedback(p) ==
  Begin(p, Saving([Idle EXCEPT !.kind = "feedback"], row, "done"))

ReadItem(p) ==
  /\ At(p, "read")
  /\ Becomes(p, [proc[p] EXCEPT !.item = row, !.prev = row.status,
                                !.pc = IF linked THEN "link" ELSE "check"])
  /\ UNCHANGED <<linked, row, gate, moves, drafts, ops, overlap>>

ReadWorkItem(p) ==
  /\ At(p, "link")
  /\ Becomes(p, [proc[p] EXCEPT !.gate = gate, !.pc = "check"])
  /\ UNCHANGED <<linked, row, gate, moves, drafts, ops, overlap>>

\* Slip: any status may be set.
CheckUpdateUnchecked(p) ==
  /\ At(p, "check")
  /\ Becomes(p, Goes(proc[p], "write"))
  /\ UNCHANGED <<linked, row, gate, moves, drafts, ops, overlap>>

\* update_approval_status reads the item itself and refuses a transition that the
\* table does not have: the operation ends with ApprovalTransitionError.
CheckUpdate(p) ==
  /\ At(p, "check")
  /\ Becomes(p, IF proc[p].target \in NextStatus(row.status)
                THEN Goes(proc[p], "write") ELSE Idle)
  /\ UNCHANGED <<linked, row, gate, moves, drafts, ops, overlap>>

\* The UPDATE statement, which names the item and not the status it was checked with.
WriteStatus(p) ==
  /\ At(p, "write")
  /\ row' = [row EXCEPT !.status = proc[p].target]
  /\ Becomes(p, Goes(proc[p], IF proc[p].kind = "update" THEN "done" ELSE "reread"))
  /\ UNCHANGED <<linked, gate, moves, drafts, ops, overlap>>

\* The updated item, read again; a form's feedback joins its metadata.
ReadUpdated(p) ==
  /\ At(p, "reread")
  /\ LET s == [proc[p] EXCEPT !.item = row, !.draft = row.draft,
                              !.note = IF proc[p].kind = "form" THEN p ELSE row.note]
     IN  Becomes(p, IF linked THEN Goes(s, "gate") ELSE Decided(s))
  /\ UNCHANGED <<linked, row, gate, moves, drafts, ops, overlap>>

\* Slip: the event is left to the end, and lost with the process.
RecordGateMoveLate(p) ==
  /\ At(p, "gate")
  /\ Becomes(p, Goes(proc[p], "save_gate"))
  /\ UNCHANGED <<linked, row, gate, moves, drafts, ops, overlap>>

\* Slip: a repeated click leaves the gate alone, as it leaves the draft.
RecordGateMoveOnce(p) ==
  /\ At(p, "gate")
  /\ LET new == GateState(proc[p].target)
     IN  IF proc[p].prev = proc[p].target
         THEN /\ Becomes(p, Saving(proc[p], WithMetadata(proc[p]), "decide"))
              /\ UNCHANGED moves
         ELSE /\ Becomes(p, Goes(proc[p], "save_gate"))
              /\ moves' = moves \cup {new}
  /\ UNCHANGED <<linked, row, gate, drafts, ops, overlap>>

\* apply_slack_approval_to_work_item_gate: a gate that was read in the state the
\* click asks for is left alone; otherwise the event comes first.
RecordGateMove(p) ==
  /\ At(p, "gate")
  /\ LET new == GateState(proc[p].target)
     IN  IF proc[p].gate = new
         THEN /\ Becomes(p, Saving(proc[p], WithMetadata(proc[p]), "decide"))
              /\ UNCHANGED moves
         ELSE /\ Becomes(p, Goes(proc[p], "save_gate"))
              /\ moves' = moves \cup {new}
  /\ UNCHANGED <<linked, row, gate, drafts, ops, overlap>>

\* The WorkItem as read before, with the new gate, is saved whole and unversioned.
SaveGate(p) ==
  /\ At(p, "save_gate")
  /\ gate' = GateState(proc[p].target)
  /\ Becomes(p, Saving(proc[p], WithMetadata(proc[p]), "decide"))
  /\ UNCHANGED <<linked, row, moves, drafts, ops, overlap>>

\* The draft is made, or the one the item names is replaced; its id goes into the
\* metadata in hand.
MakeDraft(p) ==
  /\ At(p, "draft")
  /\ LET i  == proc[p].item
         id == IF i.draft = 0 THEN Len(drafts) + 1 ELSE i.draft
         s  == [proc[p] EXCEPT !.draft = id]
     IN  /\ drafts' = IF i.draft = 0 THEN Append(drafts, i.text)
                                     ELSE [drafts EXCEPT ![id] = i.text]
         /\ Becomes(p, Saving(s, WithMetadata(s), "end"))
  /\ UNCHANGED <<linked, row, gate, moves, ops, overlap>>

\* save_approval_item validates against the status it reads; refusal ends the
\* operation, except that a revision which cannot be saved counts as failed.
CheckSave(p) ==
  /\ At(p, "save_check")
  /\ LET s == proc[p]
     IN  Becomes(p, CASE s.out.status \in NextStatus(row.status) -> Goes(s, "save_write")
                      [] /\ s.out.status \notin NextStatus(row.status)
                         /\ s.kind = "form" /\ s.next = "done" ->
                           Saving(s, s.base, "unrevised")
                      [] OTHER -> Idle)
  /\ UNCHANGED <<linked, row, gate, moves, drafts, ops, overlap>>

\* The INSERT OR UPDATE: every column, status and text included, as in hand.
WriteItem(p) ==
  /\ At(p, "save_write")
  /\ row' = proc[p].out
  /\ Becomes(p, Goes(proc[p], IF proc[p].next = "done" THEN "done" ELSE "save_reread"))
  /\ UNCHANGED <<linked, gate, moves, drafts, ops, overlap>>

ReadSaved(p) ==
  /\ At(p, "save_reread")
  /\ Becomes(p, AfterSave(p, [proc[p] EXCEPT !.item = row]))
  /\ UNCHANGED <<linked, row, gate, moves, drafts, ops, overlap>>

(***************************************************************************)
(* _revise_approval_item_direct: the form's first copy of the item with a  *)
(* new text goes back to pending; when the model fails, that copy is saved *)
(* as it is; without a body or without live models nothing is done.        *)
(***************************************************************************)
ReviseText(p) ==
  /\ At(p, "revise")
  /\ LET s == proc[p]
     IN  \E t \in { Saving(s, [s.base EXCEPT !.text = s.op + 1, !.status = "pending"], "done"),
                    Saving(s, s.base, "unrevised"),
                    Goes(s, "done") } : Becomes(p, t)
  /\ UNCHANGED <<linked, row, gate, moves, drafts, ops, overlap>>

\* The reviewer has the answer.
Leave(p) ==
  /\ At(p, "done") \/ At(p, "unrevised")
  /\ Becomes(p, Idle)
  /\ UNCHANGED <<linked, row, gate, moves, drafts, ops, overlap>>

\* The process dies, or an exception (Gmail, SQLite) ends it.
Crash(p) ==
  /\ ~At(p, "idle") /\ ~At(p, "done") /\ ~At(p, "unrevised")
  /\ Becomes(p, Idle)
  /\ UNCHANGED <<linked, row, gate, moves, drafts, ops, overlap>>

Next ==
  \E p \in Proc :
    \/ \E s \in {"approved", "revise", "rejected"}, w \in BOOLEAN : Click(p, s, w)
    \/ SubmitForm(p)
    \/ \E s \in Updates : Update(p, s)
    \/ Feedback(p)
    \/ ReadItem(p) \/ ReadWorkItem(p)
    \/ CheckUpdate(p) \/ WriteStatus(p) \/ ReadUpdated(p)
    \/ RecordGateMove(p) \/ SaveGate(p)
    \/ MakeDraft(p)
    \/ CheckSave(p) \/ WriteItem(p) \/ ReadSaved(p)
    \/ ReviseText(p)
    \/ Leave(p) \/ Crash(p)

Spec == Init /\ [][Next]_vars

-----------------------------------------------------------------------------

\* A status only moves as the table VALID_APPROVAL_QUEUE_TRANSITIONS says
\* (schemas/approval.py), whoever writes it and whatever crashes, as long as
\* operations come one after the other: it is checked in one transaction and written
\* in another, so that operations that overlap can undo each other.
SerialStatusFollowsTable == [][overlap' \/ row'.status \in NextStatus(row.status)]_vars

\* Serial operations leave one Gmail draft for the item, however often the approval
\* is clicked again and wherever an earlier click died.
OneDraft == overlap \/ Len(drafts) <= 1

\* What a serial operation has put into a draft is the text a reviewer approved: the
\* item was approved, and its text is still that of the draft.
DraftIsApprovedText ==
  \/ overlap
  \/ \A d \in 1 .. Len(drafts) :
       drafts[d] # 0 => /\ row.status \in {"approved", "archived", "expired"}
                        /\ drafts[d] = row.text

\* A serial operation that answered did what it says, on top of whatever a crashed
\* one left behind: the queue, the gate and the draft agree with the click.
AnswerIsTrue ==
  \A p \in Proc :
    At(p, "done") /\ ~overlap =>
      LET s == proc[p]
      IN  /\ s.kind \in {"click", "update"} => row.status = s.target
          /\ s.kind = "click" /\ linked => gate = GateState(s.target)
          /\ s.kind = "click" /\ s.wants /\ s.prev # "approved" =>
               row.draft \in 1 .. Len(drafts) /\ drafts[row.draft] = row.text
          /\ s.kind = "form" /\ ~linked =>
               row.status = "revise" \/ (row.status = "pending" /\ row.text = s.op + 1)

\* The WorkItem's gate never shows a decision that no event of the WorkItem
\* records, in any interleaving.
GateMovesAreRecorded == gate = "pending" \/ gate \in moves

-----------------------------------------------------------------------------
(* Why these hold: an inductive invariant, in named parts.                 *)

SaveSteps == {"save_check", "save_write", "save_reread"}

\* Which operations come to which steps, and what they want there.
Fits(s) ==
  /\ s.pc = "idle" => s.kind = "update"
  /\ s.pc \in {"read", "link", "reread", "gate", "save_gate", "draft"} =>
       s.kind \in {"click", "form"}
  /\ s.pc \in {"check", "write"} => s.kind # "feedback"
  /\ s.pc = "revise" => s.kind = "form" /\ ~linked
  /\ s.kind = "click" => s.target \in {"approved", "revise", "rejected"}
  /\ s.kind = "form" => s.target = "revise"
  /\ s.wants => s.target = "approved" /\ s.kind = "click"
  /\ s.pc = "draft" => s.wants /\ s.prev # "approved"
  /\ s.pc \in SaveSteps =>
       /\ s.next \in {"decide", "note", "end"} => s.kind \in {"click", "form"}
       /\ s.next = "note" => s.target \in {"revise", "rejected"}
       /\ s.next = "done" => s.kind = "feedback" \/ (s.kind = "form" /\ ~linked)
       /\ s.next = "unrevised" => s.kind = "form"

\* The gate's event comes before the gate.
GateInv ==
  /\ GateMovesAreRecorded
  /\ \A p \in Proc : At(p, "save_gate") => GateState(proc[p].target) \in moves

\* The draft of an item that still waits for review is known to the item.
Known(i) ==
  /\ i.draft \in {0, Len(drafts)}
  /\ i.status \in {"pending", "revise"} => i.draft = Len(drafts)

\* A click asks for a draft of an item that was not approved before.
First(s) == s.kind = "click" /\ s.wants /\ s.prev # "approved"

\* Before the check an operation has the item and the gate as they are.
BeforeCheck(s) ==
  /\ s.kind = "form" /\ s.pc \in {"read", "link", "check"} => s.base = row
  /\ s.kind # "update" /\ s.pc \in {"link", "check"} => s.prev = row.status
  /\ linked /\ s.kind # "update" /\ s.pc \in {"check", "write", "reread", "gate"} => s.gate = gate

\* A form that was let in revises an item that waits, and knows its draft.
FormInv(s) ==
  s.kind = "form" /\ s.pc \notin {"read", "link", "check"} =>
    /\ row.status \in {"pending", "revise"} /\ s.base.status \in {"pending", "revise"}
    /\ s.base.draft = Len(drafts)

\* After the check the item has the status asked for.
AfterCheck(s) ==
  /\ s.pc = "write" => s.target \in NextStatus(row.status)
  /\ s.pc \in {"reread", "gate", "save_gate", "draft", "revise"} => row.status = s.target
  /\ s.pc = "done" /\ s.kind \in {"click", "update"} => row.status = s.target
  /\ s.pc \in {"gate", "save_gate", "draft"} => s.item = row
  /\ s.pc \in {"gate", "save_gate"} => s.draft = row.draft
  /\ linked /\ s.kind \in {"click", "form"} /\ s.pc \in SaveSteps \cup {"draft", "done"} =>
       gate = GateState(s.target)

\* The draft's id in hand, and the draft that a first approval makes.
DraftInv(s) ==
  /\ First(s) /\ s.pc \in {"write", "reread", "gate", "save_gate", "draft"} =>
       row.draft = Len(drafts)
  /\ First(s) /\ s.pc \in SaveSteps /\ s.next = "decide" => s.draft = Len(drafts)
  /\ First(s) /\ s.pc \in SaveSteps /\ s.next # "decide" =>
       s.draft \in 1 .. Len(drafts) /\ drafts[s.draft] = row.text
  /\ First(s) /\ s.pc = "done" =>
       row.draft \in 1 .. Len(drafts) /\ drafts[row.draft] = row.text

\* What an operation is about to save.
SaveInv(s) ==
  /\ s.pc = "save_write" => s.out.status \in NextStatus(row.status)
  /\ s.pc \in SaveSteps /\ s.next \in {"decide", "note", "end"} =>
       row.status = s.target /\ s.draft \in {row.draft, Len(drafts)}
  /\ s.pc \in {"save_check", "save_write"} /\ s.next \in {"decide", "note", "end"} =>
       s.out.status = s.target /\ s.out.text = row.text /\ s.out.draft = s.draft
  /\ s.pc = "save_reread" /\ s.next \in {"decide", "note", "end"} => row.draft = s.draft
  /\ s.pc \in {"save_check", "save_write"} /\ s.kind = "feedback" => s.out = row
  /\ s.pc \in {"save_check", "save_write"} /\ s.kind = "form" /\ s.next = "done" =>
       s.out.status = "pending" /\ s.out.draft = Len(drafts) /\ s.out.text = s.op + 1
  /\ s.pc \in SaveSteps /\ s.next = "unrevised" => s.pc = "save_reread" \/ s.out = s.base
  /\ s.pc = "save_reread" => s.next # "done"
  /\ s.kind = "form" /\ ~linked /\ s.pc = "done" =>
       row.status = "revise" \/ (row.status = "pending" /\ row.text = s.op + 1)

Sound(s) == BeforeCheck(s) /\ FormInv(s) /\ AfterCheck(s) /\ DraftInv(s) /\ SaveInv(s)

\* The operation that is alone knows the truth, and leaves the item in order.
SerialInv ==
  ~overlap =>
    /\ \A p, q \in Proc : ~At(p, "idle") /\ ~At(q, "idle") => p = q
    /\ Len(drafts) <= 1 /\ Known(row) /\ DraftIsApprovedText
    /\ \A p \in Proc : Sound(proc[p])

\* Together these are preserved by every step, and imply the properties above.
ApprovalInv == TypeOK /\ (\A p \in Proc : Fits(proc[p])) /\ GateInv /\ SerialInv

\* A failed revision answers "revision feedback was saved for retry" with status
\* "revise" (_revise_approval_item_direct).
FeedbackIsSavedForRetry ==
  \A p \in Proc : At(p, "unrevised") /\ ~overlap => row.note = p /\ row.status = "revise"

=============================================================================
