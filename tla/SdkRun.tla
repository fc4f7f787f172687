------------------------------- MODULE SdkRun -------------------------------
(***************************************************************************)
(* run_typed_sdk_agent: the attempts of one agent run at a typed answer,   *)
(* and the tool calls its model makes meanwhile.  An attempt may be        *)
(* followed by another: after an answer without the tools asked for        *)
(* (correction), after a decision the validator rejects (repair), after an *)
(* answer that does not parse (schema) and after a rate limit.  One ledger *)
(* counts the calls of all attempts; what earlier attempts did decides     *)
(* which tools the next one has.                                           *)
(*                                                                         *)
(* The run may belong to a durable execution.  Then writes go through the  *)
(* operation journal, here one row per operation (OperationJournal has the *)
(* rest of it), reads are answered from saved results while the journal    *)
(* stays as it was, and after a crash the execution is run again.          *)
(*                                                                         *)
(* The tools are a "read", a "write" for the operations in Op, and a       *)
(* "search" that the model provider hosts, which no hook of ours sees.     *)
(***************************************************************************)
EXTENDS Naturals, Sequences, FiniteSets

CONSTANTS Op,            \* the writes the model may ask for
          Slot,          \* calls that may be open at a time
          ReadLimit, WriteLimit, SearchLimit, Total,   \* the run's contract
          MaxRate, MaxSchema, MaxRepair,   \* retries and repairs allowed
          MaxRuns,       \* bound: runs of the execution
          MaxSearch      \* bound: hosted calls of one run

Tool == {"read", "write", "search"}
Limit == [t \in Tool |-> CASE t = "read"  -> ReadLimit
                           [] t = "write" -> WriteLimit
                           [] OTHER       -> SearchLimit]
MaxCorrection == 1

ASSUME SdkRunAssumption ==
  /\ {ReadLimit, WriteLimit, SearchLimit, Total} \subseteq Nat
  /\ {MaxRate, MaxSchema, MaxRepair, MaxRuns, MaxSearch} \subseteq Nat

VARIABLES durable,   \* the run belongs to a durable execution
          rows,      \* its operation journal: the status of each operation
          cache,     \* its saved reads: what was read, by the journal's state
          writes,    \* provider: for each operation, the attempts that wrote it
          slot,      \* the open calls
          phase,     \* what the run is doing
          done,      \* retries of each kind so far
          used,      \* the ledger: calls counted for each tool
          invoked,   \* invocations recorded, and whether they completed
          disabled,  \* tools taken from the model
          hosted,    \* hosted calls of this attempt
          made,      \* history: calls that reached the tool in this run
          runs       \* runs begun

vars == <<durable, rows, cache, writes, slot, phase, done, used, invoked, disabled,
          hosted, made, runs>>

run == <<done, used, invoked, disabled, hosted, made>>

-----------------------------------------------------------------------------

Status == {"absent", "intent", "no_effect", "unknown", "observed", "verified"}

\* A call: a write and its attempt, or a read, the journal's state before it and
\* what it found.
Calls == [step : {"free", "reading", "read", "answer", "writing", "written", "late"},
          op : Op \cup {"none"}, attempt : Nat, key : [Op -> Status], value : SUBSET Op]

Free == [step |-> "free", op |-> "none", attempt |-> 0,
         key |-> [w \in Op |-> "absent"], value |-> {}]

Retries == {"correction", "repair", "schema", "rate"}
Phases == {"ready", "model", "waiting", "ok", "failed", "down"}
Ended == {"ok", "failed", "down"}

TypeOK ==
  /\ durable \in BOOLEAN
  /\ rows \in [Op -> Status]
  /\ cache \subseteq [key : [Op -> Status], value : SUBSET Op]
  /\ writes \in [Op -> Seq(Nat)]
  /\ slot \in [Slot -> Calls]
  /\ phase \in Phases
  /\ done \in [Retries -> Nat]
  /\ used \in [Tool -> Nat]
  /\ invoked \subseteq Tool \X {"completed", "reused", "open"}
  /\ disabled \subseteq Tool
  /\ hosted \in Nat
  /\ made \in [Tool -> Nat]
  /\ runs \in Nat

Zero == [t \in Tool |-> 0]

Init ==
  /\ durable \in BOOLEAN
  /\ rows = [w \in Op |-> "absent"]
  /\ cache = {}
  /\ writes = [w \in Op |-> <<>>]
  /\ slot = [s \in Slot |-> Free]
  /\ phase = "ready"
  /\ done = [r \in Retries |-> 0]
  /\ used = Zero /\ made = Zero
  /\ invoked = {} /\ disabled = {} /\ hosted = 0
  /\ runs = 1

-----------------------------------------------------------------------------

All(count) == count["read"] + count["write"] + count["search"]

Attempt == 1 + done["correction"] + done["repair"] + done["schema"] + done["rate"]

\* The operations whose write has happened.
Present == {w \in Op : writes[w] # <<>>}

\* ToolCallBudgetLedger.admit, which counts under a lock.
Admitted(t) == used[t] < Limit[t] /\ All(used) < Total

Counted(t) == used' = [used EXCEPT ![t] = @ + 1]

Reaches(t) == made' = [made EXCEPT ![t] = @ + 1]

\* The record of an invocation.  That of a read which did not complete decides nothing,
\* and is not kept.
Recorded(t, how) == invoked' = invoked \cup ({<<t, how>>} \ {<<"read", "open">>})

Holds(s, step) == slot[s].step = step

Becomes(s, call) == slot' = [slot EXCEPT ![s] = call]

\* The model may call tool t: an attempt runs and the tool is enabled.
CanCall(s, t) == phase = "model" /\ Holds(s, "free") /\ t \notin disabled

\* A call the ledger rejects is answered without the tool; it never completes.
Blocked(t) ==
  /\ ~Admitted(t)
  /\ Recorded(t, "open")
  /\ UNCHANGED <<rows, slot, used, made>>

-----------------------------------------------------------------------------

(***************************************************************************)
(* A read.  A durable one is looked up under the state of the journal and  *)
(* answered from there, or goes to the provider, where it finds what has   *)
(* been written so far, and is saved under the state it was looked up in.  *)
(***************************************************************************)
InvokeRead(s) ==
  /\ CanCall(s, "read")
  /\ \/ Blocked("read")
     \/ /\ Admitted("read") /\ Counted("read")
        /\ LET call == [Free EXCEPT !.key = rows]
               hits == {c \in cache : c.key = rows}
           IN  \/ \E c \in hits :
                    /\ durable
                    /\ Becomes(s, [call EXCEPT !.step = "answer", !.value = c.value])
                    /\ Recorded("read", "reused")
                    /\ UNCHANGED made
               \/ /\ ~durable \/ hits = {}
                  /\ Becomes(s, [call EXCEPT !.step = "reading"])
                  /\ Reaches("read")
                  /\ UNCHANGED invoked
        /\ UNCHANGED rows
  /\ UNCHANGED <<durable, cache, writes, phase, done, disabled, hosted, runs>>

AnswerRead(s) ==
  /\ Holds(s, "reading")
  /\ Becomes(s, [slot[s] EXCEPT !.step = "read", !.value = Present])
  /\ UNCHANGED <<durable, rows, cache, writes, phase, run, runs>>

\* Slip: the call is saved as it stands.
SavedReadWhole(call) == call

\* Slip: the read is saved under the state the journal has by now.
SavedReadLate(call) == [key |-> rows, value |-> call.value]

SavedRead(call) == [key |-> call.key, value |-> call.value]

\* Success is saved, unless an earlier read was; the model has the answer.
ReturnRead(s) ==
  /\ Holds(s, "read")
  /\ \/ /\ Becomes(s, [slot[s] EXCEPT !.step = "answer"])
        /\ Recorded("read", "completed")
        /\ LET saved == SavedRead(slot[s])
           IN  cache' = IF durable /\ \A c \in cache : c.key # saved.key
                        THEN cache \cup {saved} ELSE cache
     \/ /\ Becomes(s, Free)
        /\ Recorded("read", "open")
        /\ UNCHANGED cache
  /\ UNCHANGED <<durable, rows, writes, phase, done, used, disabled, hosted, made, runs>>

LookAtAnswer(s) ==
  /\ Holds(s, "answer")
  /\ Becomes(s, Free)
  /\ UNCHANGED <<durable, rows, cache, writes, phase, run, runs>>

-----------------------------------------------------------------------------

\* Slip: an output that nobody could make sense of blocks nothing.
UnresolvedIntents == {w \in Op : rows[w] \in {"intent", "observed"}}

Unresolved == {w \in Op : rows[w] \notin {"absent", "no_effect", "verified"}}

\* The write is issued, in a durable run after its intent.
Issue(s, w) ==
  /\ Becomes(s, [Free EXCEPT !.step = "writing", !.op = w, !.attempt = Attempt])
  /\ Reaches("write")
  /\ rows' = IF durable THEN [rows EXCEPT ![w] = "intent"] ELSE rows
  /\ UNCHANGED invoked

\* A write.  The journal replays a verified one and refuses any while one is
\* unresolved; neither counts as completed.
InvokeWrite(s, w) ==
  /\ CanCall(s, "write")
  /\ \/ Blocked("write")
     \/ /\ Admitted("write") /\ Counted("write")
        /\ \/ /\ durable /\ (rows[w] = "verified" \/ Unresolved # {})
              /\ Recorded("write", "open")
              /\ UNCHANGED <<rows, slot, made>>
           \/ /\ ~durable \/ (rows[w] # "verified" /\ Unresolved = {})
              /\ Issue(s, w)
  /\ UNCHANGED <<durable, cache, writes, phase, done, disabled, hosted, runs>>

\* The provider performs a write, perhaps long after its call was given up.
Write(s) ==
  /\ Holds(s, "writing") \/ Holds(s, "late")
  /\ LET w == slot[s].op IN writes' = [writes EXCEPT ![w] = Append(@, slot[s].attempt)]
  /\ Becomes(s, IF Holds(s, "writing") THEN [slot[s] EXCEPT !.step = "written"] ELSE Free)
  /\ UNCHANGED <<durable, rows, cache, phase, run, runs>>

\* A given-up call ends without a write.
Expire(s) ==
  /\ Holds(s, "late")
  /\ Becomes(s, Free)
  /\ UNCHANGED <<durable, rows, cache, writes, phase, run, runs>>

(***************************************************************************)
(* The call returns and its output is observed, or it raises and is not.   *)
(* A verified or named object was written; a preview was not; otherwise    *)
(* the outcome is unknown, and the write may still come.  Without a        *)
(* journal a completed call has written.                                   *)
(***************************************************************************)
Outcomes(s) ==
  IF Holds(s, "written")
  THEN {"verified", "observed", "unknown", "intent"} \X {"completed", "open"}
  ELSE {"no_effect"} \X {"completed", "open"} \cup {"unknown", "intent"} \X {"open"}

ReturnWrite(s) ==
  /\ Holds(s, "writing") \/ Holds(s, "written")
  /\ \E o \in Outcomes(s) :
       /\ o[1] = "intent" => o[2] = "open"
       /\ rows' = IF durable THEN [rows EXCEPT ![slot[s].op] = o[1]] ELSE rows
       /\ Recorded("write", o[2])
       /\ Becomes(s, IF Holds(s, "writing") /\ o[1] # "no_effect"
                     THEN [slot[s] EXCEPT !.step = "late"] ELSE Free)
  /\ UNCHANGED <<durable, cache, writes, phase, done, used, disabled, hosted, made, runs>>

\* The provider runs a hosted tool within the model's response.
HostedCall ==
  /\ phase = "model"
  /\ made["search"] < MaxSearch
  /\ hosted' = hosted + 1
  /\ Reaches("search")
  /\ UNCHANGED <<durable, rows, cache, writes, slot, phase, done, used, invoked, disabled,
                 runs>>

-----------------------------------------------------------------------------

Open == {s \in Slot : slot[s].step \notin {"free", "late"}}

\* The attempt gives up its open calls: a write that has not happened still may.
GivenUp ==
  [s \in Slot |-> IF Holds(s, "writing") THEN [slot[s] EXCEPT !.step = "late"]
                  ELSE IF Holds(s, "late") THEN slot[s] ELSE Free]

\* ... and they were started and never completed.
GivenUpCalls ==
  (invoked \ {<<"read", "reused">>})
    \cup {<<"write", "open">> : s \in {x \in Slot : slot[x].step \in {"writing", "written"}}}

\* The journal vouches for the write tool: it has resolved rows and no other.
JournalVouches(continuing) ==
  continuing /\ durable /\ Unresolved = {} /\ \E w \in Op : rows[w] # "absent"

\* Slip: a call that was given up is not looked at.
UnsafeRetryOfReported(calls, continuing) ==
  <<"write", "open">> \in invoked /\ ~JournalVouches(continuing)

\* A write that did not complete may have happened: the run must not go on.
UnsafeRetry(calls, continuing) ==
  <<"write", "open">> \in calls /\ ~JournalVouches(continuing)

\* _prepare_tools_for_retry: completed writes lose their tool, and reads that ended
\* as in reads.
TakenForRetry(calls, reads, continuing) ==
  disabled
    \cup {t \in {"read"}  : \E how \in reads : <<"read", how>> \in calls}
    \cup {t \in {"write"} : <<"write", "completed">> \in calls /\ ~JournalVouches(continuing)}

\* Slip: a repair loses the tools that another retry would lose.
TakenForRepairAsRetry == TakenForRetry(invoked, {"completed"}, FALSE)

\* _disable_decision_repair_tools.
TakenForRepair == Tool

Retried(r) == done' = [done EXCEPT ![r] = @ + 1]

\* What a run keeps in memory, at its start.
Fresh ==
  /\ done' = [r \in Retries |-> 0]
  /\ used' = Zero /\ made' = Zero
  /\ invoked' = {} /\ disabled' = {} /\ hosted' = 0

\* The run raises; its memory is lost and all tools are enabled again.
Fails == phase' = "failed" /\ Fresh

-----------------------------------------------------------------------------

\* Slip: every attempt has a ledger of its own.
StartAttemptAnew ==
  /\ phase = "ready"
  /\ \/ Fails
     \/ /\ phase' = "model"
        /\ used' = Zero
        /\ UNCHANGED <<done, invoked, disabled, hosted, made>>
  /\ UNCHANGED <<durable, rows, cache, writes, slot, runs>>

\* An attempt is admitted, or the run fails because its deadline is near.
StartAttempt ==
  /\ phase = "ready"
  /\ \/ Fails
     \/ phase' = "model" /\ UNCHANGED run
  /\ UNCHANGED <<durable, rows, cache, writes, slot, runs>>

\* observe_hosted_calls finds a call over the contract, and raises.
Overage == used["search"] + hosted > SearchLimit \/ All(used) + hosted > Total

(***************************************************************************)
(* The model has answered, with no call open.  Its hosted calls are        *)
(* counted; then the answer is taken, or a correction or a repair follows, *)
(* or the run fails.                                                       *)
(***************************************************************************)
EndAttempt ==
  /\ phase = "model"
  /\ \A s \in Slot : Holds(s, "free") \/ Holds(s, "late")
  /\ \/ Fails
     \/ /\ ~Overage
        /\ used' = [used EXCEPT !["search"] = @ + hosted]
        /\ hosted' = 0
        /\ \/ phase' = "ok" /\ disabled' = {} /\ UNCHANGED done
           \/ /\ done["correction"] < MaxCorrection
              /\ ~UnsafeRetry(invoked, FALSE)
              /\ disabled' = TakenForRetry(invoked, {"completed", "reused"}, FALSE)
              /\ Retried("correction") /\ phase' = "ready"
           \/ /\ done["repair"] < MaxRepair
              /\ ~UnsafeRetry(invoked, FALSE)
              /\ disabled' = TakenForRepair
              /\ Retried("repair") /\ phase' = "ready"
        /\ UNCHANGED <<invoked, made>>
  /\ UNCHANGED <<durable, rows, cache, writes, slot, runs>>

(***************************************************************************)
(* The attempt fails with an exception, its own or that of a call while    *)
(* others are open.  Its hosted calls are not counted.  An answer that     *)
(* does not parse and a rate limit may be retried; only the former may go  *)
(* on after a write on the journal's word.                                 *)
(***************************************************************************)
FailAttempt ==
  /\ phase = "model"
  /\ slot' = GivenUp
  /\ \/ Fails
     \/ /\ invoked' = GivenUpCalls
        /\ hosted' = 0
        /\ \/ /\ done["schema"] < MaxSchema
              /\ ~UnsafeRetry(GivenUpCalls, TRUE)
              /\ disabled' = TakenForRetry(GivenUpCalls, {"completed"}, TRUE)
              /\ Retried("schema") /\ phase' = "ready"
           \/ /\ done["rate"] < MaxRate
              /\ ~UnsafeRetry(GivenUpCalls, FALSE)
              /\ disabled' = TakenForRetry(GivenUpCalls, {"completed"}, FALSE)
              /\ Retried("rate") /\ phase' = "waiting"
        /\ UNCHANGED <<used, made>>
  /\ UNCHANGED <<durable, rows, cache, writes, runs>>

\* The wait before the retry is over.
Waited ==
  /\ phase = "waiting"
  /\ phase' = "ready"
  /\ UNCHANGED <<durable, rows, cache, writes, slot, run, runs>>

-----------------------------------------------------------------------------

\* The process of a durable run dies.
Crash ==
  /\ durable /\ phase \notin Ended
  /\ phase' = "down"
  /\ slot' = GivenUp
  /\ Fresh
  /\ UNCHANGED <<durable, rows, cache, writes, runs>>

\* The execution is resumed: a new run, with the journal as it is.
Resume ==
  /\ durable /\ phase \in Ended /\ runs < MaxRuns
  /\ phase' = "ready"
  /\ runs' = runs + 1
  /\ Fresh
  /\ UNCHANGED <<durable, rows, cache, writes, slot>>

\* An object that the journal names is read back.
Reconcile(w) ==
  /\ durable /\ phase \in Ended /\ rows[w] = "observed"
  /\ rows' = [rows EXCEPT ![w] = "verified"]
  /\ UNCHANGED <<durable, cache, writes, slot, phase, run, runs>>

Next ==
  \/ StartAttempt \/ EndAttempt \/ FailAttempt \/ Waited
  \/ HostedCall
  \/ Crash \/ Resume
  \/ \E w \in Op : Reconcile(w)
  \/ \E s \in Slot :
       \/ InvokeRead(s) \/ AnswerRead(s) \/ ReturnRead(s) \/ LookAtAnswer(s)
       \/ \E w \in Op : InvokeWrite(s, w)
       \/ Write(s) \/ Expire(s) \/ ReturnWrite(s)

Spec == Init /\ [][Next]_vars

-----------------------------------------------------------------------------

\* No retry, resumption, late write or call given up repeats a write: an operation of
\* a durable execution is written once, and without a journal all writes of a run
\* belong to one attempt (_prepare_tools_for_retry, UnsafeMutationRetryError).
WriteIsNotRepeated ==
  IF durable
  THEN \A w \in Op : Len(writes[w]) <= 1
  ELSE \A v, w \in Op : \A i \in DOMAIN writes[v], j \in DOMAIN writes[w] :
         writes[v][i] = writes[w][j]

\* A read of a durable execution, saved or fresh, shows every write that the journal
\* had verified when the read was asked for (the cache key in invoke_and_record).
ReadShowsVerified ==
  \A s \in Slot :
    Holds(s, "answer") => \A w \in Op : slot[s].key[w] = "verified" => w \in slot[s].value

\* The calls that reach our tools, in all attempts of a run and open at a time, stay
\* within its contract; and a run that ends well without a failed attempt has kept
\* the contract with its hosted calls too (ToolCallBudgetLedger).
WithinContract ==
  /\ made["read"] <= ReadLimit /\ made["write"] <= WriteLimit
  /\ made["read"] + made["write"] <= Total
  /\ phase = "ok" /\ done["schema"] = 0 /\ done["rate"] = 0 =>
       made["search"] <= SearchLimit /\ All(made) <= Total

\* From the first repair on no call reaches our tools ("strictly tool-free",
\* _disable_decision_repair_tools), whatever other retries follow.
RepairIsToolFree ==
  [][done["repair"] > 0 /\ phase = "model" =>
       made'["read"] <= made["read"] /\ made'["write"] <= made["write"]]_vars

-----------------------------------------------------------------------------
(* The abstract view: the writes of a durable run are operations of one    *)
(* execution.  A run without a journal promises the ledger nothing.        *)

OutcomeOf(s) ==
  CASE s \in {"absent", "no_effect"} -> "open"
    [] s \in {"intent", "unknown"}   -> "uncertain"
    [] s = "observed"                -> "named"
    [] s = "verified"                -> "verified"

Journalled == {"run"} \X Op

Ledger == INSTANCE EffectLedger WITH
  Exec <- {"run"}, Key <- Op, Item <- {}, NoItem <- "none",
  item    <- [e \in {"run"} |-> "none"],
  outcome <- [o \in Journalled |-> OutcomeOf(rows[o[2]])],
  present <- [o \in Journalled |-> durable /\ writes[o[2]] # <<>>],
  writes  <- [o \in Journalled |-> IF durable THEN Len(writes[o[2]]) ELSE 0]

\* The effect ledger that OperationJournal implements is also what retries, repairs,
\* calls given up and resumptions of a run leave intact: a write is issued while no
\* other is in doubt, applied once, and taken back only if it never happened.
ImplementsLedger == Ledger!Spec

-----------------------------------------------------------------------------
(* Why these hold: an inductive invariant, in named parts.                 *)

Active == {"ready", "model", "waiting"}

Live(s) == slot[s].step \in {"writing", "written", "late"}

\* Where calls can be: only an attempt that runs has any but given-up ones.
CallsInv ==
  \A s \in Slot :
    /\ Live(s) => slot[s].op \in Op
    /\ phase # "model" => slot[s].step \in {"free", "late"}

\* What a repair takes stays taken until the run ends.
RepairInv == phase \in Active /\ done["repair"] > 0 => disabled = Tool

\* The ledger is ahead of the calls that reach our tools, and counts the hosted ones of
\* every attempt that did not fail.
LedgerInv ==
  /\ made["read"] <= used["read"] /\ used["read"] <= ReadLimit
  /\ made["write"] <= used["write"] /\ used["write"] <= WriteLimit
  /\ used["search"] <= SearchLimit /\ All(used) <= Total
  /\ phase # "model" => hosted = 0
  /\ done["schema"] = 0 /\ done["rate"] = 0 => made["search"] = used["search"] + hosted

\* The journal knows of each write: what it calls unwritten or written is so, and it
\* has a row in doubt for the only call that may still write.
DurableInv ==
  IF durable
  THEN /\ \A w \in Op : /\ Len(writes[w]) <= 1
                        /\ rows[w] \in {"absent", "no_effect"} => writes[w] = <<>>
                        /\ rows[w] \in {"observed", "verified"} => writes[w] # <<>>
       /\ \A s \in Slot : Live(s) =>
            /\ rows[slot[s].op] \in {"intent", "unknown"}
            /\ ~Holds(s, "written") => writes[slot[s].op] = <<>>
            /\ Holds(s, "written") => writes[slot[s].op] # <<>>
            /\ \A x \in Slot : Live(x) => x = s
  ELSE \A w \in Op : rows[w] = "absent"

\* A read under way, answered or saved shows what its key calls verified.
ReadInv ==
  /\ \A c \in cache, w \in Op : c.key[w] = "verified" => w \in c.value
  /\ \A s \in Slot, w \in Op :
       slot[s].key[w] = "verified" =>
         /\ Holds(s, "reading") => w \in Present
         /\ Holds(s, "read") \/ Holds(s, "answer") => w \in slot[s].value

\* The writes that have happened without a journal, and the calls that may still
\* write, are of one attempt.
OneAttempt ==
  /\ \A v, w \in Op : \A i \in DOMAIN writes[v], j \in DOMAIN writes[w] :
       writes[v][i] = writes[w][j]
  /\ \A s \in Slot : Live(s) =>
       /\ \A x \in Slot : Live(x) => slot[x].attempt = slot[s].attempt
       /\ \A w \in Op : \A i \in DOMAIN writes[w] : writes[w][i] = slot[s].attempt

\* As long as a run without a journal has its write tool, those calls are of the
\* attempt that runs now, and are on record if they were not answered.
AttemptInv ==
  ~durable =>
    /\ OneAttempt
    /\ phase \in Active /\ "write" \notin disabled =>
         /\ phase # "model" => Present = {} /\ \A s \in Slot : ~Live(s)
         /\ \A w \in Op : \A i \in DOMAIN writes[w] : writes[w][i] = Attempt
         /\ \A s \in Slot : Live(s) => slot[s].attempt = Attempt
         /\ \A s \in Slot : Holds(s, "late") => <<"write", "open">> \in invoked
         /\ Present # {} => \/ \E s \in Slot : Holds(s, "written")
                            \/ <<"write", "open">> \in invoked
                            \/ <<"write", "completed">> \in invoked

\* Together these are preserved by every step, and imply the properties above.
SdkRunInv ==
  TypeOK /\ CallsInv /\ RepairInv /\ LedgerInv /\ DurableInv /\ ReadInv /\ AttemptInv

\* One ledger is "shared by every turn and repair in one SDK run" and accounts for
\* hosted calls (ToolCallBudgetLedger): a run that ends well has kept its contract.
HostedWithinContract == phase = "ok" => made["search"] <= SearchLimit

=============================================================================
