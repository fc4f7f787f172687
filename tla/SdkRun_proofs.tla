----------------------------- MODULE SdkRun_proofs -----------------------------
(***************************************************************************)
(* Proofs about the attempts of an agent run, for any operations, number   *)
(* of open calls, limits, retries and resumptions: SdkRunInv is inductive. *)
(* Most steps leave the writes alone, or the reads, or let calls dwindle;  *)
(* a lemma for each of these settles what it leaves alone.                 *)
(***************************************************************************)
EXTENDS SdkRun, TLAPS

CallSteps == {"free", "reading", "read", "answer", "writing", "written", "late"}

LEMMA FreeCall == Free \in Calls /\ Free.step = "free"
  BY DEF Free, Calls, Status

LEMMA CallAt ==
  ASSUME NEW c \in Calls, NEW step \in CallSteps
  PROVE  LET d == [c EXCEPT !.step = step]
         IN  /\ d \in Calls /\ d.step = step /\ d.op = c.op /\ d.attempt = c.attempt
             /\ d.key = c.key /\ d.value = c.value
  BY DEF Calls, CallSteps

\* The other calls stay as they are, and the types do.
LEMMA OneCall ==
  ASSUME TypeOK, NEW s \in Slot, NEW c \in Calls, Becomes(s, c)
  PROVE  /\ slot' \in [Slot -> Calls] /\ slot'[s] = c
         /\ \A x \in Slot \ {s} : slot'[x] = slot[x]
  BY DEF TypeOK, Becomes

LEMMA AttemptIsNat ==
  ASSUME TypeOK
  PROVE  Attempt \in Nat
  BY DEF TypeOK, Attempt, Retries

-----------------------------------------------------------------------------
(* What a step leaves alone.                                               *)

\* Each call stays, ends, or is given up.
CallsDwindle ==
  \A x \in Slot :
    \/ slot'[x] = slot[x]
    \/ slot'[x].step = "free"
    \/ /\ Holds(x, "writing") /\ slot'[x].step = "late"
       /\ slot'[x].op = slot[x].op /\ slot'[x].attempt = slot[x].attempt

LEMMA Dwindling ==
  ASSUME SdkRunInv, UNCHANGED <<durable, rows, cache, writes>>, CallsDwindle
  PROVE  /\ DurableInv' /\ ReadInv'
         /\ ~durable => OneAttempt'
         /\ \A x \in Slot : Live(x)' => slot'[x].op \in Op
  <1>1. \A x \in Slot : Live(x)' =>
          /\ Live(x) /\ slot'[x].op = slot[x].op /\ slot'[x].attempt = slot[x].attempt
          /\ Holds(x, "written")' <=> Holds(x, "written")
    BY DEF CallsDwindle, Live, Holds
  <1>2. \A x \in Slot : Live(x)' => slot'[x].op \in Op
    BY <1>1 DEF SdkRunInv, CallsInv
  <1>3. DurableInv'
    <2>1. CASE durable
      <3>1. \A x \in Slot : Live(x)' =>
              /\ rows'[slot'[x].op] \in {"intent", "unknown"}
              /\ ~Holds(x, "written")' => writes'[slot'[x].op] = <<>>
              /\ Holds(x, "written")' => writes'[slot'[x].op] # <<>>
        BY <1>1, <2>1 DEF SdkRunInv, DurableInv
      <3>2. \A x, y \in Slot : Live(x)' /\ Live(y)' => x = y
        BY <1>1, <2>1 DEF SdkRunInv, DurableInv
      <3> QED
        BY <2>1, <3>1, <3>2 DEF SdkRunInv, DurableInv
    <2>2. CASE ~durable
      BY <2>2 DEF SdkRunInv, DurableInv
    <2> QED
      BY <2>1, <2>2
  <1>4. ReadInv'
    BY DEF SdkRunInv, ReadInv, CallsDwindle, Holds, Present
  <1>5. ~durable => OneAttempt'
    BY <1>1 DEF SdkRunInv, AttemptInv, OneAttempt
  <1> QED
    BY <1>2, <1>3, <1>4, <1>5

\* A step that leaves all writers alone and keeps the run going.
LEMMA WritersAlone ==
  ASSUME SdkRunInv, UNCHANGED <<durable, rows, writes, phase, done, disabled>>,
         invoked \ {<<"read", "reused">>} \subseteq invoked',
         \A x \in Slot : Live(x) \/ Live(x)' => slot'[x] = slot[x]
  PROVE  /\ DurableInv' /\ AttemptInv'
         /\ \A x \in Slot : Live(x)' => slot'[x].op \in Op
  <1>1. \A x \in Slot : /\ Live(x)' <=> Live(x)
                        /\ Live(x) => slot'[x] = slot[x]
    BY DEF Live
  <1>2. \A x \in Slot : /\ Holds(x, "written")' <=> Holds(x, "written")
                        /\ Holds(x, "late")' <=> Holds(x, "late")
    BY <1>1 DEF Live, Holds
  <1>3. DurableInv'
    BY <1>1, <1>2 DEF SdkRunInv, DurableInv
  <1>4. ~durable => OneAttempt'
    BY <1>1 DEF SdkRunInv, AttemptInv, OneAttempt
  <1>5. AttemptInv'
    <2> SUFFICES ASSUME ~durable, phase \in Active, "write" \notin disabled
                 PROVE  AttemptInv'
      BY <1>4 DEF AttemptInv
    <2>1. <<"write", "open">> # <<"read", "reused">> /\ <<"write", "completed">> # <<"read", "reused">>
      OBVIOUS
    <2> QED
      BY <1>1, <1>2, <1>4, <2>1 DEF SdkRunInv, AttemptInv, Present, Attempt
  <1>6. \A x \in Slot : Live(x)' => slot'[x].op \in Op
    BY <1>1 DEF SdkRunInv, CallsInv
  <1> QED
    BY <1>3, <1>5, <1>6

\* A step that leaves all reads alone.
LEMMA ReadersAlone ==
  ASSUME SdkRunInv, UNCHANGED cache, Present \subseteq Present',
         \A x \in Slot : slot'[x].step \in {"reading", "read", "answer"} => slot'[x] = slot[x]
  PROVE  ReadInv'
  BY DEF SdkRunInv, ReadInv, Holds

-----------------------------------------------------------------------------
(* The run and its attempts.                                               *)

LEMMA GivingUp ==
  ASSUME TypeOK, slot' = GivenUp
  PROVE  /\ slot' \in [Slot -> Calls] /\ CallsDwindle
         /\ \A x \in Slot : slot'[x].step \in {"free", "late"}
  <1>1. \A x \in Slot : slot'[x] = IF Holds(x, "writing") THEN [slot[x] EXCEPT !.step = "late"]
                                   ELSE IF Holds(x, "late") THEN slot[x] ELSE Free
    BY DEF GivenUp
  <1>2. \A x \in Slot : slot[x] \in Calls
    BY DEF TypeOK
  <1>3. \A x \in Slot : LET d == [slot[x] EXCEPT !.step = "late"]
                        IN  /\ d \in Calls /\ d.step = "late"
                            /\ d.op = slot[x].op /\ d.attempt = slot[x].attempt
    BY <1>2, CallAt DEF CallSteps
  <1>4. slot' = [x \in Slot |-> slot'[x]]
    BY DEF GivenUp
  <1>5. \A x \in Slot : slot'[x] \in Calls
    BY <1>1, <1>2, <1>3, FreeCall
  <1> QED
    BY <1>1, <1>3, <1>4, <1>5, FreeCall DEF CallsDwindle, Holds

\* A run that ends without an answer, or begins after a crash, has nothing in memory.
LEMMA FreshRun ==
  ASSUME SdkRunInv, Fresh, phase' \in Phases \ {"model"}, durable \/ phase' \notin Active,
         UNCHANGED <<durable, rows, cache, writes>>, runs' \in Nat,
         slot' \in [Slot -> Calls], CallsDwindle,
         \A x \in Slot : slot'[x].step \in {"free", "late"}
  PROVE  SdkRunInv'
  <1>1. /\ DurableInv' /\ ReadInv' /\ (~durable => OneAttempt')
        /\ \A x \in Slot : Live(x)' => slot'[x].op \in Op
    BY Dwindling
  <1>2. TypeOK'
    BY DEF SdkRunInv, TypeOK, Fresh, Zero, Tool, Retries
  <1>3. CallsInv' /\ RepairInv' /\ AttemptInv'
    BY <1>1 DEF CallsInv, RepairInv, AttemptInv, Fresh, Retries
  <1>4. LedgerInv'
    BY SdkRunAssumption DEF LedgerInv, Fresh, Zero, Tool, Retries, All
  <1> QED
    BY <1>1, <1>2, <1>3, <1>4 DEF SdkRunInv

\* Between attempts all calls have ended or were given up.
LEMMA BetweenAttempts ==
  ASSUME SdkRunInv, phase # "model"
  PROVE  \A x \in Slot : slot[x].step \in {"free", "late"}
  BY DEF SdkRunInv, CallsInv

LEMMA SameCalls ==
  ASSUME SdkRunInv, slot' = slot
  PROVE  slot' \in [Slot -> Calls] /\ CallsDwindle
  BY DEF SdkRunInv, TypeOK, CallsDwindle

LEMMA StartAttemptKeepsInv ==
  ASSUME SdkRunInv, StartAttempt
  PROVE  SdkRunInv'
  <1>1. /\ phase = "ready" /\ UNCHANGED <<durable, rows, cache, writes, slot, runs>>
        /\ \A x \in Slot : slot[x].step \in {"free", "late"}
    BY BetweenAttempts DEF StartAttempt
  <1>2. CASE Fails
    BY <1>1, <1>2, SameCalls, FreshRun DEF Fails, Phases, Active, SdkRunInv, TypeOK
  <1>3. CASE phase' = "model" /\ UNCHANGED run
    <2>1. /\ DurableInv' /\ ReadInv' /\ (~durable => OneAttempt')
          /\ \A x \in Slot : Live(x)' => slot'[x].op \in Op
      BY <1>1, SameCalls, Dwindling
    <2>2. TypeOK' /\ CallsInv'
      BY <1>1, <1>3, <2>1 DEF SdkRunInv, TypeOK, CallsInv, Phases, run
    <2>3. RepairInv' /\ LedgerInv'
      BY <1>1, <1>3 DEF SdkRunInv, RepairInv, LedgerInv, Active, run
    <2>4. AttemptInv'
      <3> SUFFICES ASSUME ~durable, "write" \notin disabled
                   PROVE  AttemptInv'
        BY <1>1, <1>3, <2>1 DEF AttemptInv, run
      <3>1. Present = {} /\ \A s \in Slot : ~Live(s)
        BY <1>1 DEF SdkRunInv, AttemptInv, Active
      <3>2. \A w \in Op : DOMAIN writes[w] = {}
        BY <3>1 DEF Present
      <3>3. Present' = {} /\ \A s \in Slot : ~Live(s)' /\ ~Holds(s, "late")'
        BY <1>1, <3>1 DEF Present, Live, Holds
      <3> QED
        BY <1>1, <1>3, <2>1, <3>2, <3>3 DEF AttemptInv
    <2> QED
      BY <2>1, <2>2, <2>3, <2>4 DEF SdkRunInv
  <1> QED
    BY <1>2, <1>3 DEF StartAttempt

LEMMA WaitedKeepsInv ==
  ASSUME SdkRunInv, Waited
  PROVE  SdkRunInv'
  <1>1. /\ phase = "waiting" /\ phase' = "ready"
        /\ UNCHANGED <<durable, rows, cache, writes, slot, runs>> /\ UNCHANGED run
    BY DEF Waited
  <1>2. /\ DurableInv' /\ ReadInv' /\ (~durable => OneAttempt')
        /\ \A x \in Slot : Live(x)' => slot'[x].op \in Op
    BY <1>1, SameCalls, Dwindling
  <1>3. TypeOK' /\ CallsInv'
    BY <1>1, <1>2 DEF SdkRunInv, TypeOK, CallsInv, Phases, run
  <1>4. RepairInv' /\ LedgerInv'
    BY <1>1 DEF SdkRunInv, RepairInv, LedgerInv, Active, run
  <1>5. AttemptInv'
    BY <1>1, <1>2 DEF SdkRunInv, AttemptInv, Active, run, Present, Live, Holds, Attempt
  <1> QED
    BY <1>2, <1>3, <1>4, <1>5 DEF SdkRunInv

LEMMA CrashKeepsInv ==
  ASSUME SdkRunInv, Crash
  PROVE  SdkRunInv'
  <1>1. /\ slot' \in [Slot -> Calls] /\ CallsDwindle
        /\ \A x \in Slot : slot'[x].step \in {"free", "late"}
    BY GivingUp DEF Crash, SdkRunInv
  <1> QED
    BY <1>1, FreshRun DEF Crash, Phases, SdkRunInv, TypeOK

LEMMA ResumeKeepsInv ==
  ASSUME SdkRunInv, Resume
  PROVE  SdkRunInv'
  <1>1. /\ \A x \in Slot : slot[x].step \in {"free", "late"}
        /\ slot' = slot
    BY BetweenAttempts DEF Resume, Ended
  <1>2. runs' \in Nat
    BY DEF Resume, SdkRunInv, TypeOK
  <1> QED
    BY <1>1, <1>2, SameCalls, FreshRun DEF Resume, Phases

LEMMA HostedCallKeepsInv ==
  ASSUME SdkRunInv, HostedCall
  PROVE  SdkRunInv'
  <1>1. /\ phase = "model" /\ hosted' = hosted + 1 /\ made' = [made EXCEPT !["search"] = @ + 1]
        /\ UNCHANGED <<durable, rows, cache, writes, slot, phase, done, used, invoked, disabled,
                       runs>>
    BY DEF HostedCall, Reaches
  <1>2. DurableInv' /\ AttemptInv'
    BY <1>1, WritersAlone
  <1>3. ReadInv'
    BY <1>1 DEF SdkRunInv, ReadInv, Present, Holds
  <1>4. TypeOK' /\ CallsInv' /\ RepairInv'
    BY <1>1 DEF SdkRunInv, TypeOK, CallsInv, RepairInv, Tool, Live
  <1>5. LedgerInv'
    BY <1>1 DEF SdkRunInv, TypeOK, LedgerInv, Tool
  <1> QED
    BY <1>2, <1>3, <1>4, <1>5 DEF SdkRunInv

\* Without a journal a retry that leaves the write tool follows no write.
LEMMA RetryFollowsNoWrite ==
  ASSUME SdkRunInv, phase = "model", ~durable,
         NEW calls, NEW reads, NEW continuing \in BOOLEAN,
         invoked \ {<<"read", "reused">>} \subseteq calls,
         \A s \in Slot : Holds(s, "writing") \/ Holds(s, "written") => <<"write", "open">> \in calls,
         ~UnsafeRetry(calls, continuing), "write" \notin TakenForRetry(calls, reads, continuing)
  PROVE  Present = {} /\ \A s \in Slot : ~Live(s)
  <1>1. <<"write", "open">> \notin calls /\ ~JournalVouches(continuing)
    BY DEF UnsafeRetry, JournalVouches
  <1>2. "write" \notin disabled /\ <<"write", "completed">> \notin calls
    BY <1>1 DEF TakenForRetry
  <1>3. <<"write", "open">> \notin invoked /\ <<"write", "completed">> \notin invoked
    BY <1>1, <1>2
  <1>4. \A s \in Slot : ~Live(s)
    BY <1>1, <1>2, <1>3 DEF SdkRunInv, AttemptInv, Active, Live, Holds
  <1>5. \A s \in Slot : ~Holds(s, "written")
    BY <1>4 DEF Live, Holds
  <1>6. Present = {}
    BY <1>2, <1>3, <1>5 DEF SdkRunInv, AttemptInv, Active
  <1> QED
    BY <1>4, <1>6

\* A retry keeps the run in order if it does so with the tools that it takes.
LEMMA RetryKeepsInv ==
  ASSUME SdkRunInv, phase = "model", phase' \in {"ready", "waiting", "ok"},
         UNCHANGED <<durable, rows, cache, writes, runs>>,
         TypeOK', LedgerInv', RepairInv', CallsDwindle,
         \A x \in Slot : slot'[x].step \in {"free", "late"},
         ~durable /\ phase' # "ok" /\ "write" \notin disabled' =>
           Present = {} /\ \A s \in Slot : ~Live(s)
  PROVE  SdkRunInv'
  <1>1. /\ DurableInv' /\ ReadInv' /\ (~durable => OneAttempt')
        /\ \A x \in Slot : Live(x)' => slot'[x].op \in Op
    BY Dwindling
  <1>2. CallsInv'
    BY <1>1 DEF CallsInv
  <1>3. AttemptInv'
    <2> SUFFICES ASSUME ~durable, phase' # "ok", "write" \notin disabled'
                 PROVE  AttemptInv'
      BY <1>1 DEF AttemptInv, Active
    <2>1. Present = {} /\ \A s \in Slot : ~Live(s)
      OBVIOUS
    <2>2. \A w \in Op : DOMAIN writes[w] = {}
      BY <2>1 DEF Present
    <2>3. Present' = {} /\ \A s \in Slot : ~Live(s)' /\ ~Holds(s, "late")'
      BY <2>1 DEF Present, Live, Holds, CallsDwindle
    <2> QED
      BY <1>1, <2>2, <2>3 DEF AttemptInv
  <1> QED
    BY <1>1, <1>2, <1>3 DEF SdkRunInv

LEMMA EndAttemptKeepsInv ==
  ASSUME SdkRunInv, EndAttempt
  PROVE  SdkRunInv'
  <1>1. /\ phase = "model" /\ UNCHANGED <<durable, rows, cache, writes, slot, runs>>
        /\ \A s \in Slot : slot[s].step \in {"free", "late"}
    BY DEF EndAttempt, Holds
  <1>2. slot' \in [Slot -> Calls] /\ CallsDwindle
    BY <1>1, SameCalls
  <1>3. CASE Fails
    BY <1>1, <1>2, <1>3, FreshRun DEF Fails, Phases, Active, SdkRunInv, TypeOK
  <1>4. CASE ~Fails
    <2>1. /\ ~Overage /\ used' = [used EXCEPT !["search"] = @ + hosted] /\ hosted' = 0
          /\ UNCHANGED <<invoked, made>>
          /\ \/ phase' = "ok" /\ disabled' = {} /\ UNCHANGED done
             \/ /\ ~UnsafeRetry(invoked, FALSE) /\ phase' = "ready" /\ Retried("correction")
                /\ disabled' = TakenForRetry(invoked, {"completed", "reused"}, FALSE)
             \/ /\ disabled' = Tool /\ phase' = "ready" /\ Retried("repair")
      BY <1>4 DEF EndAttempt, TakenForRepair
    <2>2. /\ done' \in [Retries -> Nat] /\ done'["schema"] = done["schema"]
          /\ done'["rate"] = done["rate"]
          /\ disabled' \subseteq Tool
      <3>1. done' = done \/ Retried("correction") \/ Retried("repair")
        BY <2>1
      <3>2. done \in [Retries -> Nat] /\ disabled \subseteq Tool
        BY DEF SdkRunInv, TypeOK
      <3>3. disabled' \subseteq Tool
        BY <2>1, <3>2 DEF TakenForRetry, Tool
      <3> QED
        BY <3>1, <3>2, <3>3 DEF Retried, Retries
    <2>3. /\ used \in [Tool -> Nat] /\ made \in [Tool -> Nat] /\ hosted \in Nat
          /\ used' \in [Tool -> Nat]
          /\ used'["search"] = used["search"] + hosted
          /\ used'["read"] = used["read"] /\ used'["write"] = used["write"]
      <3>1. used \in [Tool -> Nat] /\ made \in [Tool -> Nat] /\ hosted \in Nat
        BY DEF SdkRunInv, TypeOK
      <3> QED
        BY <2>1, <3>1 DEF Tool
    <2>4. TypeOK'
      BY <1>1, <1>2, <2>1, <2>2, <2>3 DEF SdkRunInv, TypeOK, Phases
    <2>5. LedgerInv'
      <3>1. used["search"] + hosted <= SearchLimit /\ All(used) + hosted <= Total
        BY <2>1, <2>3, SdkRunAssumption DEF Overage, All, Tool
      <3>2. All(used') = All(used) + hosted
        BY <2>3 DEF All, Tool
      <3>3. LedgerInv
        BY DEF SdkRunInv
      <3> QED
        BY <2>1, <2>2, <2>3, <3>1, <3>2, <3>3 DEF LedgerInv, Tool
    <2>6. RepairInv'
      <3>1. CASE phase' = "ok"
        BY <3>1 DEF RepairInv, Active
      <3>2. CASE disabled' = Tool
        BY <3>2 DEF RepairInv
      <3>3. CASE Retried("correction") /\ disabled' = TakenForRetry(invoked, {"completed", "reused"}, FALSE)
        <4>1. done'["repair"] = done["repair"] /\ disabled \subseteq disabled'
          BY <3>3 DEF SdkRunInv, TypeOK, Retried, Retries, TakenForRetry
        <4> QED
          BY <1>1, <2>2, <4>1 DEF SdkRunInv, RepairInv, Active
      <3> QED
        BY <2>1, <3>1, <3>2, <3>3
    <2>7. ~durable /\ phase' # "ok" /\ "write" \notin disabled' =>
            Present = {} /\ \A s \in Slot : ~Live(s)
      <3>1. \A s \in Slot : ~(Holds(s, "writing") \/ Holds(s, "written"))
        BY <1>1 DEF Holds
      <3> QED
        BY <1>1, <2>1, <3>1, RetryFollowsNoWrite DEF Tool
    <2> QED
      BY <1>1, <1>2, <2>1, <2>4, <2>5, <2>6, <2>7, RetryKeepsInv
  <1> QED
    BY <1>3, <1>4

LEMMA FailAttemptKeepsInv ==
  ASSUME SdkRunInv, FailAttempt
  PROVE  SdkRunInv'
  <1>1. /\ phase = "model" /\ slot' = GivenUp
        /\ UNCHANGED <<durable, rows, cache, writes, runs>>
    BY DEF FailAttempt
  <1>2. /\ slot' \in [Slot -> Calls] /\ CallsDwindle
        /\ \A s \in Slot : slot'[s].step \in {"free", "late"}
    BY <1>1, GivingUp DEF SdkRunInv
  <1>3. CASE Fails
    BY <1>1, <1>2, <1>3, FreshRun DEF Fails, Phases, Active, SdkRunInv, TypeOK
  <1>4. CASE ~Fails
    <2>1. /\ invoked' = GivenUpCalls /\ hosted' = 0 /\ UNCHANGED <<used, made>>
          /\ \E c \in BOOLEAN :
               /\ ~UnsafeRetry(GivenUpCalls, c)
               /\ disabled' = TakenForRetry(GivenUpCalls, {"completed"}, c)
          /\ \/ phase' = "ready" /\ Retried("schema")
             \/ phase' = "waiting" /\ Retried("rate")
      BY <1>4 DEF FailAttempt
    <2>2. /\ done' \in [Retries -> Nat] /\ done'["repair"] = done["repair"]
          /\ done'["schema"] > 0 \/ done'["rate"] > 0
      BY <2>1 DEF SdkRunInv, TypeOK, Retried, Retries
    <2>3. /\ disabled \subseteq disabled' /\ disabled' \subseteq Tool
          /\ GivenUpCalls \subseteq Tool \X {"completed", "reused", "open"}
      <3>1. disabled \subseteq Tool /\ invoked \subseteq Tool \X {"completed", "reused", "open"}
        BY DEF SdkRunInv, TypeOK
      <3>2. /\ <<"read", "open">> \in Tool \X {"completed", "reused", "open"}
            /\ <<"write", "open">> \in Tool \X {"completed", "reused", "open"}
        BY DEF Tool
      <3>3. GivenUpCalls \subseteq Tool \X {"completed", "reused", "open"}
        BY <3>1, <3>2 DEF GivenUpCalls
      <3>4. disabled \subseteq disabled' /\ disabled' \subseteq Tool
        BY <2>1, <3>1 DEF TakenForRetry, Tool
      <3> QED
        BY <3>3, <3>4
    <2>4. TypeOK'
      BY <1>1, <1>2, <2>1, <2>2, <2>3 DEF SdkRunInv, TypeOK, Phases
    <2>5. LedgerInv'
      BY <2>1, <2>2 DEF SdkRunInv, TypeOK, LedgerInv, Retries
    <2>6. RepairInv'
      BY <1>1, <2>2, <2>3 DEF SdkRunInv, RepairInv, Active
    <2>7. ~durable /\ "write" \notin disabled' => Present = {} /\ \A s \in Slot : ~Live(s)
      <3>1. invoked \ {<<"read", "reused">>} \subseteq GivenUpCalls
        BY DEF GivenUpCalls
      <3>2. \A s \in Slot : Holds(s, "writing") \/ Holds(s, "written")
              => <<"write", "open">> \in GivenUpCalls
        BY DEF GivenUpCalls, Holds
      <3> QED
        BY <1>1, <2>1, <3>1, <3>2, RetryFollowsNoWrite
    <2> QED
      BY <1>1, <1>2, <2>1, <2>4, <2>5, <2>6, <2>7, RetryKeepsInv
  <1> QED
    BY <1>3, <1>4

-----------------------------------------------------------------------------
(* Reads.                                                                  *)

\* An admitted call leaves the ledger within the contract.
LEMMA Admission ==
  ASSUME SdkRunInv, NEW t \in {"read", "write"}, Admitted(t), Counted(t),
         UNCHANGED made \/ Reaches(t), UNCHANGED <<hosted, phase, done>>
  PROVE  LedgerInv' /\ used' \in [Tool -> Nat] /\ made' \in [Tool -> Nat]
  <1>1. used \in [Tool -> Nat] /\ made \in [Tool -> Nat] /\ LedgerInv
    BY DEF SdkRunInv, TypeOK
  <1>2. used' = [used EXCEPT ![t] = @ + 1] /\ (made' = made \/ made' = [made EXCEPT ![t] = @ + 1])
    BY DEF Counted, Reaches
  <1>3. used' \in [Tool -> Nat] /\ made' \in [Tool -> Nat]
    BY <1>1, <1>2 DEF Tool
  <1>4. used[t] + 1 <= Limit[t] /\ All(used) + 1 <= Total
    BY <1>1, SdkRunAssumption DEF Admitted, Limit, Tool, All
  <1>5. Limit["read"] = ReadLimit /\ Limit["write"] = WriteLimit
    BY DEF Limit, Tool
  <1>6. CASE t = "read"
    BY <1>1, <1>2, <1>4, <1>5, <1>6, SdkRunAssumption DEF LedgerInv, All, Tool
  <1>7. CASE t = "write"
    BY <1>1, <1>2, <1>4, <1>5, <1>7, SdkRunAssumption DEF LedgerInv, All, Tool
  <1> QED
    BY <1>3, <1>6, <1>7

\* What the journal calls verified has been written.
LEMMA VerifiedIsPresent ==
  ASSUME SdkRunInv, NEW w \in Op, rows[w] = "verified"
  PROVE  w \in Present
  BY DEF SdkRunInv, DurableInv, Present

LEMMA InvokeReadKeepsInv ==
  ASSUME SdkRunInv, NEW s \in Slot, InvokeRead(s)
  PROVE  SdkRunInv'
  <1>1. /\ phase = "model" /\ slot[s].step = "free"
        /\ UNCHANGED <<durable, rows, cache, writes, phase, done, disabled, hosted, runs>>
    BY DEF InvokeRead, CanCall, Holds, Blocked
  <1>2. TypeOK
    BY DEF SdkRunInv
  <1>3. CASE Blocked("read")
    <2>1. UNCHANGED <<rows, slot, used, made, invoked>>
      BY <1>3 DEF Blocked, Recorded
    <2>2. DurableInv' /\ AttemptInv'
      BY <1>1, <2>1, WritersAlone
    <2>3. ReadInv'
      BY <1>1, <2>1 DEF SdkRunInv, ReadInv, Present, Holds
    <2>4. TypeOK' /\ CallsInv' /\ RepairInv' /\ LedgerInv'
      BY <1>1, <2>1 DEF SdkRunInv, TypeOK, CallsInv, RepairInv, LedgerInv, Tool, Live
    <2> QED
      BY <2>2, <2>3, <2>4 DEF SdkRunInv
  <1>4. CASE Admitted("read") /\ Counted("read") /\ ~Blocked("read")
    <2>1. PICK c \in Calls :
            /\ Becomes(s, c) /\ c.key = rows
            /\ \/ /\ c.step = "answer" /\ UNCHANGED made
                  /\ invoked' = invoked \cup {<<"read", "reused">>}
                  /\ \E h \in cache : h.key = rows /\ h.value = c.value
               \/ c.step = "reading" /\ Reaches("read") /\ UNCHANGED invoked
      <3> DEFINE call == [Free EXCEPT !.key = rows]
                 hits == {c \in cache : c.key = rows}
      <3>1. call \in Calls /\ call.key = rows
        BY <1>2 DEF TypeOK, Free, Calls, Status
      <3>2. CASE /\ Becomes(s, [call EXCEPT !.step = "reading"])
                 /\ Reaches("read") /\ UNCHANGED invoked
        <4> DEFINE c == [call EXCEPT !.step = "reading"]
        <4>1. c \in Calls /\ c.key = rows /\ c.step = "reading"
          BY <3>1 DEF Calls
        <4> HIDE DEF c
        <4> QED
          BY <3>2, <4>1 DEF c
      <3>3. ASSUME NEW h \in hits,
                   Becomes(s, [call EXCEPT !.step = "answer", !.value = h.value]),
                   Recorded("read", "reused"), UNCHANGED made
            PROVE  \E c \in Calls : /\ Becomes(s, c) /\ c.key = rows /\ c.step = "answer"
                                    /\ UNCHANGED made
                                    /\ invoked' = invoked \cup {<<"read", "reused">>}
                                    /\ h.key = rows /\ h.value = c.value
        <4> DEFINE c == [call EXCEPT !.step = "answer", !.value = h.value]
        <4>1. h.value \in SUBSET Op /\ h.key = rows
          BY <1>2 DEF TypeOK
        <4>2. c \in Calls /\ c.key = rows /\ c.step = "answer" /\ c.value = h.value
          BY <3>1, <4>1 DEF Calls
        <4>3. invoked' = invoked \cup {<<"read", "reused">>}
          BY <3>3, <<"read", "reused">> # <<"read", "open">> DEF Recorded
        <4> HIDE DEF c
        <4> QED
          BY <3>3, <4>1, <4>2, <4>3 DEF c
      <3> QED
        BY <1>4, <3>2, <3>3 DEF InvokeRead
    <2>2. /\ slot' \in [Slot -> Calls] /\ slot'[s] = c
          /\ \A x \in Slot \ {s} : slot'[x] = slot[x]
      BY <1>2, <2>1, OneCall
    <2>3. \A x \in Slot : Live(x) \/ Live(x)' => slot'[x] = slot[x]
      BY <1>1, <2>1, <2>2 DEF Live
    <2>4. /\ DurableInv' /\ AttemptInv' /\ \A x \in Slot : Live(x)' => slot'[x].op \in Op
      BY <1>1, <2>1, <2>3, WritersAlone
    <2>5. LedgerInv' /\ used' \in [Tool -> Nat] /\ made' \in [Tool -> Nat]
      BY <1>1, <1>4, <2>1, Admission
    <2>6. TypeOK' /\ CallsInv' /\ RepairInv'
      <3>1. invoked' \in SUBSET (Tool \X {"completed", "reused", "open"})
        BY <1>2, <2>1 DEF TypeOK, Tool
      <3>2. TypeOK'
        BY <1>1, <1>2, <2>2, <2>5, <3>1 DEF TypeOK
      <3>3. CallsInv'
        BY <1>1, <2>1, <2>2, <2>4 DEF SdkRunInv, CallsInv
      <3>4. RepairInv'
        BY <1>1, <2>1 DEF SdkRunInv, RepairInv, Active
      <3> QED
        BY <3>2, <3>3, <3>4
    <2>7. ReadInv'
      <3>1. \A w \in Op : c.key[w] = "verified" => w \in Present
        BY <2>1, VerifiedIsPresent
      <3>2. \A w \in Op : c.step = "answer" /\ c.key[w] = "verified" => w \in c.value
        BY <2>1 DEF SdkRunInv, ReadInv
      <3>3. Present' = Present
        BY <1>1 DEF Present
      <3>4. ReadInv
        BY DEF SdkRunInv
      <3>5. \A x \in Slot \ {s} : /\ Holds(x, "reading")' <=> Holds(x, "reading")
                                  /\ Holds(x, "read")' <=> Holds(x, "read")
                                  /\ Holds(x, "answer")' <=> Holds(x, "answer")
        BY <2>2 DEF Holds
      <3>6. ~Holds(s, "read")' /\ (Holds(s, "answer")' => c.step = "answer")
        BY <2>1, <2>2 DEF Holds
      <3> QED
        BY <1>1, <2>2, <3>1, <3>2, <3>3, <3>4, <3>5, <3>6 DEF ReadInv
    <2> QED
      BY <2>4, <2>5, <2>6, <2>7 DEF SdkRunInv
  <1> QED
    BY <1>3, <1>4 DEF InvokeRead

LEMMA AnswerReadKeepsInv ==
  ASSUME SdkRunInv, NEW s \in Slot, AnswerRead(s)
  PROVE  SdkRunInv'
  <1>1. /\ slot[s].step = "reading" /\ phase = "model" /\ TypeOK
        /\ UNCHANGED <<durable, rows, cache, writes, phase, runs>> /\ UNCHANGED run
    BY DEF AnswerRead, Holds, SdkRunInv, CallsInv
  <1>2. PICK c \in Calls : /\ Becomes(s, c) /\ c.step = "read" /\ c.key = slot[s].key
                           /\ c.value = Present
    <2> DEFINE c == [slot[s] EXCEPT !.step = "read", !.value = Present]
    <2>1. slot[s] \in Calls /\ Present \in SUBSET Op
      BY <1>1 DEF TypeOK, Present
    <2>2. c \in Calls /\ c.step = "read" /\ c.key = slot[s].key /\ c.value = Present
      BY <2>1 DEF Calls
    <2> HIDE DEF c
    <2> QED
      BY <2>2 DEF AnswerRead, c
  <1>3. /\ slot' \in [Slot -> Calls] /\ slot'[s] = c
        /\ \A x \in Slot \ {s} : slot'[x] = slot[x]
    BY <1>1, <1>2, OneCall
  <1>4. \A x \in Slot : Live(x) \/ Live(x)' => slot'[x] = slot[x]
    BY <1>1, <1>2, <1>3 DEF Live
  <1>5. /\ DurableInv' /\ AttemptInv' /\ \A x \in Slot : Live(x)' => slot'[x].op \in Op
    BY <1>1, <1>4, WritersAlone DEF run
  <1>6. TypeOK' /\ CallsInv' /\ RepairInv' /\ LedgerInv'
    BY <1>1, <1>3, <1>5 DEF SdkRunInv, TypeOK, CallsInv, RepairInv, LedgerInv, run
  <1>7. ReadInv'
    BY <1>1, <1>2, <1>3 DEF SdkRunInv, ReadInv, Holds, Present
  <1> QED
    BY <1>5, <1>6, <1>7 DEF SdkRunInv

LEMMA ReturnReadKeepsInv ==
  ASSUME SdkRunInv, NEW s \in Slot, ReturnRead(s)
  PROVE  SdkRunInv'
  <1>1. /\ slot[s].step = "read" /\ phase = "model" /\ TypeOK
        /\ UNCHANGED <<durable, rows, writes, phase, done, used, disabled, hosted, made, runs>>
    BY DEF ReturnRead, Holds, SdkRunInv, CallsInv
  <1>2. slot[s] \in Calls
    BY <1>1 DEF TypeOK
  <1>3. PICK c \in Calls :
          /\ Becomes(s, c)
          /\ \/ c.step = "answer" /\ c.key = slot[s].key /\ c.value = slot[s].value
             \/ c.step = "free"
    <2> DEFINE c == [slot[s] EXCEPT !.step = "answer"]
    <2>1. /\ c \in Calls /\ c.step = "answer" /\ c.key = slot[s].key /\ c.value = slot[s].value
      BY <1>2 DEF Calls
    <2>2. Becomes(s, c) \/ Becomes(s, Free)
      BY DEF ReturnRead
    <2> HIDE DEF c
    <2> QED
      BY <2>1, <2>2, FreeCall
  <1>4. /\ invoked \subseteq invoked'
        /\ invoked' \subseteq invoked \cup {<<"read", "completed">>, <<"read", "open">>}
        /\ \/ cache' = cache
           \/ cache' = cache \cup {[key |-> slot[s].key, value |-> slot[s].value]}
    BY DEF ReturnRead, Recorded, SavedRead
  <1>5. /\ slot' \in [Slot -> Calls] /\ slot'[s] = c
        /\ \A x \in Slot \ {s} : slot'[x] = slot[x]
    BY <1>1, <1>3, OneCall
  <1>6. \A x \in Slot : Live(x) \/ Live(x)' => slot'[x] = slot[x]
    BY <1>1, <1>3, <1>5 DEF Live
  <1>7. /\ DurableInv' /\ AttemptInv' /\ \A x \in Slot : Live(x)' => slot'[x].op \in Op
    BY <1>1, <1>4, <1>6, WritersAlone
  <1>8. TypeOK'
    <2>1. cache' \subseteq [key : [Op -> Status], value : SUBSET Op]
      BY <1>1, <1>2, <1>4 DEF TypeOK, Calls
    <2>2. invoked' \subseteq Tool \X {"completed", "reused", "open"}
      BY <1>1, <1>4 DEF TypeOK, Tool
    <2> QED
      BY <1>1, <1>5, <2>1, <2>2 DEF TypeOK
  <1>9. CallsInv' /\ RepairInv' /\ LedgerInv'
    BY <1>1, <1>7 DEF SdkRunInv, CallsInv, RepairInv, LedgerInv
  <1>10. ReadInv'
    <2>1. ReadInv /\ Present' = Present
      BY <1>1 DEF SdkRunInv, Present
    <2>2. \A w \in Op : slot[s].key[w] = "verified" => w \in slot[s].value
      BY <1>1, <2>1 DEF ReadInv, Holds
    <2>3. \A h \in cache', w \in Op : h.key[w] = "verified" => w \in h.value
      BY <1>4, <2>1, <2>2 DEF ReadInv
    <2>4. \A x \in Slot, w \in Op :
            slot'[x].key[w] = "verified" =>
              /\ slot'[x].step = "reading" => w \in Present
              /\ slot'[x].step \in {"read", "answer"} => w \in slot'[x].value
      BY <1>3, <1>5, <2>1, <2>2 DEF ReadInv, Holds
    <2> QED
      BY <2>1, <2>3, <2>4 DEF ReadInv, Holds
  <1> QED
    BY <1>7, <1>8, <1>9, <1>10 DEF SdkRunInv

\* A call that ends without changing anything else.
LEMMA CallEnds ==
  ASSUME SdkRunInv, NEW s \in Slot, slot[s].step \in {"answer", "late"}, Becomes(s, Free),
         UNCHANGED <<durable, rows, cache, writes, phase, run, runs>>
  PROVE  SdkRunInv'
  <1>1. /\ slot' \in [Slot -> Calls] /\ slot'[s] = Free
        /\ \A x \in Slot \ {s} : slot'[x] = slot[x]
    BY OneCall, FreeCall DEF SdkRunInv
  <1>2. CallsDwindle
    BY <1>1, FreeCall DEF CallsDwindle
  <1>3. /\ DurableInv' /\ ReadInv' /\ (~durable => OneAttempt')
        /\ \A x \in Slot : Live(x)' => slot'[x].op \in Op
    BY <1>2, Dwindling
  <1>4. TypeOK' /\ RepairInv' /\ LedgerInv'
    BY <1>1 DEF SdkRunInv, TypeOK, RepairInv, LedgerInv, run
  <1>5. CallsInv'
    BY <1>1, <1>3, FreeCall DEF SdkRunInv, CallsInv
  <1>6. AttemptInv'
    <2>1. \A x \in Slot : /\ Live(x)' => Live(x) /\ slot'[x] = slot[x]
                          /\ Holds(x, "late")' => Holds(x, "late")
                          /\ Holds(x, "written") => Holds(x, "written")'
      BY <1>1, FreeCall DEF Live, Holds
    <2> QED
      BY <1>3, <2>1 DEF SdkRunInv, AttemptInv, run, Present, Attempt
  <1> QED
    BY <1>3, <1>4, <1>5, <1>6 DEF SdkRunInv

LEMMA LookAtAnswerKeepsInv ==
  ASSUME SdkRunInv, NEW s \in Slot, LookAtAnswer(s)
  PROVE  SdkRunInv'
  BY CallEnds DEF LookAtAnswer, Holds

LEMMA ExpireKeepsInv ==
  ASSUME SdkRunInv, NEW s \in Slot, Expire(s)
  PROVE  SdkRunInv'
  BY CallEnds DEF Expire, Holds

-----------------------------------------------------------------------------
(* Writes.                                                                 *)

\* A durable write is issued when no other may still happen, of an operation that has
\* not been written.
LEMMA IssuedAlone ==
  ASSUME SdkRunInv, durable, NEW w \in Op, rows[w] # "verified", Unresolved = {}
  PROVE  writes[w] = <<>> /\ \A x \in Slot : ~Live(x)
  <1>1. \A v \in Op : rows[v] \in {"absent", "no_effect", "verified"}
    BY DEF Unresolved
  <1>2. writes[w] = <<>>
    BY <1>1 DEF SdkRunInv, DurableInv
  <1>3. \A x \in Slot : ~Live(x)
    <2> SUFFICES ASSUME NEW x \in Slot, Live(x) PROVE FALSE
      OBVIOUS
    <2>1. slot[x].op \in Op /\ rows[slot[x].op] \in {"intent", "unknown"}
      BY DEF SdkRunInv, CallsInv, DurableInv
    <2> QED
      BY <1>1, <2>1
  <1> QED
    BY <1>2, <1>3

LEMMA IssueKeepsInv ==
  ASSUME SdkRunInv, NEW s \in Slot, NEW w \in Op, CanCall(s, "write"),
         Admitted("write"), Counted("write"), Issue(s, w),
         ~durable \/ (rows[w] # "verified" /\ Unresolved = {}),
         UNCHANGED <<durable, cache, writes, phase, done, disabled, hosted, runs>>
  PROVE  SdkRunInv'
  <1>1. /\ phase = "model" /\ slot[s].step = "free" /\ "write" \notin disabled /\ TypeOK
        /\ Reaches("write") /\ UNCHANGED invoked
        /\ rows' = IF durable THEN [rows EXCEPT ![w] = "intent"] ELSE rows
    BY DEF CanCall, Holds, Issue, SdkRunInv
  <1>2. PICK c \in Calls : Becomes(s, c) /\ c.step = "writing" /\ c.op = w /\ c.attempt = Attempt
    <2> DEFINE c == [Free EXCEPT !.step = "writing", !.op = w, !.attempt = Attempt]
    <2>1. c \in Calls /\ c.step = "writing" /\ c.op = w /\ c.attempt = Attempt
      BY <1>1, AttemptIsNat, FreeCall DEF Calls
    <2> HIDE DEF c
    <2> QED
      BY <2>1 DEF Issue, c
  <1>3. /\ slot' \in [Slot -> Calls] /\ slot'[s] = c
        /\ \A x \in Slot \ {s} : slot'[x] = slot[x]
    BY <1>1, <1>2, OneCall
  <1>4. LedgerInv' /\ used' \in [Tool -> Nat] /\ made' \in [Tool -> Nat]
    BY <1>1, Admission
  <1>5. TypeOK'
    BY <1>1, <1>3, <1>4 DEF TypeOK, Status
  <1>6. CallsInv' /\ RepairInv'
    BY <1>1, <1>2, <1>3 DEF SdkRunInv, CallsInv, RepairInv, Live
  <1>7. \A x \in Slot : /\ Live(x)' <=> x = s \/ Live(x)
                        /\ Holds(x, "written")' <=> Holds(x, "written")
                        /\ Holds(x, "late")' <=> Holds(x, "late")
    BY <1>1, <1>2, <1>3 DEF Live, Holds
  <1>8. ~Live(s)
    BY <1>1 DEF Live
  <1>9. DurableInv'
    <2>1. CASE durable
      <3>1. writes[w] = <<>> /\ \A x \in Slot : ~Live(x)
        BY <2>1, IssuedAlone
      <3>2. rows \in [Op -> Status] /\ rows' = [rows EXCEPT ![w] = "intent"]
        BY <1>1, <2>1 DEF TypeOK
      <3>3. \A v \in Op : /\ Len(writes'[v]) <= 1
                          /\ rows'[v] \in {"absent", "no_effect"} => writes'[v] = <<>>
                          /\ rows'[v] \in {"observed", "verified"} => writes'[v] # <<>>
        BY <2>1, <3>2 DEF SdkRunInv, DurableInv
      <3>4. ~Holds(s, "written")
        BY <1>1 DEF Holds
      <3> QED
        BY <1>2, <1>3, <1>7, <2>1, <3>1, <3>2, <3>3, <3>4 DEF DurableInv
    <2>2. CASE ~durable
      BY <1>1, <2>2 DEF SdkRunInv, DurableInv
    <2> QED
      BY <2>1, <2>2
  <1>10. ReadInv'
    BY <1>2, <1>3, ReadersAlone DEF Present
  <1>11. AttemptInv'
    <2> SUFFICES ASSUME ~durable PROVE AttemptInv'
      BY DEF AttemptInv
    <2>1. Attempt' = Attempt /\ Present' = Present
      BY DEF Attempt, Present
    <2>2. /\ \A v \in Op : \A i \in DOMAIN writes[v] : writes[v][i] = Attempt
          /\ \A x \in Slot : Live(x) => slot[x].attempt = Attempt
      BY <1>1 DEF SdkRunInv, AttemptInv, Active
    <2>3. \A x \in Slot : Live(x)' => slot'[x].attempt = Attempt
      BY <1>2, <1>3, <1>7, <2>2
    <2>4. OneAttempt'
      BY <2>2, <2>3 DEF OneAttempt
    <2> QED
      BY <1>1, <1>7, <2>1, <2>2, <2>3, <2>4 DEF SdkRunInv, AttemptInv, Active
  <1> QED
    BY <1>4, <1>5, <1>6, <1>9, <1>10, <1>11 DEF SdkRunInv

LEMMA InvokeWriteKeepsInv ==
  ASSUME SdkRunInv, NEW s \in Slot, NEW w \in Op, InvokeWrite(s, w)
  PROVE  SdkRunInv'
  <1>1. /\ CanCall(s, "write") /\ phase = "model"
        /\ UNCHANGED <<durable, cache, writes, phase, done, disabled, hosted, runs>>
    BY DEF InvokeWrite, CanCall
  <1>2. CASE /\ Admitted("write") /\ Counted("write") /\ Issue(s, w)
             /\ ~durable \/ (rows[w] # "verified" /\ Unresolved = {})
    BY <1>1, <1>2, IssueKeepsInv
  <1>3. CASE /\ UNCHANGED <<rows, slot, made>> /\ invoked' = invoked \cup {<<"write", "open">>}
             /\ UNCHANGED used \/ (Admitted("write") /\ Counted("write"))
    <2>1. DurableInv' /\ AttemptInv'
      BY <1>1, <1>3, WritersAlone
    <2>2. ReadInv'
      BY <1>1, <1>3 DEF SdkRunInv, ReadInv, Present, Holds
    <2>3. LedgerInv' /\ used' \in [Tool -> Nat]
      <3>1. CASE UNCHANGED used
        BY <1>1, <1>3, <3>1 DEF SdkRunInv, TypeOK, LedgerInv
      <3>2. CASE Admitted("write") /\ Counted("write")
        BY <1>1, <1>3, <3>2, Admission
      <3> QED
        BY <1>3, <3>1, <3>2
    <2>4. TypeOK' /\ CallsInv' /\ RepairInv'
      BY <1>1, <1>3, <2>3 DEF SdkRunInv, TypeOK, CallsInv, RepairInv, Tool, Live
    <2> QED
      BY <2>1, <2>2, <2>3, <2>4 DEF SdkRunInv
  <1> QED
    BY <1>2, <1>3 DEF InvokeWrite, Blocked, Recorded

LEMMA WriteKeepsInv ==
  ASSUME SdkRunInv, NEW s \in Slot, Write(s)
  PROVE  SdkRunInv'
  <1> DEFINE w == slot[s].op
  <1>1. /\ Live(s) /\ ~Holds(s, "written") /\ w \in Op /\ TypeOK
        /\ writes' = [writes EXCEPT ![w] = Append(@, slot[s].attempt)]
        /\ UNCHANGED <<durable, rows, cache, phase, runs>> /\ UNCHANGED run
    BY DEF Write, Holds, Live, SdkRunInv, CallsInv
  <1>2. slot[s] \in Calls /\ writes \in [Op -> Seq(Nat)] /\ slot[s].attempt \in Nat
    BY <1>1 DEF TypeOK, Calls
  <1>3. PICK c \in Calls : /\ Becomes(s, c)
                           /\ IF Holds(s, "writing")
                              THEN c.step = "written" /\ c.op = w /\ c.attempt = slot[s].attempt
                              ELSE c.step = "free"
    <2>1. CASE Holds(s, "writing")
      <3> DEFINE c == [slot[s] EXCEPT !.step = "written"]
      <3>1. c \in Calls /\ c.step = "written" /\ c.op = w /\ c.attempt = slot[s].attempt
        BY <1>2 DEF Calls
      <3>2. Becomes(s, c)
        BY <2>1 DEF Write
      <3> HIDE DEF c
      <3> QED
        BY <2>1, <3>1, <3>2
    <2>2. CASE ~Holds(s, "writing")
      BY <2>2, FreeCall DEF Write
    <2> QED
      BY <2>1, <2>2
  <1>4. /\ slot' \in [Slot -> Calls] /\ slot'[s] = c
        /\ \A x \in Slot \ {s} : slot'[x] = slot[x]
    BY <1>1, <1>3, OneCall
  <1> DEFINE written == Append(writes[w], slot[s].attempt)
  <1>5. /\ written \in Seq(Nat) /\ written # <<>> /\ Len(written) = Len(writes[w]) + 1
        /\ \A i \in DOMAIN written : \/ i \in DOMAIN writes[w] /\ written[i] = writes[w][i]
                                     \/ written[i] = slot[s].attempt
    <2> DEFINE before == writes[w]
               a == slot[s].attempt
    <2>1. before \in Seq(Nat) /\ a \in Nat
      BY <1>1, <1>2
    <2> HIDE DEF before, a
    <2>2. /\ Append(before, a) \in Seq(Nat) /\ Append(before, a) # <<>>
          /\ Len(Append(before, a)) = Len(before) + 1
      <3>1. Append(before, a) \in Seq(Nat) /\ Len(Append(before, a)) = Len(before) + 1
        BY <2>1
      <3>2. Len(before) \in Nat
        BY <2>1
      <3>3. Len(Append(before, a)) # Len(<<>>)
        BY <3>1, <3>2
      <3> QED
        BY <3>1, <3>3
    <2>3. \A i \in 1 .. Len(before) + 1 :
            Append(before, a)[i] = IF i \in 1 .. Len(before) THEN before[i] ELSE a
      BY <2>1
    <2>4. DOMAIN before = 1 .. Len(before) /\ DOMAIN Append(before, a) = 1 .. Len(before) + 1
      BY <2>1, <2>2
    <2> QED
      BY <2>2, <2>3, <2>4 DEF before, a
  <1>6. /\ writes'[w] = written
        /\ \A v \in Op \ {w} : writes'[v] = writes[v]
    BY <1>1, <1>2
  <1> HIDE DEF written, w
  <1>7. TypeOK'
    <2>1. writes' \in [Op -> Seq(Nat)]
      BY <1>1, <1>2, <1>5 DEF w, written
    <2> QED
      BY <1>1, <1>4, <2>1 DEF TypeOK, run
  <1>8. CallsInv' /\ RepairInv' /\ LedgerInv'
    BY <1>1, <1>3, <1>4 DEF SdkRunInv, CallsInv, RepairInv, LedgerInv, run, Live, Holds
  <1>9. \A x \in Slot : Live(x)' =>
          /\ Live(x) /\ slot'[x].op = slot[x].op /\ slot'[x].attempt = slot[x].attempt
          /\ x # s => slot'[x] = slot[x]
    BY <1>1, <1>3, <1>4 DEF Live, Holds, w
  <1>10. DurableInv'
    <2>1. CASE durable
      <3>1. /\ writes[w] = <<>> /\ rows[w] \in {"intent", "unknown"}
            /\ \A x \in Slot : Live(x) => x = s
        BY <1>1, <2>1 DEF SdkRunInv, DurableInv, w
      <3>2. Len(written) <= 1
        BY <1>5, <3>1
      <3>3. \A v \in Op : /\ Len(writes'[v]) <= 1
                          /\ rows'[v] \in {"absent", "no_effect"} => writes'[v] = <<>>
                          /\ rows'[v] \in {"observed", "verified"} => writes'[v] # <<>>
        BY <1>1, <1>5, <1>6, <2>1, <3>1, <3>2 DEF SdkRunInv, DurableInv
      <3>4. Live(s)' => /\ Holds(s, "written")' /\ slot'[s].op = w
        BY <1>3, <1>4 DEF Live, Holds
      <3> QED
        BY <1>1, <1>5, <1>6, <1>9, <2>1, <3>1, <3>3, <3>4 DEF DurableInv
    <2>2. CASE ~durable
      BY <1>1, <2>2 DEF SdkRunInv, DurableInv
    <2> QED
      BY <2>1, <2>2
  <1>11. Present \subseteq Present'
    BY <1>5, <1>6 DEF Present
  <1>12. ReadInv'
    BY <1>1, <1>3, <1>4, <1>11, ReadersAlone
  <1>13. AttemptInv'
    <2> SUFFICES ASSUME ~durable PROVE AttemptInv'
      BY <1>1 DEF AttemptInv
    <2>1. OneAttempt
      BY DEF SdkRunInv, AttemptInv
    <2>2. \A v \in Op : \A i \in DOMAIN writes'[v] :
            \/ i \in DOMAIN writes[v] /\ writes'[v][i] = writes[v][i]
            \/ writes'[v][i] = slot[s].attempt
      BY <1>5, <1>6
    <2>3. OneAttempt'
      <3>1. \A v \in Op : \A i \in DOMAIN writes'[v] : writes'[v][i] = slot[s].attempt
        BY <1>1, <2>1, <2>2 DEF OneAttempt
      <3>2. \A x \in Slot : Live(x)' => slot'[x].attempt = slot[s].attempt
        BY <1>1, <1>9, <2>1 DEF OneAttempt
      <3> QED
        BY <3>1, <3>2 DEF OneAttempt
    <2>4. ASSUME phase \in Active, "write" \notin disabled
          PROVE  /\ phase = "model" /\ slot[s].attempt = Attempt
                 /\ \A v \in Op : \A i \in DOMAIN writes'[v] : writes'[v][i] = Attempt
                 /\ \A x \in Slot : Live(x)' => slot'[x].attempt = Attempt
                 /\ \A x \in Slot : Holds(x, "late")' => <<"write", "open">> \in invoked
                 /\ (\E x \in Slot : Holds(x, "written")') \/ <<"write", "open">> \in invoked
      <3>1. phase = "model" /\ slot[s].attempt = Attempt
        BY <1>1, <2>4 DEF SdkRunInv, AttemptInv
      <3>2. /\ \A v \in Op : \A i \in DOMAIN writes[v] : writes[v][i] = Attempt
            /\ \A x \in Slot : Live(x) => slot[x].attempt = Attempt
            /\ \A x \in Slot : Holds(x, "late") => <<"write", "open">> \in invoked
        BY <2>4 DEF SdkRunInv, AttemptInv
      <3>3. \A x \in Slot : Holds(x, "late")' => Holds(x, "late")
        BY <1>3, <1>4 DEF Holds
      <3>4. Holds(s, "late") \/ Holds(s, "written")'
        BY <1>1, <1>3, <1>4 DEF Live, Holds
      <3> QED
        BY <1>9, <2>2, <3>1, <3>2, <3>3, <3>4
    <2>5. Attempt' = Attempt
      BY <1>1 DEF Attempt, run
    <2> QED
      BY <1>1, <2>3, <2>4, <2>5 DEF AttemptInv, run
  <1> QED
    BY <1>7, <1>8, <1>10, <1>12, <1>13 DEF SdkRunInv

\* How a write call ends: what it found, what is left of it and what is recorded.
Ends(s, c, status, how) ==
  \/ Holds(s, "written") /\ c.step = "free" /\ status \in {"verified", "observed", "unknown", "intent"}
  \/ Holds(s, "writing") /\ c.step = "free" /\ status = "no_effect"
  \/ /\ Holds(s, "writing") /\ c.step = "late" /\ c.op = slot[s].op
     /\ c.attempt = slot[s].attempt /\ status \in {"unknown", "intent"} /\ how = "open"

LEMMA ReturnWriteKeepsInv ==
  ASSUME SdkRunInv, NEW s \in Slot, ReturnWrite(s)
  PROVE  SdkRunInv'
  <1> DEFINE w == slot[s].op
  <1>1. /\ Live(s) /\ ~Holds(s, "late") /\ w \in Op /\ TypeOK /\ phase = "model"
        /\ UNCHANGED <<durable, cache, writes, phase, done, used, disabled, hosted, made, runs>>
    BY DEF ReturnWrite, Holds, Live, SdkRunInv, CallsInv
  <1>2. PICK c \in Calls, status \in Status, how \in {"completed", "open"} :
          /\ Becomes(s, c) /\ Ends(s, c, status, how) /\ Recorded("write", how)
          /\ rows' = IF durable THEN [rows EXCEPT ![w] = status] ELSE rows
    <2>1. PICK o \in Outcomes(s) :
            /\ rows' = IF durable THEN [rows EXCEPT ![w] = o[1]] ELSE rows
            /\ Recorded("write", o[2])
            /\ Becomes(s, IF Holds(s, "writing") /\ o[1] # "no_effect"
                          THEN [slot[s] EXCEPT !.step = "late"] ELSE Free)
      BY DEF ReturnWrite
    <2> DEFINE late == [slot[s] EXCEPT !.step = "late"]
    <2>2. /\ late \in Calls /\ late.step = "late" /\ late.op = slot[s].op
          /\ late.attempt = slot[s].attempt
      BY <1>1, CallAt DEF TypeOK, CallSteps
    <2>3. o[1] \in Status /\ o[2] \in {"completed", "open"}
      BY DEF Outcomes, Status
    <2>4. CASE Holds(s, "written")
      <3>1. ~Holds(s, "writing") /\ o[1] \in {"verified", "observed", "unknown", "intent"}
        BY <2>4 DEF Outcomes, Holds
      <3> QED
        BY <2>1, <2>3, <2>4, <3>1, FreeCall DEF Ends
    <2>5. CASE Holds(s, "writing") /\ o[1] = "no_effect"
      BY <2>1, <2>3, <2>5, FreeCall DEF Ends
    <2>6. CASE Holds(s, "writing") /\ o[1] # "no_effect"
      <3>1. o[1] \in {"unknown", "intent"} /\ o[2] = "open"
        BY <2>6 DEF Outcomes, Holds
      <3>2. Becomes(s, late)
        BY <2>1, <2>6
      <3> HIDE DEF late
      <3> QED
        BY <2>1, <2>2, <2>3, <2>6, <3>1, <3>2 DEF Ends
    <2> QED
      BY <1>1, <2>4, <2>5, <2>6 DEF Live, Holds
  <1> HIDE DEF w
  <1>3. /\ slot' \in [Slot -> Calls] /\ slot'[s] = c
        /\ \A x \in Slot \ {s} : slot'[x] = slot[x]
    BY <1>1, <1>2, OneCall
  <1>4. TypeOK'
    <2>1. rows' \in [Op -> Status]
      BY <1>1, <1>2 DEF TypeOK
    <2>2. invoked' \subseteq Tool \X {"completed", "reused", "open"}
      BY <1>1, <1>2 DEF TypeOK, Recorded, Tool
    <2> QED
      BY <1>1, <1>3, <2>1, <2>2 DEF TypeOK
  <1>5. \A x \in Slot : Live(x)' =>
          /\ Live(x) /\ slot'[x].op = slot[x].op /\ slot'[x].attempt = slot[x].attempt
          /\ x # s => slot'[x] = slot[x]
    BY <1>1, <1>2, <1>3 DEF Live, Ends
  <1>6. CallsInv' /\ RepairInv' /\ LedgerInv'
    BY <1>1, <1>5 DEF SdkRunInv, CallsInv, RepairInv, LedgerInv
  <1>7. DurableInv'
    <2>1. CASE durable
      <3>1. \A x \in Slot : Live(x) => x = s
        BY <1>1, <2>1 DEF SdkRunInv, DurableInv
      <3>2. /\ Holds(s, "written") => writes[w] # <<>>
            /\ Holds(s, "writing") => writes[w] = <<>>
        BY <1>1, <2>1 DEF SdkRunInv, DurableInv, Holds, w
      <3>3. /\ rows'[w] = status
            /\ \A v \in Op \ {w} : rows'[v] = rows[v]
        BY <1>1, <1>2, <2>1 DEF TypeOK
      <3>4. /\ status \in {"absent", "no_effect"} => writes[w] = <<>>
            /\ status \in {"observed", "verified"} => writes[w] # <<>>
        BY <1>2, <3>2 DEF Ends
      <3>5. \A v \in Op : /\ Len(writes'[v]) <= 1
                          /\ rows'[v] \in {"absent", "no_effect"} => writes'[v] = <<>>
                          /\ rows'[v] \in {"observed", "verified"} => writes'[v] # <<>>
        BY <1>1, <2>1, <3>3, <3>4 DEF SdkRunInv, DurableInv
      <3>6. Live(s)' => /\ ~Holds(s, "written")' /\ slot'[s].op = w /\ writes[w] = <<>>
                        /\ rows'[w] \in {"intent", "unknown"}
        BY <1>2, <1>3, <3>2, <3>3 DEF Live, Holds, Ends, w
      <3> QED
        BY <1>1, <1>5, <2>1, <3>1, <3>5, <3>6 DEF DurableInv
    <2>2. CASE ~durable
      BY <1>1, <1>2, <2>2 DEF SdkRunInv, DurableInv
    <2> QED
      BY <2>1, <2>2
  <1>8. ReadInv'
    <2>1. Present' = Present
      BY <1>1 DEF Present
    <2>2. \A x \in Slot : slot'[x].step \in {"reading", "read", "answer"} => slot'[x] = slot[x]
      BY <1>2, <1>3 DEF Ends
    <2> QED
      BY <1>1, <2>1, <2>2, ReadersAlone
  <1>9. AttemptInv'
    <2> SUFFICES ASSUME ~durable PROVE AttemptInv'
      BY <1>1 DEF AttemptInv
    <2>1. OneAttempt'
      BY <1>1, <1>5 DEF SdkRunInv, AttemptInv, OneAttempt
    <2>2. Attempt' = Attempt /\ Present' = Present
      BY <1>1 DEF Attempt, Present
    <2>3. invoked \subseteq invoked' /\ <<"write", how>> \in invoked'
      BY <1>2 DEF Recorded
    <2>4. \A x \in Slot : Holds(x, "late")' =>
            Holds(x, "late") \/ <<"write", "open">> \in invoked'
      BY <1>2, <1>3, <2>3 DEF Holds, Ends
    <2>5. \A x \in Slot : Holds(x, "written") => x = s \/ Holds(x, "written")'
      BY <1>3 DEF Holds
    <2>6. ASSUME phase \in Active, "write" \notin disabled
          PROVE  /\ \A v \in Op : \A i \in DOMAIN writes[v] : writes[v][i] = Attempt
                 /\ \A x \in Slot : Live(x)' => slot'[x].attempt = Attempt
                 /\ \A x \in Slot : Holds(x, "late")' => <<"write", "open">> \in invoked'
                 /\ Present # {} => \/ \E x \in Slot : Holds(x, "written")'
                                    \/ <<"write", "open">> \in invoked'
                                    \/ <<"write", "completed">> \in invoked'
      BY <1>2, <1>5, <2>3, <2>4, <2>5, <2>6 DEF SdkRunInv, AttemptInv
    <2> QED
      BY <1>1, <2>1, <2>2, <2>6 DEF AttemptInv
  <1> QED
    BY <1>4, <1>6, <1>7, <1>8, <1>9 DEF SdkRunInv

LEMMA ReconcileKeepsInv ==
  ASSUME SdkRunInv, NEW w \in Op, Reconcile(w)
  PROVE  SdkRunInv'
  <1>1. /\ durable /\ rows[w] = "observed" /\ rows' = [rows EXCEPT ![w] = "verified"] /\ TypeOK
        /\ UNCHANGED <<durable, cache, writes, slot, phase, runs>> /\ UNCHANGED run
    BY DEF Reconcile, SdkRunInv
  <1>2. /\ rows' \in [Op -> Status] /\ rows'[w] = "verified"
        /\ \A v \in Op \ {w} : rows'[v] = rows[v]
    BY <1>1 DEF TypeOK, Status
  <1>3. TypeOK' /\ CallsInv' /\ RepairInv' /\ LedgerInv'
    BY <1>1, <1>2 DEF SdkRunInv, TypeOK, CallsInv, RepairInv, LedgerInv, run, Live
  <1>4. DurableInv'
    <2>1. \A v \in Op : /\ Len(writes'[v]) <= 1
                        /\ rows'[v] \in {"absent", "no_effect"} => writes'[v] = <<>>
                        /\ rows'[v] \in {"observed", "verified"} => writes'[v] # <<>>
      BY <1>1, <1>2 DEF SdkRunInv, DurableInv
    <2>2. \A x \in Slot : Live(x) => slot[x].op \in Op \ {w}
      BY <1>1 DEF SdkRunInv, CallsInv, DurableInv
    <2>3. \A x \in Slot : /\ Live(x)' <=> Live(x)
                          /\ Holds(x, "written")' <=> Holds(x, "written")
      BY <1>1 DEF Live, Holds
    <2> QED
      BY <1>1, <1>2, <2>1, <2>2, <2>3 DEF SdkRunInv, DurableInv
  <1>5. ReadInv'
    BY <1>1 DEF SdkRunInv, ReadInv, Present, Holds
  <1>6. AttemptInv'
    BY <1>1 DEF AttemptInv
  <1> QED
    BY <1>3, <1>4, <1>5, <1>6 DEF SdkRunInv

-----------------------------------------------------------------------------

\* The invariant holds before anything was called.
LEMMA InitInv == Init => SdkRunInv
  <1> SUFFICES ASSUME Init PROVE SdkRunInv
    OBVIOUS
  <1>1. TypeOK
    BY FreeCall DEF Init, TypeOK, Status, Phases, Zero, Tool
  <1>2. /\ \A s \in Slot : slot[s] = Free /\ ~Live(s)
        /\ \A w \in Op : writes[w] = <<>> /\ rows[w] = "absent"
    BY FreeCall DEF Init, Live
  <1>3. CallsInv /\ RepairInv
    BY <1>2, FreeCall DEF Init, CallsInv, RepairInv, Retries
  <1>4. LedgerInv
    BY SdkRunAssumption DEF Init, LedgerInv, Zero, Tool, All
  <1>5. DurableInv
    <2>1. Len(<<>>) = 0
      OBVIOUS
    <2> QED
      BY <1>2, <2>1 DEF DurableInv
  <1>6. ReadInv
    BY <1>2, FreeCall DEF Init, ReadInv, Holds
  <1>7. AttemptInv
    <2>1. Present = {} /\ \A w \in Op : DOMAIN writes[w] = {}
      BY <1>2 DEF Present
    <2> QED
      BY <1>2, <2>1, FreeCall DEF AttemptInv, OneAttempt, Holds
  <1> QED
    BY <1>1, <1>3, <1>4, <1>5, <1>6, <1>7 DEF SdkRunInv

\* Every step of the run, of a call and of the provider, and stuttering, keeps it.
LEMMA StepKeepsInv == SdkRunInv /\ [Next]_vars => SdkRunInv'
  <1> SUFFICES ASSUME SdkRunInv, [Next]_vars PROVE SdkRunInv'
    OBVIOUS
  <1>1. CASE StartAttempt \/ EndAttempt \/ FailAttempt \/ Waited \/ HostedCall \/ Crash \/ Resume
    BY <1>1, StartAttemptKeepsInv, EndAttemptKeepsInv, FailAttemptKeepsInv, WaitedKeepsInv,
       HostedCallKeepsInv, CrashKeepsInv, ResumeKeepsInv
  <1>2. CASE \E w \in Op : Reconcile(w)
    BY <1>2, ReconcileKeepsInv
  <1>3. ASSUME NEW s \in Slot,
               \/ InvokeRead(s) \/ AnswerRead(s) \/ ReturnRead(s) \/ LookAtAnswer(s)
               \/ \E w \in Op : InvokeWrite(s, w)
               \/ Write(s) \/ Expire(s) \/ ReturnWrite(s)
        PROVE  SdkRunInv'
    BY <1>3, InvokeReadKeepsInv, AnswerReadKeepsInv, ReturnReadKeepsInv, LookAtAnswerKeepsInv,
       InvokeWriteKeepsInv, WriteKeepsInv, ExpireKeepsInv, ReturnWriteKeepsInv
  <1>4. CASE UNCHANGED vars
    <2>1. UNCHANGED <<durable, rows, cache, writes, slot, phase, done, used, invoked, disabled,
                      hosted, made, runs>>
      BY <1>4 DEF vars
    <2>2. /\ DurableInv' /\ ReadInv' /\ AttemptInv'
      BY <2>1, SameCalls, Dwindling, WritersAlone
    <2>3. TypeOK' /\ CallsInv' /\ RepairInv' /\ LedgerInv'
      BY <2>1 DEF SdkRunInv, TypeOK, CallsInv, RepairInv, LedgerInv, Live
    <2> QED
      BY <2>2, <2>3 DEF SdkRunInv
  <1> QED
    BY <1>1, <1>2, <1>3, <1>4 DEF Next

-----------------------------------------------------------------------------
(* A durable run implements the effect ledger.                             *)

\* What the ledger sees of the journal and the provider.
Outcome == [o \in Journalled |-> OutcomeOf(rows[o[2]])]
Effect  == [o \in Journalled |-> durable /\ writes[o[2]] # <<>>]
Count   == [o \in Journalled |-> IF durable THEN Len(writes[o[2]]) ELSE 0]

LEMMA LedgerStays ==
  ASSUME UNCHANGED <<durable, rows, writes>>
  PROVE  UNCHANGED Ledger!vars
  BY DEF Ledger!vars

\* One row changes: one outcome does, and nothing else that the ledger sees.
LEMMA RowChange ==
  ASSUME TypeOK, NEW w \in Op, NEW v \in Status,
         rows' = [rows EXCEPT ![w] = v], UNCHANGED <<durable, writes>>
  PROVE  /\ <<"run", w>> \in Journalled /\ Outcome[<<"run", w>>] = OutcomeOf(rows[w])
         /\ Outcome' = [Outcome EXCEPT ![<<"run", w>>] = OutcomeOf(v)]
         /\ UNCHANGED <<Effect, Count>>
  <1>1. <<"run", w>> \in Journalled /\ Outcome[<<"run", w>>] = OutcomeOf(rows[w])
    BY DEF Journalled, Outcome
  <1>2. \A o \in Journalled :
          OutcomeOf(rows'[o[2]]) = IF o = <<"run", w>> THEN OutcomeOf(v) ELSE Outcome[o]
    <2> TAKE o \in Journalled
    <2>1. o[2] \in Op /\ (o = <<"run", w>> <=> o[2] = w)
      BY DEF Journalled
    <2>2. rows'[o[2]] = IF o[2] = w THEN v ELSE rows[o[2]]
      BY <2>1 DEF TypeOK
    <2> QED
      BY <2>1, <2>2 DEF Outcome
  <1>3. Outcome' = [Outcome EXCEPT ![<<"run", w>>] = OutcomeOf(v)]
    BY <1>1, <1>2 DEF Outcome
  <1> QED
    BY <1>1, <1>3 DEF Effect, Count

\* A write is issued: its intent is an issue, and no other write is in doubt.
LEMMA InvokeWriteRefines ==
  ASSUME SdkRunInv, NEW s \in Slot, NEW w \in Op, InvokeWrite(s, w)
  PROVE  Ledger!Next \/ UNCHANGED Ledger!vars
  <1> DEFINE o == <<"run", w>>
  <1>1. UNCHANGED <<durable, writes>>
    BY DEF InvokeWrite
  <1>2. CASE UNCHANGED rows
    BY <1>1, <1>2, LedgerStays
  <1>3. CASE rows' # rows
    <2>1. /\ rows' = [rows EXCEPT ![w] = "intent"]
          /\ rows[w] # "verified" /\ Unresolved = {}
      BY <1>3 DEF InvokeWrite, Blocked, Issue
    <2>2. TypeOK
      BY DEF SdkRunInv
    <2>3. /\ o \in Journalled /\ Outcome[o] = OutcomeOf(rows[w])
          /\ Outcome' = [Outcome EXCEPT ![o] = OutcomeOf("intent")]
          /\ UNCHANGED <<Effect, Count>>
      BY <1>1, <2>1, <2>2, RowChange DEF Status
    <2>4. \A v \in Op : rows[v] \in {"absent", "no_effect", "verified"}
      BY <2>1 DEF Unresolved
    <2>5. \A p \in Journalled : Outcome[p] \in {"open", "verified"}
      BY <2>4 DEF Journalled, Outcome, OutcomeOf
    <2>6. Outcome[o] = "open" /\ OutcomeOf("intent") = "uncertain"
      BY <2>1, <2>3, <2>4 DEF OutcomeOf
    <2>7. Ledger!Issue(o)
      BY <2>3, <2>5, <2>6 DEF Ledger!Issue, Ledger!Mutation, Outcome, Effect, Count, Journalled
    <2> QED
      BY <2>3, <2>7 DEF Ledger!Next, Ledger!Mutation, Journalled
  <1> QED
    BY <1>2, <1>3

\* A write happens, in time or after its call was given up: its effect was not there.
LEMMA WriteRefines ==
  ASSUME SdkRunInv, NEW s \in Slot, Write(s)
  PROVE  Ledger!Next \/ UNCHANGED Ledger!vars
  <1>0. PICK w \in Op : w = slot[s].op
    BY DEF Write, Holds, SdkRunInv, CallsInv, Live
  <1> DEFINE o == <<"run", w>>
  <1>1. /\ UNCHANGED <<durable, rows>>
        /\ writes' = [writes EXCEPT ![w] = Append(@, slot[s].attempt)]
        /\ slot[s].step \in {"writing", "late"}
    BY <1>0 DEF Write, Holds
  <1>2. slot[s].attempt \in Nat /\ writes \in [Op -> Seq(Nat)]
    BY DEF SdkRunInv, TypeOK, Calls
  <1>3. CASE ~durable
    BY <1>1, <1>3 DEF Ledger!vars
  <1>4. CASE durable
    <2>1. rows[w] \in {"intent", "unknown"} /\ writes[w] = <<>>
      BY <1>0, <1>1, <1>4 DEF SdkRunInv, DurableInv, Live, Holds
    <2>2. o \in Journalled /\ Outcome[o] = "uncertain" /\ UNCHANGED Outcome
      BY <1>1, <1>2, <2>1 DEF Journalled, Outcome, OutcomeOf
    <2>3. \A v \in Op : writes'[v] = IF v = w THEN <<slot[s].attempt>> ELSE writes[v]
      BY <1>1, <1>2, <2>1
    <2>4. \A p \in Journalled : p[2] \in Op /\ (p = o <=> p[2] = w)
      BY DEF Journalled
    <2>5. Len(<<slot[s].attempt>>) = 1 /\ <<slot[s].attempt>> # <<>> /\ Len(<<>>) = 0
      BY <1>2
    <2>6. /\ ~Effect[o] /\ Effect' = [Effect EXCEPT ![o] = TRUE]
      <3>1. ~Effect[o]
        BY <2>1, <2>2 DEF Effect
      <3>2. \A p \in Journalled : (durable' /\ writes'[p[2]] # <<>>) = IF p = o THEN TRUE ELSE Effect[p]
        BY <1>1, <1>4, <2>3, <2>4, <2>5 DEF Effect
      <3> QED
        BY <3>1, <3>2 DEF Effect
    <2>7. Count' = [Count EXCEPT ![o] = @ + 1]
      <3>1. Count[o] = 0
        BY <1>4, <2>1, <2>2, <2>5 DEF Count
      <3>2. \A p \in Journalled :
              (IF durable' THEN Len(writes'[p[2]]) ELSE 0) = IF p = o THEN 0 + 1 ELSE Count[p]
        <4> TAKE p \in Journalled
        <4>1. CASE p = o
          <5>1. writes'[p[2]] = <<slot[s].attempt>> /\ durable'
            BY <1>1, <1>4, <2>3, <2>4, <4>1
          <5> QED
            BY <2>5, <4>1, <5>1
        <4>2. CASE p # o
          <5>1. writes'[p[2]] = writes[p[2]] /\ durable'
            BY <1>1, <1>4, <2>3, <2>4, <4>2
          <5> QED
            BY <1>4, <4>2, <5>1 DEF Count
        <4> QED
          BY <4>1, <4>2
      <3> QED
        BY <3>1, <3>2 DEF Count
    <2>8. Ledger!Apply(o)
      BY <2>2, <2>6, <2>7 DEF Ledger!Apply, Outcome, Effect, Count, Journalled
    <2> QED
      BY <2>2, <2>8 DEF Ledger!Next, Ledger!Mutation, Journalled
  <1> QED
    BY <1>3, <1>4

\* A call returns: what was written is named or stays in doubt, a preview withdraws.
LEMMA ReturnWriteRefines ==
  ASSUME SdkRunInv, NEW s \in Slot, ReturnWrite(s)
  PROVE  Ledger!Next \/ UNCHANGED Ledger!vars
  <1> DEFINE w == slot[s].op
             o == <<"run", w>>
  <1>1. UNCHANGED <<durable, writes>> /\ slot[s].step \in {"writing", "written"}
    BY DEF ReturnWrite, Holds
  <1>2. w \in Op /\ TypeOK
    BY <1>1 DEF SdkRunInv, CallsInv, Live
  <1>3. CASE ~durable
    BY <1>1, <1>3, LedgerStays DEF ReturnWrite
  <1>4. CASE durable
    <2>1. PICK v \in {"verified", "observed", "unknown", "intent", "no_effect"} :
            /\ rows' = [rows EXCEPT ![w] = v]
            /\ v = "no_effect" => slot[s].step = "writing"
            /\ v \in {"verified", "observed"} => slot[s].step = "written"
      <3>1. PICK x \in Outcomes(s) : rows' = [rows EXCEPT ![w] = x[1]]
        BY <1>4 DEF ReturnWrite
      <3>2. /\ x[1] \in {"verified", "observed", "unknown", "intent", "no_effect"}
            /\ x[1] = "no_effect" => slot[s].step # "written"
            /\ x[1] \in {"verified", "observed"} => slot[s].step = "written"
        BY DEF Outcomes, Holds
      <3> QED
        BY <1>1, <3>1, <3>2
    <2>2. /\ rows[w] \in {"intent", "unknown"}
          /\ slot[s].step = "writing" => writes[w] = <<>>
          /\ slot[s].step = "written" => writes[w] # <<>>
      BY <1>1, <1>4 DEF SdkRunInv, DurableInv, Live, Holds
    <2>3. /\ o \in Journalled /\ Outcome[o] = OutcomeOf(rows[w])
          /\ Outcome' = [Outcome EXCEPT ![o] = OutcomeOf(v)]
          /\ UNCHANGED <<Effect, Count>>
      BY <1>1, <1>2, <2>1, RowChange DEF Status
    <2>4. Outcome[o] = "uncertain"
      BY <2>2, <2>3 DEF OutcomeOf
    <2>5. CASE v \in {"intent", "unknown"}
      <3>0. OutcomeOf(v) = Outcome[o]
        BY <2>4, <2>5 DEF OutcomeOf
      <3>1. Outcome' = Outcome
        BY <2>3, <3>0 DEF Outcome
      <3> QED
        BY <2>3, <3>1 DEF Ledger!vars, Outcome, Effect, Count
    <2>6. CASE v = "no_effect"
      <3>1. ~Effect[o] /\ OutcomeOf(v) = "open"
        BY <2>1, <2>2, <2>3, <2>6 DEF Effect, OutcomeOf
      <3>2. Ledger!Withdraw(o)
        BY <2>3, <2>4, <3>1 DEF Ledger!Withdraw, Outcome, Effect, Count
      <3> QED
        BY <2>3, <3>2 DEF Ledger!Next, Ledger!Mutation, Journalled
    <2>7. CASE v \in {"verified", "observed"}
      <3>1. Effect[o] /\ OutcomeOf(v) \in {"named", "verified"}
        BY <1>4, <2>1, <2>2, <2>3, <2>7 DEF Effect, OutcomeOf
      <3>2. Ledger!Settle(o)
        BY <2>3, <2>4, <3>1 DEF Ledger!Settle, Outcome, Effect, Count
      <3> QED
        BY <2>3, <3>2 DEF Ledger!Next, Ledger!Mutation, Journalled
    <2> QED
      BY <2>1, <2>5, <2>6, <2>7
  <1> QED
    BY <1>3, <1>4

\* A named object that is read back is settled once more.
LEMMA ReconcileRefines ==
  ASSUME SdkRunInv, NEW w \in Op, Reconcile(w)
  PROVE  Ledger!Next \/ UNCHANGED Ledger!vars
  <1> DEFINE o == <<"run", w>>
  <1>1. /\ durable /\ rows[w] = "observed" /\ rows' = [rows EXCEPT ![w] = "verified"]
        /\ UNCHANGED <<durable, writes>> /\ TypeOK
    BY DEF Reconcile, SdkRunInv
  <1>2. /\ o \in Journalled /\ Outcome[o] = OutcomeOf(rows[w])
        /\ Outcome' = [Outcome EXCEPT ![o] = OutcomeOf("verified")]
        /\ UNCHANGED <<Effect, Count>>
    BY <1>1, RowChange DEF Status
  <1>3. Effect[o]
    BY <1>1, <1>2 DEF SdkRunInv, DurableInv, Effect
  <1>4. Outcome[o] = "named" /\ OutcomeOf("verified") = "verified"
    BY <1>1, <1>2 DEF OutcomeOf
  <1>5. Ledger!Settle(o)
    BY <1>2, <1>3, <1>4 DEF Ledger!Settle, Outcome, Effect, Count
  <1> QED
    BY <1>2, <1>5 DEF Ledger!Next, Ledger!Mutation, Journalled

LEMMA StepRefines == SdkRunInv /\ [Next]_vars => [Ledger!Next]_(Ledger!vars)
  <1> SUFFICES ASSUME SdkRunInv, [Next]_vars
               PROVE  Ledger!Next \/ UNCHANGED Ledger!vars
    OBVIOUS
  <1>1. CASE \E w \in Op : Reconcile(w)
    BY <1>1, ReconcileRefines
  <1>2. ASSUME NEW s \in Slot,
               (\E w \in Op : InvokeWrite(s, w)) \/ Write(s) \/ ReturnWrite(s)
        PROVE  Ledger!Next \/ UNCHANGED Ledger!vars
    BY <1>2, InvokeWriteRefines, WriteRefines, ReturnWriteRefines
  <1>3. CASE \/ StartAttempt \/ EndAttempt \/ FailAttempt \/ Waited \/ HostedCall \/ Crash
             \/ Resume \/ UNCHANGED vars
    <2>1. UNCHANGED <<durable, rows, writes>>
      BY <1>3 DEF StartAttempt, EndAttempt, FailAttempt, Waited, HostedCall, Crash, Resume, vars
    <2> QED
      BY <2>1, LedgerStays
  <1>4. ASSUME NEW s \in Slot,
               InvokeRead(s) \/ AnswerRead(s) \/ ReturnRead(s) \/ LookAtAnswer(s) \/ Expire(s)
        PROVE  UNCHANGED Ledger!vars
    <2>1. UNCHANGED <<durable, rows, writes>>
      BY <1>4 DEF InvokeRead, Blocked, AnswerRead, ReturnRead, LookAtAnswer, Expire
    <2> QED
      BY <2>1, LedgerStays
  <1> QED
    BY <1>1, <1>2, <1>3, <1>4 DEF Next

-----------------------------------------------------------------------------
(* The theorems.                                                           *)

\* The inductive invariant holds in every state of every run: where calls can be, what
\* the ledger, the journal and the saved reads say, and whose the writes are.
THEOREM SdkRunInvHolds == Spec => []SdkRunInv
  BY InitInv, StepKeepsInv, PTL DEF Spec

\* Ledger, journal, calls and records have their types.
THEOREM SdkRunTypeCorrect == Spec => []TypeOK
  <1>1. SdkRunInv => TypeOK
    BY DEF SdkRunInv
  <1> QED
    BY <1>1, SdkRunInvHolds, PTL

\* However often the run retries, repairs, crashes and resumes, and however late a call
\* that was given up still writes: a durable operation is written once, and all writes
\* of a run without a journal are of one attempt.
THEOREM NoWriteIsRepeated == Spec => []WriteIsNotRepeated
  <1>1. SdkRunInv => WriteIsNotRepeated
    BY DEF SdkRunInv, DurableInv, AttemptInv, OneAttempt, WriteIsNotRepeated
  <1> QED
    BY <1>1, SdkRunInvHolds, PTL

\* What the model reads, saved or fresh, shows all writes verified before it asked.
THEOREM ReadsShowVerified == Spec => []ReadShowsVerified
  <1>1. SdkRunInv => ReadShowsVerified
    BY DEF SdkRunInv, ReadInv, ReadShowsVerified
  <1> QED
    BY <1>1, SdkRunInvHolds, PTL

\* The calls of all attempts that reach our tools stay within the contract; a run that
\* ends well without a failed attempt has kept it with its hosted calls too.
THEOREM ContractIsKept == Spec => []WithinContract
  <1>1. SdkRunInv => WithinContract
    <2> SUFFICES ASSUME SdkRunInv PROVE WithinContract
      OBVIOUS
    <2>1. /\ used \in [Tool -> Nat] /\ made \in [Tool -> Nat] /\ LedgerInv
      BY DEF SdkRunInv, TypeOK
    <2> QED
      BY <2>1, SdkRunAssumption DEF LedgerInv, WithinContract, All, Tool
  <1> QED
    BY <1>1, SdkRunInvHolds, PTL

\* From the first repair on, no step of the run reaches our tools.
THEOREM RepairsReachNoTool == Spec => RepairIsToolFree
  <1>1. SdkRunInv /\ [Next]_vars =>
          [done["repair"] > 0 /\ phase = "model" =>
             made'["read"] <= made["read"] /\ made'["write"] <= made["write"]]_vars
    <2> SUFFICES ASSUME SdkRunInv, Next, done["repair"] > 0, phase = "model"
                 PROVE  made'["read"] <= made["read"] /\ made'["write"] <= made["write"]
      OBVIOUS
    <2>1. disabled = Tool /\ made \in [Tool -> Nat]
      BY DEF SdkRunInv, RepairInv, Active, TypeOK
    <2>2. /\ \A s \in Slot : ~InvokeRead(s)
          /\ \A s \in Slot, w \in Op : ~InvokeWrite(s, w)
      BY <2>1 DEF InvokeRead, InvokeWrite, CanCall, Tool
    <2>3. \/ UNCHANGED made
          \/ Fresh
          \/ Reaches("search")
      BY <2>2 DEF Next, StartAttempt, EndAttempt, FailAttempt, Waited, HostedCall, Crash, Resume,
         Reconcile, AnswerRead, ReturnRead, LookAtAnswer, Write, Expire, ReturnWrite, Fails, run
    <2>4. CASE Fresh
      BY <2>1, <2>4 DEF Fresh, Zero, Tool
    <2>5. CASE Reaches("search")
      BY <2>1, <2>5 DEF Reaches, Tool
    <2>6. CASE UNCHANGED made
      BY <2>1, <2>6 DEF Tool
    <2> QED
      BY <2>3, <2>4, <2>5, <2>6
  <1> QED
    BY <1>1, SdkRunInvHolds, PTL DEF Spec, RepairIsToolFree

\* With all its attempts, given-up calls, late writes, crashes and resumptions a durable
\* run does to the provider only what the effect ledger allows, which is also what the
\* operation journal implements; a run without a journal does not enter in the ledger.
THEOREM RunImplementsLedger == Spec => ImplementsLedger
  <1>1. Init => Ledger!Init
    <2> SUFFICES ASSUME Init PROVE Ledger!Init
      OBVIOUS
    <2>1. /\ \A w \in Op : rows[w] = "absent" /\ writes[w] = <<>>
      BY DEF Init
    <2>2. \A o \in Journalled :
            /\ OutcomeOf(rows[o[2]]) = "open"
            /\ (durable /\ writes[o[2]] # <<>>) = FALSE
            /\ (IF durable THEN Len(writes[o[2]]) ELSE 0) = 0
      BY <2>1 DEF Journalled, OutcomeOf
    <2> QED
      BY <2>2 DEF Ledger!Init, Ledger!Mutation, Journalled
  <1> QED
    BY <1>1, StepRefines, SdkRunInvHolds, PTL DEF Spec, ImplementsLedger, Ledger!Spec

-----------------------------------------------------------------------------
(* What the ledger promises of whatever implements it, for these runs.     *)

Kept == INSTANCE EffectLedger_proofs WITH
  Exec    <- {"run"},
  Key     <- Op,
  Item    <- {},
  NoItem  <- "none",
  item    <- [e \in {"run"} |-> "none"],
  outcome <- [o \in Journalled |-> OutcomeOf(rows[o[2]])],
  present <- [o \in Journalled |-> durable /\ writes[o[2]] # <<>>],
  writes  <- [o \in Journalled |-> IF durable THEN Len(writes[o[2]]) ELSE 0]

LEMMA LedgerIsKept == ImplementsLedger => []Kept!LedgerInv
  <1>1. Ledger!Init => Kept!Init
    BY DEF Ledger!Init, Kept!Init, Ledger!Mutation, Kept!Mutation
  <1>2. Ledger!Next => Kept!Next
    BY DEF Ledger!Next, Kept!Next, Ledger!Mutation, Kept!Mutation, Ledger!Claim, Kept!Claim,
           Ledger!Issue, Kept!Issue, Ledger!Apply, Kept!Apply, Ledger!Withdraw, Kept!Withdraw,
           Ledger!Settle, Kept!Settle, Ledger!Contend, Kept!Contend
  <1>3. UNCHANGED Ledger!vars => UNCHANGED Kept!vars
    BY DEF Ledger!vars, Kept!vars
  <1>4. Kept!Spec => []Kept!LedgerInv
    BY Kept!LedgerHolds
  <1> QED
    BY <1>1, <1>2, <1>3, <1>4, PTL DEF ImplementsLedger, Ledger!Spec, Kept!Spec

\* At most one write of a run is in doubt, whatever its attempts asked for and however they
\* ended: ExecutionStore.before_operation admits no second one beside it.
OneWriteInDoubt ==
  \A v, w \in Op : {rows[v], rows[w]} \subseteq {"intent", "unknown"} => v = w

\* It follows from the ledger alone, since all writes of a run contend.
THEOREM OneWriteIsInDoubt == Spec => []OneWriteInDoubt
  <1>1. Kept!LedgerInv => OneWriteInDoubt
    <2> SUFFICES ASSUME Kept!LedgerInv, NEW v \in Op, NEW w \in Op,
                        {rows[v], rows[w]} \subseteq {"intent", "unknown"}
                 PROVE  v = w
      BY DEF OneWriteInDoubt
    <2>1. /\ <<"run", v>> \in Journalled /\ <<"run", w>> \in Journalled
          /\ <<"run", v>> \in Kept!Mutation /\ <<"run", w>> \in Kept!Mutation
      BY DEF Journalled, Kept!Mutation
    <2>2. OutcomeOf(rows[v]) = "uncertain" /\ OutcomeOf(rows[w]) = "uncertain"
      BY DEF OutcomeOf
    <2>3. Kept!Contend(<<"run", v>>, <<"run", w>>)
      BY DEF Kept!Contend
    <2> QED
      BY <2>1, <2>2, <2>3 DEF Kept!LedgerInv
  <1> QED
    BY <1>1, RunImplementsLedger, LedgerIsKept, PTL

=============================================================================
