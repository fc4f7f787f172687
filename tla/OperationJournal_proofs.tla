---------------------- MODULE OperationJournal_proofs ----------------------
(***************************************************************************)
(* The safety properties of OperationJournal, and that it implements       *)
(* EffectLedger, for every set of executions, keys, WorkItems, provider    *)
(* objects and workers.                                                    *)
(***************************************************************************)
EXTENDS OperationJournal, TLAPS

LEMMA InitInv == Init => JournalInv
  BY SentinelAssumption
  DEF Init, JournalInv, TypeOK, CallsInv, NoEffectIsTrue, EffectInv,
      AtMostOneWrite, NameInv, IdentifiedIsPresent, OneUnnamedEffect,
      Status, Output, Phase

-----------------------------------------------------------------------------
(* What observing a receipt does to the rows.                              *)

\* Only the row of the operation changes.  It stays issued, is observed or
\* verified exactly when it names an object, does not lose a name it has, and
\* is uncertain afterwards only if it was so before.
LEMMA ObserveFacts ==
  ASSUME TypeOK, NameInv,
         NEW o \in Op, NEW x \in Object \cup {NoObject}, NEW passed \in BOOLEAN,
         status[o] \notin {"absent", "no_effect"},
         Observe(o, x, passed)
  PROVE  /\ status' \in [Op -> Status]
         /\ object' \in [Op -> Object \cup {NoObject}]
         /\ \A p \in Op \ {o} : status'[p] = status[p] /\ object'[p] = object[p]
         /\ status'[o] \in {"intent", "unknown", "observed", "verified"}
         /\ object'[o] # NoObject <=> status'[o] \in {"observed", "verified"}
         /\ object[o] # NoObject => object'[o] = object[o]
         /\ object'[o] \in {object[o], x}
         /\ status'[o] \in {"intent", "unknown"} => status[o] \in {"intent", "unknown"}
  <1>1. CASE Identified(o) /\ x = NoObject
    BY <1>1 DEF Observe, Identified, TypeOK, NameInv, Status
  <1>2. CASE ~(Identified(o) /\ x = NoObject)
    <2>1. /\ status' = [status EXCEPT ![o] = ReceiptStatus(x, passed)]
          /\ object' = [object EXCEPT ![o] = x]
          /\ Compatible(o, x)
      BY <1>2 DEF Observe
    <2>2. /\ ReceiptStatus(x, passed) \in {"unknown", "observed", "verified"}
          /\ x = NoObject <=> ReceiptStatus(x, passed) = "unknown"
      BY DEF ReceiptStatus
    <2>3. object[o] # NoObject => x = object[o]
      BY <1>2, <2>1 DEF Identified, Compatible
    <2>4. status[o] \in {"intent", "unknown", "observed", "verified"}
      BY DEF TypeOK, Status
    <2> QED
      BY <2>1, <2>2, <2>3, <2>4 DEF TypeOK, NameInv, Status
  <1> QED
    BY <1>1, <1>2

\* Hence observing disturbs none of the parts of the invariant about rows, as
\* long as an object is named only where the effect is there.
LEMMA ObserveKeepsRows ==
  ASSUME JournalInv,
         NEW o \in Op, NEW x \in Object \cup {NoObject}, NEW passed \in BOOLEAN,
         status[o] \notin {"absent", "no_effect"},
         x # NoObject => present[o],
         Observe(o, x, passed),
         UNCHANGED <<item, present>>,
         \A w \in Worker : target'[w] \in {target[w], NoOp},
         recon' \in {recon, NoOp}
  PROVE  NoEffectIsTrue' /\ NameInv' /\ IdentifiedIsPresent' /\ OneUnnamedEffect'
  <1>1. /\ \A p \in Op \ {o} : status'[p] = status[p] /\ object'[p] = object[p]
        /\ status'[o] \in {"intent", "unknown", "observed", "verified"}
        /\ object'[o] # NoObject <=> status'[o] \in {"observed", "verified"}
        /\ object[o] # NoObject => object'[o] = object[o]
        /\ object'[o] \in {object[o], x}
        /\ status'[o] \in {"intent", "unknown"} => status[o] \in {"intent", "unknown"}
    BY ObserveFacts DEF JournalInv
  <1>2. object'[o] # NoObject => present[o]
    BY <1>1 DEF JournalInv, NameInv, IdentifiedIsPresent
  <1>3. NoEffectIsTrue'
    BY <1>1, SentinelAssumption DEF JournalInv, NoEffectIsTrue
  <1>4. NameInv'
    <2>1. \A p \in Op : object'[p] # NoObject <=> status'[p] \in {"observed", "verified"}
      BY <1>1 DEF JournalInv, NameInv
    <2>2. ASSUME recon' # NoOp PROVE object'[recon'[1]] = recon'[2]
      <3>1. recon' = recon /\ recon[1] \in Op /\ recon[2] \in Object
        BY <2>2 DEF JournalInv, TypeOK
      <3>2. object[recon[1]] = recon[2] /\ recon[2] # NoObject
        BY <2>2, <3>1, SentinelAssumption DEF JournalInv, NameInv
      <3> QED
        BY <1>1, <3>1, <3>2
    <2> QED
      BY <2>1, <2>2 DEF NameInv
  <1>5. IdentifiedIsPresent'
    BY <1>1, <1>2 DEF JournalInv, IdentifiedIsPresent
  <1>6. OneUnnamedEffect'
    BY <1>1 DEF JournalInv, OneUnnamedEffect
  <1> QED
    BY <1>3, <1>4, <1>5, <1>6

\* Call w ending, or leaving a request behind it, disturbs no part about calls.
LEMMA GiveUpKeepsCalls ==
  ASSUME TypeOK, CallsInv, EffectInv,
         NEW w \in Worker, phase[w] # "idle",
         GiveUp(w), UNCHANGED <<present, writes>>
  PROVE  /\ phase' \in [Worker -> Phase] /\ target' \in [Worker -> Op \cup {NoOp}]
         /\ CallsInv' /\ EffectInv'
         /\ \A v \in Worker : target'[v] \in {target[v], NoOp}
  <1>1. target[w] \in Op
    BY DEF TypeOK, CallsInv
  <1>2. CASE Finish(w)
    BY <1>2 DEF Finish, TypeOK, CallsInv, EffectInv, Phase
  <1>3. CASE /\ phase[w] \in {"calling", "detached"}
             /\ phase' = [phase EXCEPT ![w] = "on_the_wire"]
             /\ UNCHANGED target
    BY <1>1, <1>3 DEF TypeOK, CallsInv, EffectInv, Phase
  <1> QED
    BY <1>2, <1>3 DEF GiveUp

-----------------------------------------------------------------------------
(* One lemma per action.                                                   *)

LEMMA BindKeepsInv ==
  ASSUME JournalInv, NEW e \in Exec, NEW i \in Item, Bind(e, i)
  PROVE  JournalInv'
  <1>1. TypeOK' /\ CallsInv' /\ NoEffectIsTrue' /\ EffectInv' /\ AtMostOneWrite'
        /\ NameInv' /\ IdentifiedIsPresent'
    BY DEF Bind, provider, calls, JournalInv, TypeOK, CallsInv, NoEffectIsTrue,
           EffectInv, AtMostOneWrite, NameInv, IdentifiedIsPresent
  <1>2. OneUnnamedEffect'
    <2> SUFFICES ASSUME NEW o \in Op, NEW p \in Op,
                        status[o] \in {"intent", "unknown"},
                        status[p] \in {"intent", "unknown"},
                        \/ o[1] = p[1]
                        \/ item'[o[1]] # NoItem /\ item'[o[1]] = item'[p[1]]
                 PROVE  o = p
      BY DEF OneUnnamedEffect, Bind
    <2>1. o[1] # e /\ p[1] # e
      BY DEF Bind, Op
    <2>2. item'[o[1]] = item[o[1]] /\ item'[p[1]] = item[p[1]]
      BY <2>1 DEF Bind, JournalInv, TypeOK, Op
    <2> QED
      BY <2>2 DEF JournalInv, OneUnnamedEffect
  <1> QED
    BY <1>1, <1>2 DEF JournalInv

LEMMA AdmitKeepsInv ==
  ASSUME JournalInv, NEW w \in Worker, NEW o \in Op, Admit(w, o)
  PROVE  JournalInv'
  <1>1. /\ ~present[o] /\ object[o] = NoObject
        /\ \A v \in Worker : target[v] # o
    BY DEF Admit, JournalInv, NoEffectIsTrue, NameInv
  <1>2. TypeOK'
    BY DEF Admit, provider, Discarded, JournalInv, TypeOK, Status, Output, Phase
  <1>3. CallsInv'
    BY <1>1, SentinelAssumption DEF Admit, JournalInv, TypeOK, CallsInv
  <1>4. EffectInv' /\ AtMostOneWrite' /\ IdentifiedIsPresent'
    BY <1>1 DEF Admit, provider, JournalInv, TypeOK, CallsInv, EffectInv,
                AtMostOneWrite, IdentifiedIsPresent
  <1>5. NoEffectIsTrue'
    BY <1>1 DEF Admit, provider, JournalInv, TypeOK, NoEffectIsTrue
  <1>6. NameInv'
    BY <1>1 DEF Admit, JournalInv, TypeOK, NameInv
  <1>7. OneUnnamedEffect'
    <2>1. \A p \in Op \ {o} : status'[p] = status[p]
      BY DEF Admit, JournalInv, TypeOK
    <2>2. item' = item /\ \A p \in Op : SameScope(o, p) => status[p] \notin Unresolved
      BY DEF Admit, BarrierClear
    <2> QED
      BY <2>1, <2>2 DEF JournalInv, OneUnnamedEffect, SameScope, Unresolved
  <1> QED
    BY <1>2, <1>3, <1>4, <1>5, <1>6, <1>7 DEF JournalInv

LEMMA WriteKeepsInv ==
  ASSUME JournalInv, NEW w \in Worker, Write(w)
  PROVE  JournalInv'
  <1> DEFINE o == target[w]
  <1>1. /\ o \in Op /\ ~present[o] /\ writes[o] = 0
        /\ status[o] \notin {"absent", "no_effect"}
        /\ \A v \in Worker \ {w} : target[v] # o
    BY SentinelAssumption
    DEF Write, JournalInv, TypeOK, CallsInv, NoEffectIsTrue, EffectInv
  <1>2. /\ present' = [present EXCEPT ![o] = TRUE]
        /\ writes'  = [writes EXCEPT ![o] = 1]
        /\ UNCHANGED <<item, status, object, cache, recon>>
    BY <1>1 DEF Write, journal, JournalInv, TypeOK
  <1>3. /\ phase' \in [Worker -> Phase] /\ target' \in [Worker -> Op \cup {NoOp}]
        /\ \A v \in Worker \ {w} : phase'[v] = phase[v] /\ target'[v] = target[v]
        /\ \/ phase'[w] \in {"effected", "detached_effected"} /\ target'[w] = o
           \/ phase'[w] = "idle" /\ target'[w] = NoOp
    BY <1>1 DEF Write, JournalInv, TypeOK, Phase
  <1>4. TypeOK'
    BY <1>1, <1>2, <1>3 DEF JournalInv, TypeOK
  <1>5. CallsInv' /\ NoEffectIsTrue'
    BY <1>1, <1>2, <1>3, SentinelAssumption
    DEF JournalInv, TypeOK, CallsInv, NoEffectIsTrue
  <1>6. EffectInv' /\ AtMostOneWrite'
    BY <1>1, <1>2, <1>3, SentinelAssumption
    DEF JournalInv, TypeOK, CallsInv, EffectInv, AtMostOneWrite
  <1>7. NameInv' /\ IdentifiedIsPresent' /\ OneUnnamedEffect'
    BY <1>1, <1>2 DEF JournalInv, TypeOK, NameInv, IdentifiedIsPresent, OneUnnamedEffect
  <1> QED
    BY <1>4, <1>5, <1>6, <1>7 DEF JournalInv

LEMMA FindExistingKeepsInv ==
  ASSUME JournalInv, NEW w \in Worker, FindExisting(w)
  PROVE  JournalInv'
  <1> DEFINE o == target[w]
  <1>1. /\ o \in Op
        /\ status[o] \notin {"absent", "no_effect"}
        /\ \A v \in Worker \ {w} : target[v] # o
    BY SentinelAssumption
    DEF FindExisting, JournalInv, TypeOK, CallsInv, NoEffectIsTrue
  <1>2. TypeOK'
    BY <1>1 DEF FindExisting, journal, JournalInv, TypeOK, Phase
  <1>3. CallsInv' /\ NoEffectIsTrue'
    BY <1>1 DEF FindExisting, journal, JournalInv, TypeOK, CallsInv, NoEffectIsTrue
  <1>4. EffectInv' /\ AtMostOneWrite'
    BY <1>1 DEF FindExisting, JournalInv, TypeOK, CallsInv, EffectInv, AtMostOneWrite
  <1>5. NameInv' /\ IdentifiedIsPresent' /\ OneUnnamedEffect'
    BY <1>1 DEF FindExisting, journal, JournalInv, TypeOK, NameInv,
                IdentifiedIsPresent, OneUnnamedEffect
  <1> QED
    BY <1>2, <1>3, <1>4, <1>5 DEF JournalInv

LEMMA RecordKeepsInv ==
  ASSUME JournalInv, NEW w \in Worker, NEW x \in Object, NEW passed \in BOOLEAN,
         Record(w, x, passed)
  PROVE  JournalInv'
  <1>1. target[w] \in Op /\ present[target[w]]
        /\ status[target[w]] \notin {"absent", "no_effect"}
    BY SentinelAssumption
    DEF Record, JournalInv, TypeOK, CallsInv, EffectInv, NoEffectIsTrue
  <1>2. Observe(target[w], x, passed)
        /\ UNCHANGED <<item, cache, present, writes, phase, target, recon>>
    BY DEF Record, provider, calls
  <1>3. NoEffectIsTrue' /\ NameInv' /\ IdentifiedIsPresent' /\ OneUnnamedEffect'
    BY <1>1, <1>2, ObserveKeepsRows
  <1>4. TypeOK'
    BY <1>1, <1>2, ObserveFacts DEF JournalInv, TypeOK
  <1>5. CallsInv' /\ EffectInv' /\ AtMostOneWrite'
    BY <1>2 DEF JournalInv, CallsInv, EffectInv, AtMostOneWrite
  <1> QED
    BY <1>3, <1>4, <1>5 DEF JournalInv

LEMMA ReturnKeepsInv ==
  ASSUME JournalInv, NEW w \in Worker, NEW x \in Object \cup {NoObject},
         NEW passed \in BOOLEAN, Return(w, x, passed)
  PROVE  JournalInv'
  <1>1. target[w] \in Op /\ phase[w] # "idle"
        /\ status[target[w]] \notin {"absent", "no_effect"}
        /\ (x # NoObject => present[target[w]])
    BY SentinelAssumption
    DEF Return, JournalInv, TypeOK, CallsInv, EffectInv, NoEffectIsTrue
  <1>2. Observe(target[w], x, passed) /\ GiveUp(w)
        /\ UNCHANGED <<item, present, writes, recon>>
    BY DEF Return, provider, GiveUp
  <1>3. cache' \in [Op -> Output]
    BY <1>1 DEF Return, Staged, JournalInv, TypeOK, Output
  <1>4. /\ phase' \in [Worker -> Phase] /\ target' \in [Worker -> Op \cup {NoOp}]
        /\ CallsInv' /\ EffectInv'
        /\ \A v \in Worker : target'[v] \in {target[v], NoOp}
    BY <1>1, <1>2, GiveUpKeepsCalls DEF JournalInv
  <1>5. NoEffectIsTrue' /\ NameInv' /\ IdentifiedIsPresent' /\ OneUnnamedEffect'
    BY <1>1, <1>2, <1>4, ObserveKeepsRows
  <1>6. TypeOK'
    <2>1. status' \in [Op -> Status] /\ object' \in [Op -> Object \cup {NoObject}]
      BY <1>1, <1>2, ObserveFacts DEF JournalInv
    <2> QED
      BY <1>2, <1>3, <1>4, <2>1 DEF JournalInv, TypeOK
  <1>7. AtMostOneWrite'
    BY <1>2 DEF JournalInv, AtMostOneWrite
  <1> QED
    BY <1>4, <1>5, <1>6, <1>7 DEF JournalInv

LEMMA ReturnPreviewKeepsInv ==
  ASSUME JournalInv, NEW w \in Worker, ReturnPreview(w)
  PROVE  JournalInv'
  <1> DEFINE o == target[w]
  <1>1. /\ o \in Op /\ phase[w] # "idle"
        /\ status[o] \notin {"absent", "no_effect"}
        /\ \A v \in Worker \ {w} : target[v] # o
    BY SentinelAssumption
    DEF ReturnPreview, JournalInv, TypeOK, CallsInv, NoEffectIsTrue
  <1>2. /\ status' = [status EXCEPT ![o] = PreviewStatus(@)]
        /\ Finish(w)
        /\ UNCHANGED <<item, object, present, writes, recon>>
    BY DEF ReturnPreview, provider
  <1>3. cache' \in [Op -> Output]
    BY <1>1 DEF ReturnPreview, Staged, JournalInv, TypeOK, Output
  <1>4. /\ phase' \in [Worker -> Phase] /\ target' \in [Worker -> Op \cup {NoOp}]
        /\ CallsInv' /\ EffectInv'
        /\ \A v \in Worker : target'[v] \in {target[v], NoOp}
    BY <1>1, <1>2, GiveUpKeepsCalls DEF JournalInv, GiveUp
  <1>5. \/ status' = status
        \/ /\ status' = [status EXCEPT ![o] = "no_effect"]
           /\ status[o] = "intent" /\ phase[w] = "calling"
    <2>1. CASE status[o] = "intent"
      BY <1>1, <1>2, <2>1 DEF ReturnPreview, PreviewStatus
    <2>2. CASE status[o] # "intent"
      BY <1>1, <1>2, <2>2 DEF PreviewStatus, JournalInv, TypeOK
    <2> QED
      BY <2>1, <2>2
  <1>6. TypeOK'
    BY <1>2, <1>3, <1>4, <1>5 DEF JournalInv, TypeOK, Status
  <1>7. NoEffectIsTrue'
    <2>1. target'[w] # o /\ (phase[w] = "calling" => ~present[o])
      BY <1>1, <1>2, SentinelAssumption DEF Finish, JournalInv, TypeOK, EffectInv
    <2> QED
      BY <1>1, <1>2, <1>4, <1>5, <2>1, SentinelAssumption
      DEF JournalInv, TypeOK, NoEffectIsTrue
  <1>8. NameInv' /\ IdentifiedIsPresent' /\ OneUnnamedEffect' /\ AtMostOneWrite'
    BY <1>1, <1>2, <1>5
    DEF JournalInv, TypeOK, NameInv, IdentifiedIsPresent, OneUnnamedEffect, AtMostOneWrite
  <1> QED
    BY <1>4, <1>6, <1>7, <1>8 DEF JournalInv

LEMMA LoseKeepsInv ==
  ASSUME JournalInv, NEW w \in Worker, Lose(w)
  PROVE  JournalInv'
  <1>1. /\ GiveUp(w) /\ phase[w] # "idle"
        /\ UNCHANGED <<item, status, object, cache, present, writes, recon>>
    BY DEF Lose, journal, provider
  <1>2. /\ phase' \in [Worker -> Phase] /\ target' \in [Worker -> Op \cup {NoOp}]
        /\ CallsInv' /\ EffectInv'
        /\ \A v \in Worker : target'[v] \in {target[v], NoOp}
    BY <1>1, GiveUpKeepsCalls DEF JournalInv
  <1>3. NoEffectIsTrue'
    BY <1>1, <1>2, SentinelAssumption DEF JournalInv, NoEffectIsTrue
  <1>4. TypeOK' /\ NameInv' /\ IdentifiedIsPresent' /\ OneUnnamedEffect' /\ AtMostOneWrite'
    BY <1>1, <1>2 DEF JournalInv, TypeOK, NameInv, IdentifiedIsPresent,
                      OneUnnamedEffect, AtMostOneWrite
  <1> QED
    BY <1>2, <1>3, <1>4 DEF JournalInv

LEMMA DetachKeepsInv ==
  ASSUME JournalInv, NEW w \in Worker, Detach(w)
  PROVE  JournalInv'
  <1>1. UNCHANGED <<item, status, object, cache, present, writes, target, recon>>
    BY DEF Detach, journal, provider
  <1>2. TypeOK' /\ CallsInv' /\ EffectInv'
    BY <1>1 DEF Detach, JournalInv, TypeOK, CallsInv, EffectInv, Phase
  <1>3. NoEffectIsTrue' /\ AtMostOneWrite' /\ NameInv' /\ IdentifiedIsPresent'
        /\ OneUnnamedEffect'
    BY <1>1 DEF JournalInv, NoEffectIsTrue, AtMostOneWrite, NameInv,
                IdentifiedIsPresent, OneUnnamedEffect
  <1> QED
    BY <1>2, <1>3 DEF JournalInv

\* Both ways of reconciling observe a receipt and touch no call.
LEMMA ReconcilingKeepsInv ==
  ASSUME JournalInv,
         NEW o \in Op, NEW x \in Object, NEW passed \in BOOLEAN,
         status[o] \notin {"absent", "no_effect"}, present[o],
         Observe(o, x, passed),
         UNCHANGED <<item, cache, provider, calls>>,
         recon' \in {recon, NoOp}
  PROVE  JournalInv'
  <1>1. UNCHANGED <<item, cache, present, writes, phase, target>>
    BY DEF provider, calls
  <1>2. NoEffectIsTrue' /\ NameInv' /\ IdentifiedIsPresent' /\ OneUnnamedEffect'
    BY <1>1, ObserveKeepsRows
  <1>3. TypeOK'
    <2>1. status' \in [Op -> Status] /\ object' \in [Op -> Object \cup {NoObject}]
      BY ObserveFacts DEF JournalInv
    <2> QED
      BY <1>1, <2>1 DEF JournalInv, TypeOK
  <1>4. CallsInv' /\ EffectInv' /\ AtMostOneWrite'
    BY <1>1 DEF JournalInv, CallsInv, EffectInv, AtMostOneWrite
  <1> QED
    BY <1>2, <1>3, <1>4 DEF JournalInv

LEMMA ReconcileReadKeepsInv ==
  ASSUME JournalInv, NEW o \in Op, ReconcileRead(o)
  PROVE  JournalInv'
  <1>1. /\ recon' = <<o, object[o]>> /\ object[o] \in Object
        /\ UNCHANGED <<item, status, object, cache, present, writes, phase, target>>
    BY DEF ReconcileRead, journal, provider, calls, JournalInv, TypeOK
  <1>2. TypeOK' /\ NameInv'
    BY <1>1 DEF JournalInv, TypeOK, NameInv
  <1> QED
    BY <1>1, <1>2 DEF JournalInv, CallsInv, EffectInv, NoEffectIsTrue, AtMostOneWrite,
                      IdentifiedIsPresent, OneUnnamedEffect

-----------------------------------------------------------------------------

\* Every step preserves the invariant.
LEMMA StepKeepsInv == JournalInv /\ [Next]_vars => JournalInv'
  <1> SUFFICES ASSUME JournalInv, [Next]_vars PROVE JournalInv'
    OBVIOUS
  <1>1. ASSUME NEW e \in Exec, NEW i \in Item, Bind(e, i) PROVE JournalInv'
    BY <1>1, BindKeepsInv
  <1>2. ASSUME NEW w \in Worker, CallStep(w) PROVE JournalInv'
    <2>1. ASSUME NEW o \in Op, Admit(w, o) PROVE JournalInv'
      BY <2>1, AdmitKeepsInv
    <2>2. CASE Write(w)
      BY <2>2, WriteKeepsInv
    <2>3. CASE FindExisting(w)
      BY <2>3, FindExistingKeepsInv
    <2>4. ASSUME NEW x \in Object, NEW passed \in BOOLEAN, Record(w, x, passed)
          PROVE  JournalInv'
      BY <2>4, RecordKeepsInv
    <2>5. ASSUME NEW x \in Object \cup {NoObject}, NEW passed \in BOOLEAN,
                 Return(w, x, passed)
          PROVE  JournalInv'
      BY <2>5, ReturnKeepsInv
    <2>6. CASE ReturnPreview(w)
      BY <2>6, ReturnPreviewKeepsInv
    <2>7. CASE Lose(w)
      BY <2>7, LoseKeepsInv
    <2>8. CASE Detach(w)
      BY <2>8, DetachKeepsInv
    <2> QED
      BY <1>2, <2>1, <2>2, <2>3, <2>4, <2>5, <2>6, <2>7, <2>8 DEF CallStep
  <1>3. ASSUME NEW o \in Op, NEW x \in Object, NEW passed \in BOOLEAN,
               ObserveReadBack(o, x, passed)
        PROVE  JournalInv'
    BY <1>3, ReconcilingKeepsInv DEF ObserveReadBack, Unresolved
  <1>4. ASSUME NEW o \in Op, ReconcileRead(o) PROVE JournalInv'
    BY <1>4, ReconcileReadKeepsInv
  <1>5. CASE ReconcileWrite
    <2>1. /\ recon[1] \in Op /\ recon[2] \in Object
          /\ object[recon[1]] = recon[2]
      BY <1>5 DEF ReconcileWrite, JournalInv, TypeOK, NameInv
    <2>2. status[recon[1]] \in {"observed", "verified"} /\ present[recon[1]]
      BY <2>1, SentinelAssumption DEF JournalInv, NameInv, IdentifiedIsPresent
    <2> QED
      BY <1>5, <2>1, <2>2, ReconcilingKeepsInv DEF ReconcileWrite
  <1>6. CASE UNCHANGED vars
    BY <1>6 DEF vars, JournalInv, TypeOK, CallsInv, NoEffectIsTrue, EffectInv,
                AtMostOneWrite, NameInv, IdentifiedIsPresent, OneUnnamedEffect
  <1> QED
    BY <1>1, <1>2, <1>3, <1>4, <1>5, <1>6 DEF Next

\* The inductive invariant holds in every reachable state.
THEOREM Invariance == Spec => []JournalInv
  BY InitInv, StepKeepsInv, PTL DEF Spec

\* The rows, the provider's truth and the calls keep their types.
THEOREM TypeCorrect == Spec => []TypeOK
  <1>1. JournalInv => TypeOK
    BY DEF JournalInv
  <1> QED
    BY <1>1, Invariance, PTL

\* No operation is written twice at the provider (before_operation,
\* observe_operation), whatever is cancelled, lost, delayed or retried.
THEOREM WrittenAtMostOnce == Spec => []AtMostOneWrite
  <1>1. JournalInv => AtMostOneWrite
    BY DEF JournalInv
  <1> QED
    BY <1>1, Invariance, PTL

\* "no_effect" is never recorded over an effect or over a call that may have one.
THEOREM NoEffectIsNeverFalse == Spec => []NoEffectIsTrue
  <1>1. JournalInv => NoEffectIsTrue
    BY DEF JournalInv
  <1> QED
    BY <1>1, Invariance, PTL

\* A row that names an object stands for an effect at the provider.
THEOREM IdentifiedHasEffect == Spec => []IdentifiedIsPresent
  <1>1. JournalInv => IdentifiedIsPresent
    BY DEF JournalInv
  <1> QED
    BY <1>1, Invariance, PTL

\* The uncertainty barrier holds across the executions of one WorkItem.
THEOREM OneUnnamedEffectPerScope == Spec => []OneUnnamedEffect
  <1>1. JournalInv => OneUnnamedEffect
    BY DEF JournalInv
  <1> QED
    BY <1>1, Invariance, PTL

-----------------------------------------------------------------------------
(* No step renames the object of an operation.                             *)

LEMMA StepKeepsIdentity ==
  JournalInv /\ Next => \A o \in Op : object[o] # NoObject => object'[o] = object[o]
  <1> SUFFICES ASSUME JournalInv, Next, NEW p \in Op, object[p] # NoObject
               PROVE  object'[p] = object[p]
    OBVIOUS
  <1>1. ASSUME NEW o \in Op, NEW x \in Object \cup {NoObject}, NEW passed \in BOOLEAN,
               status[o] \notin {"absent", "no_effect"}, Observe(o, x, passed)
        PROVE  object'[p] = object[p]
    BY <1>1, ObserveFacts DEF JournalInv
  <1>2. CASE \E e \in Exec, i \in Item : Bind(e, i)
    BY <1>2 DEF Bind
  <1>3. ASSUME NEW w \in Worker, CallStep(w) PROVE object'[p] = object[p]
    <2>1. phase[w] # "idle" => /\ target[w] \in Op
                               /\ status[target[w]] \notin {"absent", "no_effect"}
      BY SentinelAssumption DEF JournalInv, TypeOK, CallsInv, NoEffectIsTrue
    <2>2. ASSUME NEW o \in Op, Admit(w, o) PROVE object'[p] = object[p]
      BY <2>2 DEF Admit, JournalInv, TypeOK, NameInv
    <2>3. ASSUME NEW x \in Object, NEW passed \in BOOLEAN, Record(w, x, passed)
          PROVE  object'[p] = object[p]
      BY <1>1, <2>1, <2>3 DEF Record
    <2>4. ASSUME NEW x \in Object \cup {NoObject}, NEW passed \in BOOLEAN,
                 Return(w, x, passed)
          PROVE  object'[p] = object[p]
      BY <1>1, <2>1, <2>4 DEF Return
    <2>5. CASE Write(w) \/ FindExisting(w) \/ ReturnPreview(w) \/ Lose(w) \/ Detach(w)
      BY <2>5 DEF Write, FindExisting, ReturnPreview, Lose, Detach, journal
    <2> QED
      BY <1>3, <2>2, <2>3, <2>4, <2>5 DEF CallStep
  <1>4. ASSUME NEW o \in Op, NEW x \in Object, NEW passed \in BOOLEAN,
               ObserveReadBack(o, x, passed)
        PROVE  object'[p] = object[p]
    BY <1>1, <1>4 DEF ObserveReadBack, Unresolved
  <1>5. CASE \E o \in Op : ReconcileRead(o)
    BY <1>5 DEF ReconcileRead, journal
  <1>6. CASE ReconcileWrite
    <2>1. /\ recon[1] \in Op /\ recon[2] \in Object
          /\ status[recon[1]] \in {"observed", "verified"}
      BY <1>6, SentinelAssumption DEF ReconcileWrite, JournalInv, TypeOK, NameInv
    <2> QED
      BY <1>1, <1>6, <2>1 DEF ReconcileWrite
  <1> QED
    BY <1>2, <1>3, <1>4, <1>5, <1>6 DEF Next

\* A receipt's object is fixed once it is recorded (observe_operation raises
\* "Provider response changed the recorded operation identity.").
THEOREM IdentityNeverChanges == Spec => IdentityIsFinal
  <1>1. JournalInv /\ [Next]_vars =>
          [\A o \in Op : object[o] # NoObject => object'[o] = object[o]]_vars
    BY StepKeepsIdentity
  <1> QED
    BY <1>1, Invariance, PTL DEF Spec, IdentityIsFinal

-----------------------------------------------------------------------------
(* What is replayed.                                                       *)

\* The staged outputs, given the invariant; only Admit and the two returns
\* touch them.
LEMMA StepKeepsCache == JournalInv /\ CacheInv /\ [Next]_vars => CacheInv'
  <1> SUFFICES ASSUME JournalInv, CacheInv, [Next]_vars PROVE CacheInv'
    OBVIOUS
  <1>1. \A w \in Worker : phase[w] # "idle" =>
          /\ target[w] \in Op
          /\ status[target[w]] \notin {"absent", "no_effect"}
          /\ cache[target[w]] = "none"
          /\ \A v \in Worker \ {w} : target[v] # target[w]
    BY SentinelAssumption
    DEF JournalInv, TypeOK, CallsInv, NoEffectIsTrue, CacheInv
  <1>2. ASSUME NEW o \in Op, NEW x \in Object \cup {NoObject}, NEW passed \in BOOLEAN,
               status[o] \notin {"absent", "no_effect"}, Observe(o, x, passed)
        PROVE  /\ \A p \in Op \ {o} : status'[p] = status[p]
               /\ status'[o] \notin {"absent", "no_effect"}
    BY <1>2, ObserveFacts DEF JournalInv
  <1>3. ASSUME NEW o \in Op, NEW x \in Object \cup {NoObject}, NEW passed \in BOOLEAN,
               status[o] \notin {"absent", "no_effect"}, Observe(o, x, passed),
               UNCHANGED <<cache, present, target>>
        PROVE  CacheInv'
    BY <1>2, <1>3 DEF CacheInv
  <1>4. CASE \E e \in Exec, i \in Item : Bind(e, i)
    BY <1>4 DEF Bind, provider, calls, CacheInv
  <1>5. ASSUME NEW w \in Worker, CallStep(w) PROVE CacheInv'
    <2> DEFINE t == target[w]
    <2>1. ASSUME NEW o \in Op, Admit(w, o) PROVE CacheInv'
      <3>1. cache' = [cache EXCEPT ![o] = "none"]
        BY <2>1 DEF Admit, Discarded, JournalInv, TypeOK, CacheInv
      <3> QED
        BY <2>1, <3>1 DEF Admit, provider, JournalInv, TypeOK, CacheInv
    <2>2. CASE Write(w) \/ FindExisting(w)
      <3>1. /\ t \in Op /\ cache[t] = "none"
            /\ present' = [present EXCEPT ![t] = TRUE]
            /\ UNCHANGED <<status, cache>>
            /\ \A v \in Worker : target'[v] \in {target[v], NoOp}
        BY <1>1, <2>2 DEF Write, FindExisting, journal, JournalInv, TypeOK
      <3> QED
        BY <3>1 DEF JournalInv, TypeOK, CacheInv
    <2>3. ASSUME NEW x \in Object, NEW passed \in BOOLEAN, Record(w, x, passed)
          PROVE  CacheInv'
      BY <1>1, <1>3, <2>3 DEF Record, provider, calls
    <2>4. ASSUME NEW x \in Object \cup {NoObject}, NEW passed \in BOOLEAN,
                 Return(w, x, passed)
          PROVE  CacheInv'
      <3>1. /\ t \in Op /\ cache[t] = "none" /\ Observe(t, x, passed)
            /\ status[t] \notin {"absent", "no_effect"}
            /\ UNCHANGED present
        BY <1>1, <2>4 DEF Return, provider
      <3>2. /\ \A p \in Op \ {t} : status'[p] = status[p]
            /\ status'[t] \notin {"absent", "no_effect"}
        BY <1>2, <3>1
      <3>3. CASE GiveUp(w) /\ UNCHANGED cache
        <4>1. \A v \in Worker : target'[v] \in {target[v], NoOp}
          BY <3>3 DEF GiveUp, Finish, JournalInv, TypeOK
        <4> QED
          BY <3>1, <3>2, <3>3, <4>1 DEF CacheInv
      <3>4. ASSUME NEW out \in {"real", "unproven"}, Finish(w),
                   cache' = [cache EXCEPT ![t] = Staged(@, out)],
                   out = "unproven" => phase[w] = "calling"
            PROVE  CacheInv'
        <4>1. out = "unproven" => ~present[t]
          BY <3>4 DEF JournalInv, EffectInv
        <4>2. /\ target' = [target EXCEPT ![w] = NoOp]
              /\ cache' = [cache EXCEPT ![t] = out]
          BY <3>1, <3>4 DEF Finish, Staged
        <4> QED
          BY <1>1, <3>1, <3>2, <4>1, <4>2 DEF JournalInv, TypeOK, CallsInv, CacheInv
      <3> QED
        BY <2>4, <3>3, <3>4 DEF Return
    <2>5. CASE ReturnPreview(w)
      <3>1. /\ t \in Op /\ cache[t] = "none"
            /\ status[t] \notin {"absent", "no_effect"}
            /\ status' = [status EXCEPT ![t] = PreviewStatus(status[t])]
            /\ target' = [target EXCEPT ![w] = NoOp]
            /\ UNCHANGED present
        BY <1>1, <2>5 DEF ReturnPreview, Finish, provider
      <3>2. PreviewStatus(status[t]) # "absent"
        BY <3>1 DEF PreviewStatus
      <3>3. phase[w] # "effected" => ~present[t]
        BY <2>5 DEF ReturnPreview, JournalInv, EffectInv
      <3> QED
        BY <1>1, <2>5, <3>1, <3>2, <3>3
        DEF ReturnPreview, Staged, JournalInv, TypeOK, CallsInv, CacheInv
    <2>6. CASE Lose(w) \/ Detach(w)
      <3>1. /\ UNCHANGED <<status, cache, present>>
            /\ \A v \in Worker : target'[v] \in {target[v], NoOp}
        BY <2>6 DEF Lose, GiveUp, Finish, Detach, journal, provider, JournalInv, TypeOK
      <3> QED
        BY <3>1 DEF CacheInv
    <2> QED
      BY <1>5, <2>1, <2>2, <2>3, <2>4, <2>5, <2>6 DEF CallStep
  <1>6. ASSUME NEW o \in Op, NEW x \in Object, NEW passed \in BOOLEAN,
               ObserveReadBack(o, x, passed)
        PROVE  CacheInv'
    BY <1>3, <1>6 DEF ObserveReadBack, Unresolved, provider, calls
  <1>7. CASE \E o \in Op : ReconcileRead(o)
    BY <1>7 DEF ReconcileRead, journal, provider, calls, CacheInv
  <1>8. CASE ReconcileWrite
    <2>1. /\ recon[1] \in Op /\ recon[2] \in Object
          /\ status[recon[1]] \in {"observed", "verified"}
      BY <1>8, SentinelAssumption DEF ReconcileWrite, JournalInv, TypeOK, NameInv
    <2> QED
      BY <1>3, <1>8, <2>1 DEF ReconcileWrite, provider, calls
  <1>9. CASE UNCHANGED vars
    BY <1>9 DEF vars, CacheInv
  <1> QED
    BY <1>4, <1>5, <1>6, <1>7, <1>8, <1>9 DEF Next

\* A verified operation replays the output of the call that had its effect, or
\* its receipt; never a preview.
THEOREM VerifiedReplaysReal == Spec => []ReplayIsReal
  <1>1. Init => CacheInv
    BY DEF Init, CacheInv
  <1>2. JournalInv /\ CacheInv => ReplayIsReal
    BY DEF JournalInv, TypeOK, Output, IdentifiedIsPresent, CacheInv, ReplayIsReal
  <1> QED
    BY <1>1, <1>2, StepKeepsCache, Invariance, PTL DEF Spec

-----------------------------------------------------------------------------
(* The journal implements the ledger.                                      *)

LEMMA OutcomeChange ==
  ASSUME TypeOK, NEW o \in Op, NEW s \in Status,
         status' = [status EXCEPT ![o] = s]
  PROVE  Outcome' = [Outcome EXCEPT ![o] = OutcomeOf(s)]
  <1>1. \A p \in Op : status'[p] = IF p = o THEN s ELSE status[p]
    BY DEF TypeOK
  <1>2. \A p \in Op : Outcome'[p] = IF p = o THEN OutcomeOf(s) ELSE OutcomeOf(status[p])
    BY <1>1 DEF Outcome
  <1>3. [Outcome EXCEPT ![o] = OutcomeOf(s)]
          = [p \in Op |-> IF p = o THEN OutcomeOf(s) ELSE OutcomeOf(status[p])]
    BY DEF Outcome
  <1>4. Outcome' = [p \in Op |-> Outcome'[p]]
    BY DEF Outcome
  <1> QED
    BY <1>2, <1>3, <1>4

\* Observing settles the operation, or changes nothing the ledger sees.
LEMMA ObserveIsSettle ==
  ASSUME JournalInv,
         NEW o \in Op, NEW x \in Object \cup {NoObject}, NEW passed \in BOOLEAN,
         status[o] \notin {"absent", "no_effect"},
         x # NoObject => present[o],
         Observe(o, x, passed),
         UNCHANGED <<item, present, writes>>
  PROVE  Ledger!Settle(o) \/ UNCHANGED Ledger!vars
  <1>1. status' = status \/ status' = [status EXCEPT ![o] = status'[o]]
    BY DEF Observe, JournalInv, TypeOK
  <1>2. /\ status'[o] \in {"intent", "unknown", "observed", "verified"}
        /\ status'[o] \in {"intent", "unknown"} => status[o] \in {"intent", "unknown"}
        /\ object'[o] \in {object[o], x}
        /\ object'[o] # NoObject <=> status'[o] \in {"observed", "verified"}
    BY ObserveFacts DEF JournalInv
  <1>3. status[o] \in {"intent", "unknown", "observed", "verified"}
    BY DEF JournalInv, TypeOK, Status
  <1>4. Outcome' = [Outcome EXCEPT ![o] = OutcomeOf(status'[o])]
    <2>1. CASE status' = status
      BY <2>1 DEF Outcome
    <2>2. CASE status' = [status EXCEPT ![o] = status'[o]]
      BY <1>2, <2>2, OutcomeChange DEF JournalInv, Status
    <2> QED
      BY <1>1, <2>1, <2>2
  <1>5. CASE status'[o] \in {"intent", "unknown"}
    <2>1. Outcome[o] = OutcomeOf(status'[o])
      BY <1>2, <1>5 DEF Outcome, OutcomeOf
    <2> QED
      BY <1>4, <2>1 DEF Outcome, Ledger!vars
  <1>6. CASE status'[o] \in {"observed", "verified"}
    <2>1. present[o]
      BY <1>2, <1>6 DEF JournalInv, NameInv, IdentifiedIsPresent
    <2>2. Outcome[o] \in {"uncertain", "named", "verified"}
      BY <1>3 DEF Outcome, OutcomeOf
    <2>3. OutcomeOf(status'[o]) \in {"named", "verified"}
      BY <1>6 DEF OutcomeOf
    <2> QED
      BY <1>4, <2>1, <2>2, <2>3 DEF Ledger!Settle
  <1> QED
    BY <1>2, <1>5, <1>6

\* The steps of a call, one by one.
LEMMA CallStepRefines ==
  ASSUME JournalInv, NEW w \in Worker, CallStep(w)
  PROVE  Ledger!Next \/ UNCHANGED Ledger!vars
  <1> DEFINE t == target[w]
  <1>1. phase[w] # "idle" => /\ t \in Op
                             /\ status[t] \notin {"absent", "no_effect"}
    BY SentinelAssumption DEF JournalInv, TypeOK, CallsInv, NoEffectIsTrue
  <1>2. ASSUME NEW o \in Op, Admit(w, o) PROVE Ledger!Issue(o)
    <2>1. Outcome' = [Outcome EXCEPT ![o] = "uncertain"]
      BY <1>2, OutcomeChange DEF Admit, JournalInv, Status, OutcomeOf
    <2>2. Outcome[o] = "open"
      BY <1>2 DEF Admit, Outcome, OutcomeOf
    <2>3. ASSUME NEW p \in Op, Ledger!Contend(o, p)
          PROVE  Outcome[p] \in {"open", "verified"}
      <3>1. status[p] \notin Unresolved
        BY <1>2, <2>3 DEF Admit, BarrierClear, SameScope, Ledger!Contend
      <3>2. status[p] \in {"absent", "no_effect", "verified"}
        BY <3>1 DEF JournalInv, TypeOK, Status, Unresolved
      <3> QED
        BY <3>2 DEF Outcome, OutcomeOf
    <2> QED
      BY <1>2, <2>1, <2>2, <2>3 DEF Admit, provider, Ledger!Issue, Ledger!Mutation, Op
  <1>3. CASE Write(w) \/ FindExisting(w)
    <2>1. /\ t \in Op /\ ~present[t] /\ writes[t] = 0
          /\ status[t] \in {"intent", "unknown", "observed", "verified"}
      BY <1>1, <1>3
      DEF Write, FindExisting, JournalInv, TypeOK, Status, EffectInv
    <2>2. status[t] \in {"intent", "unknown"}
      BY <2>1 DEF JournalInv, IdentifiedIsPresent
    <2>3. Outcome[t] = "uncertain" /\ UNCHANGED <<item, Outcome>>
      <3>1. UNCHANGED <<item, status>>
        BY <1>3 DEF Write, FindExisting, journal
      <3>2. Outcome[t] = "uncertain"
        BY <2>1, <2>2 DEF Outcome, OutcomeOf
      <3> QED
        BY <3>1, <3>2 DEF Outcome
    <2>4. /\ present' = [present EXCEPT ![t] = TRUE]
          /\ \E n \in {0, 1} : writes' = [writes EXCEPT ![t] = @ + n]
      <3>1. CASE Write(w)
        BY <3>1 DEF Write
      <3>2. CASE FindExisting(w)
        BY <3>2, <2>1 DEF FindExisting, JournalInv, TypeOK
      <3> QED
        BY <1>3, <3>1, <3>2
    <2>5. Ledger!Apply(t)
      BY <2>1, <2>3, <2>4 DEF Ledger!Apply
    <2> QED
      BY <2>1, <2>5 DEF Ledger!Next, Ledger!Mutation, Op
  <1>4. ASSUME NEW x \in Object \cup {NoObject}, NEW passed \in BOOLEAN,
               Record(w, x, passed) \/ Return(w, x, passed)
        PROVE  (t \in Op /\ Ledger!Settle(t)) \/ UNCHANGED Ledger!vars
    <2>1. /\ phase[w] # "idle"
          /\ x # NoObject => present[t]
          /\ Observe(t, x, passed)
          /\ UNCHANGED <<item, present, writes>>
      BY <1>4 DEF Record, Return, provider, JournalInv, EffectInv
    <2> QED
      BY <1>1, <2>1, ObserveIsSettle
  <1>5. CASE ReturnPreview(w)
    <2>1. /\ t \in Op /\ status[t] \in Status
          /\ status' = [status EXCEPT ![t] = PreviewStatus(status[t])]
          /\ UNCHANGED <<item, present, writes>>
      BY <1>1, <1>5 DEF ReturnPreview, provider, JournalInv, TypeOK
    <2>2. CASE status[t] = "intent"
      <3>1. ~present[t]
        BY <1>5, <2>2 DEF ReturnPreview, JournalInv, EffectInv
      <3>2. Outcome' = [Outcome EXCEPT ![t] = "open"]
        BY <2>1, <2>2, OutcomeChange DEF PreviewStatus, OutcomeOf, JournalInv, Status
      <3>3. Outcome[t] = "uncertain"
        BY <2>1, <2>2 DEF Outcome, OutcomeOf
      <3>4. Ledger!Withdraw(t)
        BY <2>1, <3>1, <3>2, <3>3 DEF Ledger!Withdraw
      <3> QED
        BY <2>1, <3>4 DEF Ledger!Next, Ledger!Mutation, Op
    <2>3. CASE status[t] # "intent"
      <3>1. PreviewStatus(status[t]) = status[t]
        BY <1>1, <1>5, <2>3 DEF PreviewStatus, ReturnPreview
      <3>2. status' = status
        BY <2>1, <3>1 DEF JournalInv, TypeOK
      <3> QED
        BY <2>1, <3>2 DEF Outcome, Ledger!vars
    <2> QED
      BY <2>2, <2>3
  <1>6. CASE Lose(w) \/ Detach(w)
    BY <1>6 DEF Lose, Detach, journal, provider, Outcome, Ledger!vars
  <1>7. CASE \E o \in Op : Admit(w, o)
    BY <1>2, <1>7 DEF Ledger!Next, Ledger!Mutation, Op
  <1>8. CASE \/ \E x \in Object, passed \in BOOLEAN : Record(w, x, passed)
             \/ \E x \in Object \cup {NoObject}, passed \in BOOLEAN : Return(w, x, passed)
    BY <1>4, <1>8 DEF Ledger!Next, Ledger!Mutation, Op
  <1> QED
    BY <1>3, <1>5, <1>6, <1>7, <1>8 DEF CallStep

LEMMA StepRefines == JournalInv /\ [Next]_vars => [Ledger!Next]_(Ledger!vars)
  <1> SUFFICES ASSUME JournalInv, [Next]_vars
               PROVE  Ledger!Next \/ UNCHANGED Ledger!vars
    OBVIOUS
  <1>1. ASSUME NEW e \in Exec, NEW i \in Item, Bind(e, i) PROVE Ledger!Claim(e, i)
    <2>1. ASSUME NEW k \in Key PROVE Outcome[<<e, k>>] = "open"
      BY <1>1 DEF Bind, Outcome, OutcomeOf, Op
    <2> QED
      BY <1>1, <2>1 DEF Bind, provider, Outcome, Ledger!Claim
  <1>2. CASE \E e \in Exec, i \in Item : Bind(e, i)
    BY <1>1, <1>2 DEF Ledger!Next
  <1>3. CASE \E w \in Worker : CallStep(w)
    BY <1>3, CallStepRefines
  <1>4. ASSUME NEW o \in Op, NEW x \in Object, NEW passed \in BOOLEAN,
               ObserveReadBack(o, x, passed)
        PROVE  Ledger!Next \/ UNCHANGED Ledger!vars
    BY <1>4, ObserveIsSettle
    DEF ObserveReadBack, Unresolved, provider, Ledger!Next, Ledger!Mutation, Op
  <1>5. CASE \E o \in Op : ReconcileRead(o)
    BY <1>5 DEF ReconcileRead, journal, provider, Outcome, Ledger!vars
  <1>6. CASE ReconcileWrite
    <2>1. /\ recon[1] \in Op /\ recon[2] \in Object /\ object[recon[1]] = recon[2]
          /\ Observe(recon[1], recon[2], TRUE)
          /\ UNCHANGED <<item, present, writes>>
      BY <1>6 DEF ReconcileWrite, provider, JournalInv, TypeOK, NameInv
    <2>2. status[recon[1]] \in {"observed", "verified"} /\ present[recon[1]]
      BY <2>1, SentinelAssumption DEF JournalInv, NameInv, IdentifiedIsPresent
    <2> QED
      BY <2>1, <2>2, ObserveIsSettle DEF Ledger!Next, Ledger!Mutation, Op
  <1>7. CASE UNCHANGED vars
    BY <1>7 DEF vars, Outcome, Ledger!vars
  <1> QED
    BY <1>2, <1>3, <1>4, <1>5, <1>6, <1>7 DEF Next

\* The journal with its workers, late reports, previews, crashes and
\* reconciliation implements the effect ledger.
THEOREM JournalImplementsLedger == Spec => ImplementsLedger
  <1>1. Init => Ledger!Init
    BY DEF Init, Outcome, OutcomeOf, Ledger!Init, Ledger!Mutation, Op
  <1> QED
    BY <1>1, StepRefines, Invariance, PTL DEF Spec, ImplementsLedger, Ledger!Spec
=============================================================================
