-------------------------- MODULE DeliveryEvidence --------------------------
(***************************************************************************)
(* More theorems about Delivery: rows, ledger and event projection claim   *)
(* only outcomes of which an attempt is on record.                         *)
(***************************************************************************)
EXTENDS DeliveryProofs

Late == Posted \cup {"failEvent", "logFinal"}

Evidence(j) ==
  \E i \in DOMAIN attempts[j] : /\ attempts[j][i].number = attemptCount[j]
                                /\ Implies(attempts[j][i], status[j])

Succeeded(j) == \E i \in DOMAIN attempts[j] : attempts[j][i].outcome = "delivered"

Exhausted(j) == \E i \in DOMAIN attempts[j] : Exhausts(attempts[j][i])

Concluded == {"delivered", "retrying", "dead_lettered"}

(* The attempts table only grows, and a row with attempts keeps its root.   *)
AttemptsGrow ==
  \A j \in Jobs : \A i \in DOMAIN attempts[j] :
    i \in DOMAIN attempts'[j] /\ attempts'[j][i] = attempts[j][i]

RootsStay == \A j \in Jobs : attempts[j] # <<>> => Root(j)' = Root(j)

WorkersKeepRecords ==
  \A w \in Workers :
    /\ pc'[w] \in Late =>
         \/ pc[w] \in Late /\ item'[w] = item[w] /\ result'[w] = result[w]
         \/ Recorded(w)'
    /\ pc'[w] = "failEvent" =>
         \/ pc[w] = "failEvent" /\ item'[w] = item[w] /\ result'[w] = result[w]
         \/ FinalStatus(result[w], Number(w))' = "dead_lettered"

StatusEvidenced ==
  \A j \in Jobs : status'[j] \in Concluded =>
    \/ status'[j] = status[j] /\ attemptCount'[j] = attemptCount[j]
    \/ Evidence(j)'

LedgerEvidenced ==
  \A j \in Jobs :
    /\ <<j, "delivered">> \in ledger' =>
         <<j, "delivered">> \in ledger \/ Succeeded(j)
    /\ <<j, "dead_lettered">> \in ledger' =>
         <<j, "dead_lettered">> \in ledger \/ Exhausted(j)

EventEvidenced ==
  \A e \in Jobs : eventStatus'[e] = "delivery_failed" =>
    \/ eventStatus[e] = "delivery_failed"
    \/ \E j \in Jobs : Root(j) = e /\ Exhausted(j)

LEMMA EvidencePreserved ==
  ASSUME TypeOK, TypeOK', EvidenceInv, AttemptsGrow, RootsStay,
         WorkersKeepRecords, StatusEvidenced, LedgerEvidenced, EventEvidenced
  PROVE  EvidenceInv'
<1>1. PostedIsRecorded'
  <2> SUFFICES ASSUME NEW w \in Workers
               PROVE  /\ pc'[w] \in Late => Recorded(w)'
                      /\ pc'[w] = "failEvent" =>
                           FinalStatus(result[w], Number(w))' = "dead_lettered"
    BY DEF PostedIsRecorded, Late
  <2>1. ASSUME pc[w] \in Late, item'[w] = item[w], result'[w] = result[w]
        PROVE  Recorded(w)'
    <3>1. Recorded(w)
      BY <2>1 DEF EvidenceInv, PostedIsRecorded, Late
    <3>2. item[w].job \in Jobs
      BY <2>1 DEF TypeOK, Late, Posted, Item
    <3> QED BY <2>1, <3>1, <3>2 DEF Recorded, Number, AttemptsGrow
  <2>2. ASSUME pc[w] = "failEvent", item'[w] = item[w], result'[w] = result[w]
        PROVE  FinalStatus(result[w], Number(w))' = "dead_lettered"
    BY <2>2 DEF EvidenceInv, PostedIsRecorded, FinalStatus, Number
  <2> QED BY <2>1, <2>2 DEF WorkersKeepRecords
<1>2. \A j \in Jobs : /\ Succeeded(j) => Succeeded(j)'
                      /\ Exhausted(j) => Exhausted(j)'
  BY DEF AttemptsGrow, Succeeded, Exhausted, Exhausts
<1>3. OutcomeIsEvidenced'
  <2> SUFFICES ASSUME NEW j \in Jobs, status'[j] \in Concluded
               PROVE  Evidence(j)'
    BY DEF OutcomeIsEvidenced, Concluded, Evidence
  <2>1. ASSUME status'[j] = status[j], attemptCount'[j] = attemptCount[j]
        PROVE  Evidence(j)'
    <3>1. Evidence(j)
      BY <2>1 DEF EvidenceInv, OutcomeIsEvidenced, Concluded, Evidence
    <3> QED BY <2>1, <3>1 DEF Evidence, Implies, Exhausts, AttemptsGrow
  <2> QED BY <2>1 DEF StatusEvidenced
<1>4. ClaimsAreEvidenced'
  <2>1. \A j \in Jobs : /\ <<j, "delivered">> \in ledger' => Succeeded(j)'
                        /\ <<j, "dead_lettered">> \in ledger' => Exhausted(j)'
    BY <1>2 DEF EvidenceInv, ClaimsAreEvidenced, LedgerEvidenced, Succeeded,
                Exhausted
  <2>2. ASSUME NEW e \in Jobs, eventStatus'[e] = "delivery_failed"
        PROVE  \E j \in Jobs : Root(j)' = e /\ Exhausted(j)'
    <3>1. \E j \in Jobs : Root(j) = e /\ Exhausted(j)
      BY <2>2 DEF EvidenceInv, ClaimsAreEvidenced, EventEvidenced, Exhausted
    <3>2. PICK j \in Jobs : Root(j) = e /\ Exhausted(j)
      BY <3>1
    <3>3. attempts[j] # <<>>
      BY <3>2 DEF Exhausted
    <3> QED BY <1>2, <3>2, <3>3 DEF RootsStay
  <2> QED BY <2>1, <2>2 DEF ClaimsAreEvidenced, Succeeded, Exhausted
<1> QED BY <1>1, <1>3, <1>4 DEF EvidenceInv

-----------------------------------------------------------------------------
(* A step that puts no outcome anywhere.                                    *)
NoOutcome ==
  /\ UNCHANGED attempts
  /\ \A j \in Jobs : status'[j] \in Concluded =>
       status'[j] = status[j] /\ attemptCount'[j] = attemptCount[j]
  /\ \A j \in Jobs, s \in {"delivered", "dead_lettered"} :
       <<j, s>> \in ledger' => <<j, s>> \in ledger
  /\ \A e \in Jobs : eventStatus'[e] = "delivery_failed" =>
       eventStatus[e] = "delivery_failed"
  /\ \A w \in Workers : pc'[w] \in Late =>
       pc'[w] = pc[w] /\ item'[w] = item[w] /\ result'[w] = result[w]

LEMMA QuietEvidence ==
  ASSUME TypeOK, TypeOK', EvidenceInv, NoOutcome, RootsStay
  PROVE  EvidenceInv'
<1>1. AttemptsGrow
  BY DEF NoOutcome, AttemptsGrow
<1>2. WorkersKeepRecords
  BY DEF NoOutcome, WorkersKeepRecords, Late
<1>3. StatusEvidenced /\ LedgerEvidenced /\ EventEvidenced
  BY DEF NoOutcome, StatusEvidenced, LedgerEvidenced, EventEvidenced
<1> QED BY <1>1, <1>2, <1>3, EvidencePreserved

(* What a final status says of the attempt it was computed from.            *)
LEMMA FinalStatusMeans ==
  ASSUME NEW o \in Outcomes, NEW n \in Nat
  PROVE  /\ FinalStatus(o, n) = "delivered" <=> o = "delivered"
         /\ FinalStatus(o, n) = "retrying" <=> o = "retryable" /\ n < MaxAttempts
         /\ FinalStatus(o, n) = "dead_lettered" <=>
              \/ o = "permanent"
              \/ o = "retryable" /\ n >= MaxAttempts
         /\ FinalStatus(o, n) \in Concluded
<1>1. CASE o = "delivered"
  BY <1>1 DEF FinalStatus, Concluded
<1>2. CASE o = "permanent"
  BY <1>2 DEF FinalStatus, Concluded
<1>3. CASE o = "retryable"
  <2>1. CASE n < MaxAttempts
    BY <1>3, <2>1, DeliveryAssumption DEF FinalStatus, Concluded
  <2>2. CASE ~(n < MaxAttempts)
    BY <1>3, <2>2, DeliveryAssumption DEF FinalStatus, Concluded
  <2> QED BY <2>1, <2>2
<1> QED BY <1>1, <1>2, <1>3 DEF Outcomes

LEMMA AttemptImplies ==
  ASSUME NEW a, NEW s \in Concluded
  PROVE  /\ s = "delivered" => (Implies(a, s) <=> a.outcome = "delivered")
         /\ s = "retrying" =>
              (Implies(a, s) <=>
                 a.outcome = "retryable" /\ a.number < MaxAttempts)
         /\ s = "dead_lettered" => (Implies(a, s) <=> Exhausts(a))
<1>1. CASE s = "delivered"
  BY <1>1 DEF Implies
<1>2. CASE s = "retrying"
  BY <1>2 DEF Implies
<1>3. CASE s = "dead_lettered"
  BY <1>3 DEF Implies
<1> QED BY <1>1, <1>2, <1>3 DEF Concluded

(* The steps of a worker that has done its POST.                            *)
LEMMA EvidenceLateStep ==
  ASSUME TypeOK, TypeOK', EvidenceInv, NEW w \in Workers,
         RecordAttempt(w) \/ LogAttempted(w) \/ LogOutcome(w) \/ Touch(w)
           \/ Settle(w) \/ FailEvent(w) \/ LogFinal(w)
  PROVE  EvidenceInv'
<1> USE DEF rowVars, tableVars, handlerVars, procVars, workerVars, Late, Posted,
            Concluded
<1>1. PICK j \in Jobs : j = item[w].job
  BY DEF TypeOK, Item, RecordAttempt, LogAttempted, LogOutcome, Touch, Settle,
         FailEvent, LogFinal
<1>2. RootsStay
  BY DEF RootsStay, Root, RecordAttempt, LogAttempted, LogOutcome, Touch,
         Settle, FailEvent, LogFinal
<1>3. pc[w] \in Late => Recorded(w)
  BY DEF EvidenceInv, PostedIsRecorded
<1>4. CASE RecordAttempt(w)
  <2> DEFINE a == [number |-> Number(w), outcome |-> result[w]]
  <2>1. attempts[j] \in Seq(Attempt) /\ a \in Attempt
    BY <1>1, <1>4 DEF TypeOK, Attempt, Number, Item, RecordAttempt
  <2>2. /\ attempts'[j] = Append(attempts[j], a)
        /\ \A k \in Jobs : k # j => attempts'[k] = attempts[k]
    BY <1>1, <1>4 DEF RecordAttempt, TypeOK
  <2>3. UNCHANGED <<status, attemptCount, ledger, eventStatus, item, result>>
    BY <1>4 DEF RecordAttempt, Goto
  <2> HIDE DEF a
  <2>4. /\ \A i \in DOMAIN attempts[j] :
             i \in DOMAIN attempts'[j] /\ attempts'[j][i] = attempts[j][i]
        /\ \E i \in DOMAIN attempts'[j] : attempts'[j][i] = a
    <3>1. /\ DOMAIN attempts[j] = 1..Len(attempts[j])
          /\ DOMAIN attempts'[j] = 1..(Len(attempts[j]) + 1)
          /\ \A i \in 1..Len(attempts[j]) : attempts'[j][i] = attempts[j][i]
          /\ attempts'[j][Len(attempts[j]) + 1] = a
      BY <2>1, <2>2, AppendElements
    <3>2. Len(attempts[j]) \in Nat
      BY <2>1
    <3> QED BY <3>1, <3>2
  <2>5. AttemptsGrow
    BY <2>2, <2>4 DEF AttemptsGrow
  <2>6. Recorded(w)'
    BY <1>1, <2>3, <2>4 DEF Recorded, Number, a
  <2>7. WorkersKeepRecords
    BY <1>4, <2>3, <2>6 DEF WorkersKeepRecords, RecordAttempt, Goto, TypeOK
  <2>8. StatusEvidenced /\ LedgerEvidenced /\ EventEvidenced
    BY <2>3 DEF StatusEvidenced, LedgerEvidenced, EventEvidenced
  <2> QED BY <1>2, <2>5, <2>7, <2>8, EvidencePreserved
<1>5. CASE LogAttempted(w) \/ LogOutcome(w) \/ Touch(w) \/ Settle(w)
             \/ FailEvent(w) \/ LogFinal(w)
  <2>1. PICK i \in DOMAIN attempts[j] :
          attempts[j][i] = [number |-> Number(w), outcome |-> result[w]]
    BY <1>1, <1>3, <1>5 DEF Recorded, LogAttempted, LogOutcome, Touch, Settle,
                            FailEvent, LogFinal
  <2>2. Number(w) \in Nat /\ result[w] \in Outcomes
    BY <1>5 DEF TypeOK, Number, Item, LogAttempted, LogOutcome, Touch, Settle,
                FailEvent, LogFinal
  <2>3. /\ result[w] = "delivered" => Succeeded(j)
        /\ FinalStatus(result[w], Number(w)) = "delivered" => Succeeded(j)
        /\ FinalStatus(result[w], Number(w)) = "dead_lettered" => Exhausted(j)
    BY <2>1, <2>2, FinalStatusMeans DEF Succeeded, Exhausted, Exhausts
  <2>4. AttemptsGrow
    BY <1>5 DEF AttemptsGrow, LogAttempted, LogOutcome, Touch, Settle, FailEvent,
                LogFinal
  <2>5. WorkersKeepRecords
    <3>1. CASE Settle(w)
      BY <3>1 DEF WorkersKeepRecords, Settle, AfterSettle, Goto, Number, TypeOK
    <3>2. CASE ~Settle(w)
      BY <1>5, <3>2 DEF WorkersKeepRecords, LogAttempted, LogOutcome, Touch,
                        FailEvent, LogFinal, Goto, Release, TypeOK
    <3> QED BY <3>1, <3>2
  <2>6. StatusEvidenced
    <3>1. CASE Settle(w)
      <4> DEFINE final == FinalStatus(result[w], Number(w))
      <4>1. /\ status' = [status EXCEPT ![j] = final]
            /\ attemptCount' = [attemptCount EXCEPT ![j] = Number(w)]
            /\ UNCHANGED attempts
        BY <1>1, <3>1 DEF Settle
      <4>2. Implies([number |-> Number(w), outcome |-> result[w]], final)
        BY <2>2, FinalStatusMeans, AttemptImplies DEF Exhausts
      <4> HIDE DEF final
      <4>3. status'[j] = final /\ attemptCount'[j] = Number(w)
        BY <4>1 DEF TypeOK
      <4>4. Evidence(j)'
        <5>1. /\ i \in DOMAIN attempts'[j]
              /\ attempts'[j][i].number = attemptCount'[j]
          BY <2>1, <4>1, <4>3
        <5>2. Implies(attempts[j][i], status[j])'
          BY <2>1, <2>2, <4>1, <4>2, <4>3 DEF Implies, Exhausts
        <5> QED BY <5>1, <5>2 DEF Evidence
      <4> QED BY <4>1, <4>4 DEF StatusEvidenced, TypeOK
    <3>2. CASE Touch(w)
      BY <3>2 DEF StatusEvidenced, Touch, TypeOK
    <3>3. CASE ~Settle(w) /\ ~Touch(w)
      BY <1>5, <3>3 DEF StatusEvidenced, LogAttempted, LogOutcome, FailEvent,
                        LogFinal
    <3> QED BY <3>1, <3>2, <3>3
  <2>7. LedgerEvidenced
    BY <1>1, <1>5, <2>3 DEF LedgerEvidenced, LogAttempted, LogOutcome, Touch,
                            Settle, FailEvent, LogFinal, Log
  <2>8. EventEvidenced
    <3>1. CASE FailEvent(w)
      <4>1. Exhausted(j)
        BY <2>3, <3>1 DEF EvidenceInv, PostedIsRecorded, FailEvent
      <4> QED BY <1>1, <3>1, <4>1 DEF EventEvidenced, FailEvent, TypeOK
    <3>2. CASE ~FailEvent(w)
      BY <1>5, <3>2 DEF EventEvidenced, LogAttempted, LogOutcome, Touch, Settle,
                        LogFinal
    <3> QED BY <3>1, <3>2
  <2> QED BY <1>2, <2>4, <2>5, <2>6, <2>7, <2>8, EvidencePreserved
<1> QED BY <1>4, <1>5

LEMMA EvidenceWorkerStep ==
  ASSUME TypeOK, TypeOK', EvidenceInv, NEW w \in Workers, WorkerStep(w)
  PROVE  EvidenceInv'
<1> USE DEF rowVars, tableVars, handlerVars, procVars, workerVars
<1>1. CASE RecordAttempt(w) \/ LogAttempted(w) \/ LogOutcome(w) \/ Touch(w)
             \/ Settle(w) \/ FailEvent(w) \/ LogFinal(w)
  BY <1>1, EvidenceLateStep
<1>2. CASE \/ TakeJob(w) \/ MarkDelivering(w)
           \/ LogDelivering(w) \/ ClaimGranted(w) \/ ClaimRefused(w)
           \/ BlockEvent(w) \/ BlockJob(w) \/ \E o \in Outcomes : Post(w, o)
  <2>1. RootsStay
    BY <1>2 DEF RootsStay, Root, TakeJob, MarkDelivering,
                LogDelivering, ClaimGranted, ClaimRefused, BlockEvent, BlockJob,
                Post
  <2>2. UNCHANGED attempts
    BY <1>2 DEF TakeJob, MarkDelivering, LogDelivering,
                ClaimGranted, ClaimRefused, BlockEvent, BlockJob, Post
  <2>3. \A j \in Jobs : status'[j] \in Concluded =>
          status'[j] = status[j] /\ attemptCount'[j] = attemptCount[j]
    <3>1. CASE MarkDelivering(w)
      BY <3>1 DEF MarkDelivering, TypeOK, Concluded
    <3>2. CASE BlockJob(w)
      BY <3>2 DEF BlockJob, TypeOK, Concluded
    <3>3. CASE ~MarkDelivering(w) /\ ~BlockJob(w)
      BY <1>2, <3>3 DEF TakeJob, LogDelivering, ClaimGranted,
                        ClaimRefused, BlockEvent, Post
    <3> QED BY <3>1, <3>2, <3>3
  <2>4. \A j \in Jobs, s \in {"delivered", "dead_lettered"} :
          <<j, s>> \in ledger' => <<j, s>> \in ledger
    BY <1>2 DEF TakeJob, MarkDelivering, LogDelivering,
                ClaimGranted, ClaimRefused, BlockEvent, BlockJob, Post, Log
  <2>5. \A e \in Jobs : eventStatus'[e] = "delivery_failed" =>
          eventStatus[e] = "delivery_failed"
    BY <1>2 DEF TakeJob, MarkDelivering, LogDelivering,
                ClaimGranted, ClaimRefused, BlockEvent, BlockJob, Post, TypeOK
  <2>6. \A v \in Workers : pc'[v] \in Late =>
          pc'[v] = pc[v] /\ item'[v] = item[v] /\ result'[v] = result[v]
    <3> SUFFICES ASSUME NEW v \in Workers, pc'[v] \in Late
                 PROVE  pc'[v] = pc[v] /\ item'[v] = item[v] /\ result'[v] = result[v]
      OBVIOUS
    <3>1. CASE TakeJob(w) /\ JobHasAttemptCount
      BY <3>1 DEF TakeJob, TypeOK, Late, Posted
    <3>2. CASE TakeJob(w) /\ ~JobHasAttemptCount
      BY <3>2 DEF TakeJob
    <3>3. CASE MarkDelivering(w) \/ ClaimGranted(w) \/ ClaimRefused(w) \/ BlockEvent(w)
      BY <3>3 DEF MarkDelivering, ClaimGranted, ClaimRefused, BlockEvent, Goto,
                  TypeOK, Late, Posted
    <3>4. CASE LogDelivering(w)
      BY <3>4 DEF LogDelivering, Goto, TypeOK, Late, Posted
    <3>5. CASE BlockJob(w)
      BY <3>5 DEF BlockJob, Release, TypeOK, Late, Posted
    <3>6. CASE \E o \in Outcomes : Post(w, o)
      <4>1. pc' = [pc EXCEPT ![w] = "record"] /\ item' = item
        BY <3>6 DEF Post
      <4>2. PICK o \in Outcomes : result' = [result EXCEPT ![w] = o]
        BY <3>6 DEF Post
      <4>3. v # w
        BY <4>1 DEF TypeOK, Late, Posted
      <4> QED BY <4>1, <4>2, <4>3 DEF TypeOK
    <3> QED BY <1>2, <3>1, <3>2, <3>3, <3>4, <3>5, <3>6
  <2>7. NoOutcome
    BY <2>2, <2>3, <2>4, <2>5, <2>6 DEF NoOutcome
  <2> QED BY <2>1, <2>7, QuietEvidence
<1> QED BY <1>1, <1>2 DEF WorkerStep

LEMMA EvidenceStep ==
  TypeOK /\ TypeOK' /\ HoldInv /\ EvidenceInv /\ [Next]_vars => EvidenceInv'
<1> SUFFICES ASSUME TypeOK, TypeOK', HoldInv, EvidenceInv, [Next]_vars
             PROVE  EvidenceInv'
  OBVIOUS
<1> USE DEF rowVars, tableVars, handlerVars, procVars, workerVars, Concluded
<1>1. ASSUME NEW j \in Jobs, NEW h \in Hosts, NEW k \in BOOLEAN,
             NEW kind \in {"webhook", "triage"}, InsertJob(j, h, k, kind)
      PROVE  EvidenceInv'
  BY <1>1, QuietEvidence DEF InsertJob, NoOutcome, RootsStay, Root, TypeOK
<1>2. ASSUME NEW j \in Jobs, NEW r \in Jobs, NEW h \in Hosts,
             ReplayInsert(j, r, h)
      PROVE  EvidenceInv'
  <2>1. attempts[r] = <<>>
    BY <1>2 DEF ReplayInsert, HoldInv, RowsExist
  <2>2. RootsStay
    BY <1>2, <2>1 DEF ReplayInsert, RootsStay, Root, TypeOK
  <2>3. NoOutcome
    BY <1>2 DEF ReplayInsert, NoOutcome, TypeOK
  <2> QED BY <2>2, <2>3, QuietEvidence
<1>3. ASSUME NEW j \in Jobs,
             ReplayCheck(j) \/ HandlerStep(j) \/ BackoffElapses(j) \/ JobAges(j)
      PROVE  EvidenceInv'
  <2>1. RootsStay
    BY <1>3 DEF RootsStay, Root, ReplayCheck, HandlerStep, Enqueue, LogQueued,
                LogReplayed, BackoffElapses, JobAges
  <2>2. NoOutcome
    BY <1>3 DEF NoOutcome, ReplayCheck, HandlerStep, Enqueue, LogQueued,
                LogReplayed, Log, BackoffElapses, JobAges
  <2> QED BY <2>1, <2>2, QuietEvidence
<1>4. ASSUME NEW p \in Procs, NEW S \in SUBSET Jobs, Fetch(p, S)
      PROVE  EvidenceInv'
  BY <1>4, QuietEvidence DEF Fetch, NoOutcome, RootsStay, Root
<1>5. ASSUME NEW p \in Procs, NEW it \in fetched[p], EnqueueFetched(p, it)
      PROVE  EvidenceInv'
  BY <1>5, QuietEvidence DEF EnqueueFetched, NoOutcome, RootsStay, Root
<1>6. ASSUME NEW w \in Workers, WorkerStep(w) PROVE EvidenceInv'
  BY <1>6, EvidenceWorkerStep
<1>7. ASSUME NEW w \in Workers, WorkerFault(w) PROVE EvidenceInv'
  BY <1>7, QuietEvidence DEF WorkerFault, Release, NoOutcome, RootsStay, Root,
                             TypeOK, Late, Posted
<1>8. ASSUME NEW h, Restart(h) PROVE EvidenceInv'
  BY <1>8, QuietEvidence DEF Restart, NoOutcome, RootsStay, Root, Late, Posted
<1>9. ASSUME NEW p \in Procs, PollFault(p) PROVE EvidenceInv'
  <2>1. CASE p \in Hosts
    BY <1>9, <2>1, QuietEvidence DEF PollFault, NoOutcome, RootsStay, Root
  <2>2. CASE p \notin Hosts
    BY <1>8, <1>9, <2>2 DEF PollFault
  <2> QED BY <2>1, <2>2
<1>10. CASE UNCHANGED vars
  BY <1>10, QuietEvidence DEF vars, NoOutcome, RootsStay, Root
<1> QED BY <1>1, <1>2, <1>3, <1>4, <1>5, <1>6, <1>7, <1>8, <1>9, <1>10
        DEF Next, Crash

LEMMA EvidenceHolds == Spec => []EvidenceInv
<1>1. Init => HoldInv
  BY DEF Init, HoldInv, RowsExist, FreshHeldIsDelivering, FreshJobHeldOnce,
         Held, InLoop, InQueue, InWorker, OneCopyInLoops, OneCopyInQueues,
         OneCopyInWorkers, OneStage, Holding, Posted, Fresh
<1>2. Init => EvidenceInv
  BY DEF Init, EvidenceInv, PostedIsRecorded, OutcomeIsEvidenced,
         ClaimsAreEvidenced, Posted
<1> QED BY <1>1, <1>2, HoldStep, EvidenceStep, TypeCorrect, PTL DEF Spec

(* A row's status and attempt_count are what some recorded attempt implies, *)
(* whichever of several workers wrote last.                                 *)
THEOREM RowsAreEvidenced == Spec => []OutcomeIsEvidenced
BY EvidenceHolds, PTL DEF EvidenceInv

(* Neither the ledger nor the event projection claims an outcome without an *)
(* attempt that had it.                                                     *)
THEOREM LedgerIsEvidenced == Spec => []ClaimsAreEvidenced
BY EvidenceHolds, PTL DEF EvidenceInv

=============================================================================
