------------------------ MODULE DeliveryPromiseProofs ------------------------
(***************************************************************************)
(* Delivery keeps the promise of DeliveryPromise: the attempts of a fresh  *)
(* job are in order and within the budget, and every step of the pipeline  *)
(* is a step of the promise or leaves it alone.  At the end, the lineage of*)
(* replays.                                                                *)
(***************************************************************************)
EXTENDS DeliveryProofs

-----------------------------------------------------------------------------
(* The inductive invariant: what a copy knows agrees with the attempts table*)

InOrder(j) ==
  /\ Len(attempts[j]) <= MaxAttempts
  /\ \A i \in DOMAIN attempts[j] :
       /\ attempts[j][i].number = i
       /\ i < Len(attempts[j]) => attempts[j][i].outcome = "retryable"

(* One more attempt is allowed.                                             *)
OpenRow(j) ==
  /\ Len(attempts[j]) < MaxAttempts
  /\ \A i \in DOMAIN attempts[j] : attempts[j][i].outcome = "retryable"

(* A copy of j that has not been posted.                                    *)
Copy(j, it) ==
  /\ it.job = j
  /\ \/ \E p \in Procs : it \in fetched[p]
     \/ \E p \in Procs : \E i \in DOMAIN queue[p] : queue[p][i] = it
     \/ \E w \in Workers : /\ pc[w] \in Holding /\ pc[w] \notin Posted
                           /\ item[w] = it

Waiting(j) == status[j] \in {"queued", "retrying"}

RowKnows(j) == Waiting(j) => attemptCount[j] = Len(attempts[j]) /\ OpenRow(j)

CopiesKnow(j) ==
  \A it \in Item : Copy(j, it) => it.number = Len(attempts[j]) /\ OpenRow(j)

(* The last attempt is the one that the worker has just made.               *)
WorkersKnow(j) ==
  \A w \in Workers : pc[w] \in Posted /\ item[w].job = j =>
    /\ Number(w) = Len(attempts[j])
    /\ attempts[j][Len(attempts[j])].outcome = result[w]

Knows(j) == InOrder(j) /\ RowKnows(j) /\ CopiesKnow(j) /\ WorkersKnow(j)

NewRowsAreBlank == \A j \in Jobs : status[j] = "absent" => attemptCount[j] = 0

TriesInv == NewRowsAreBlank /\ \A j \in Jobs : Fresh(j) => Knows(j)

LEMMA KnowsMeansInOrder == TriesInv => FreshAttemptsInOrder
BY DEF TriesInv, Knows, InOrder, FreshAttemptsInOrder

(* A step that makes no attempt, no copy and no waiting row.                *)
Keeps(j) ==
  /\ Fresh(j)
  /\ attempts'[j] = attempts[j]
  /\ Waiting(j)' => Waiting(j) /\ attemptCount'[j] = attemptCount[j]
  /\ \A it \in Item : Copy(j, it)' => Copy(j, it)
  /\ \A w \in Workers : pc'[w] \in Posted /\ item'[w].job = j =>
       pc[w] \in Posted /\ item'[w] = item[w] /\ result'[w] = result[w]

LEMMA KeepsKnows ==
  ASSUME NEW j \in Jobs, Knows(j), Keeps(j)
  PROVE  Knows(j)'
<1>1. InOrder(j)'
  BY DEF Knows, Keeps, InOrder
<1>2. OpenRow(j) => OpenRow(j)'
  BY DEF Keeps, OpenRow
<1>3. RowKnows(j)'
  BY <1>2 DEF Knows, Keeps, RowKnows
<1>4. CopiesKnow(j)'
  BY <1>2 DEF Knows, Keeps, CopiesKnow
<1>5. WorkersKnow(j)'
  BY DEF Knows, Keeps, WorkersKnow, Number
<1> QED BY <1>1, <1>3, <1>4, <1>5 DEF Knows

BlankStays ==
  \A j \in Jobs : status'[j] = "absent" =>
    status[j] = "absent" /\ attemptCount'[j] = attemptCount[j]

LEMMA KeepsTries ==
  ASSUME TriesInv, BlankStays, \A j \in Jobs : Fresh(j)' => Keeps(j)
  PROVE  TriesInv'
<1>1. NewRowsAreBlank'
  BY DEF TriesInv, NewRowsAreBlank, BlankStays
<1>2. ASSUME NEW j \in Jobs, Fresh(j)' PROVE Knows(j)'
  BY <1>2, KeepsKnows DEF TriesInv, Keeps
<1> QED BY <1>1, <1>2 DEF TriesInv

(* Copies are at most moved or lost.                                        *)
LEMMA LosesCopies ==
  ASSUME LoseOnly, \A w \in Workers : pc'[w] \in Holding /\ pc'[w] \notin Posted
                     => pc[w] \notin Posted,
         NEW j \in Jobs, NEW it \in Item, Copy(j, it)'
  PROVE  Copy(j, it)
<1>1. CASE \E p \in Procs : it \in fetched'[p]
  BY <1>1 DEF Copy, LoseOnly
<1>2. CASE \E p \in Procs : \E i \in DOMAIN queue'[p] : queue'[p][i] = it
  BY <1>2 DEF Copy, LoseOnly
<1>3. CASE \E w \in Workers : pc'[w] \in Holding /\ pc'[w] \notin Posted /\ item'[w] = it
  BY <1>3 DEF Copy, LoseOnly
<1> QED BY <1>1, <1>2, <1>3 DEF Copy

-----------------------------------------------------------------------------
(* Handlers and polls *)

LEMMA TriesInsert ==
  ASSUME TypeOK, HoldInv, TriesInv, NEW r \in Jobs, Inserts(r), r \notin replaying,
         UNCHANGED <<attemptCount, result>>
  PROVE  TriesInv'
<1>1. NewRowsAreBlank'
  BY DEF Inserts, TriesInv, NewRowsAreBlank
<1>2. \A j \in Jobs, it \in Item : Copy(j, it)' <=> Copy(j, it)
  BY DEF Inserts, Copy
<1>3. ASSUME NEW j \in Jobs, Fresh(j)', j # r PROVE Knows(j)'
  <2>1. Keeps(j)
    BY <1>2, <1>3 DEF Inserts, Keeps, Fresh, Waiting
  <2> QED BY <2>1, KeepsKnows DEF TriesInv, Keeps
<1>4. Knows(r)'
  <2>1. ~Held(r) /\ attempts[r] = <<>>
    BY DEF Inserts, HoldInv, RowsExist
  <2>2. attempts'[r] = <<>> /\ attemptCount'[r] = 0
    BY <2>1 DEF Inserts, TriesInv, NewRowsAreBlank
  <2>3. OpenRow(r)' /\ InOrder(r)'
    BY <2>2, DeliveryAssumption DEF OpenRow, InOrder, DeliveryAssumption
  <2>4. \A it \in Item : ~Copy(r, it)
    BY <2>1 DEF Copy, Held, InLoop, InQueue, InWorker
  <2>5. \A w \in Workers : pc[w] \in Posted => item[w].job # r
    BY <2>1 DEF Held, InWorker, Holding
  <2> QED BY <1>2, <2>2, <2>3, <2>4, <2>5
          DEF Knows, RowKnows, CopiesKnow, WorkersKnow, Inserts
<1> QED BY <1>1, <1>3, <1>4 DEF TriesInv

(* Where the loops pass no count, none is written: no worker gets so far.   *)
CountInv ==
  ~JobHasAttemptCount =>
    /\ \A w \in Workers : pc[w] = "idle"
    /\ \A j \in Jobs : attemptCount[j] = 0

LEMMA CountStep == TypeOK /\ CountInv /\ [Next]_vars => CountInv'
<1> SUFFICES ASSUME TypeOK, CountInv, [Next]_vars, ~JobHasAttemptCount
             PROVE  CountInv'
  BY DEF CountInv
<1>1. /\ \A w \in Workers : pc[w] = "idle"
      /\ \A j \in Jobs : attemptCount[j] = 0
  BY DEF CountInv
<1>2. ASSUME NEW w \in Workers, WorkerStep(w)
      PROVE  UNCHANGED <<pc, attemptCount>>
  <2>1. TakeJob(w)
    BY <1>1, <1>2 DEF WorkerStep, MarkDelivering, LogDelivering, ClaimGranted,
       ClaimRefused, BlockEvent, BlockJob, Post, RecordAttempt, LogAttempted,
       LogOutcome, Touch, Settle, FailEvent, LogFinal
  <2> QED BY <2>1 DEF TakeJob, rowVars, workerVars
<1>3. ASSUME NEW h, Restart(h)
      PROVE  UNCHANGED attemptCount /\ \A w \in Workers : pc'[w] = "idle"
  BY <1>1, <1>3 DEF Restart, rowVars
<1>4. ASSUME NEW p \in Procs, PollFault(p)
      PROVE  UNCHANGED attemptCount /\ \A w \in Workers : pc'[w] = "idle"
  BY <1>1, <1>3, <1>4 DEF PollFault, rowVars, workerVars
<1>5. ASSUME NEW w \in Workers, WorkerFault(w) PROVE FALSE
  BY <1>1, <1>5 DEF WorkerFault
<1>6. ASSUME NEW p \in Procs, NEW S \in SUBSET Jobs, Fetch(p, S)
      PROVE  UNCHANGED <<pc, attemptCount>>
  BY <1>6 DEF Fetch, workerVars
<1>7. ASSUME \/ \E j \in Jobs, h \in Hosts, k \in BOOLEAN,
                  kind \in {"webhook", "triage"} : InsertJob(j, h, k, kind)
             \/ \E j \in Jobs : ReplayCheck(j)
             \/ \E j, r \in Jobs, h \in Hosts : ReplayInsert(j, r, h)
             \/ \E j \in Jobs : HandlerStep(j) \/ BackoffElapses(j) \/ JobAges(j)
             \/ \E p \in Procs : \E it \in fetched[p] : EnqueueFetched(p, it)
             \/ UNCHANGED vars
      PROVE  UNCHANGED <<pc, attemptCount>>
  BY <1>7 DEF InsertJob, ReplayCheck, ReplayInsert, HandlerStep, Enqueue, LogQueued,
     LogReplayed, BackoffElapses, JobAges, EnqueueFetched, vars, rowVars, workerVars
<1> QED BY <1>1, <1>2, <1>3, <1>4, <1>5, <1>6, <1>7 DEF Next, Crash, CountInv

LEMMA TriesFetch ==
  ASSUME TypeOK, CountInv, HoldInv, TriesInv, NEW p \in Procs, NEW S \in SUBSET Jobs,
         Fetch(p, S)
  PROVE  TriesInv'
<1>1. /\ UNCHANGED <<attempts, attemptCount, old, host, queue, pc, item, result>>
      /\ \A j \in Jobs : status'[j] = IF j \in S THEN "delivering" ELSE status[j]
      /\ fetched[p] = {}
      /\ fetched'[p] = {Snapshot(k) : k \in S}
      /\ \A q \in Procs \ {p} : fetched'[q] = fetched[q]
  BY DEF Fetch, tableVars, handlerVars, workerVars, TypeOK
<1>2. \A j \in S : status[j] # "absent" /\ (Fresh(j) => Waiting(j))
  BY DEF Fetch, Recoverable, Fresh, Waiting
<1>3. NewRowsAreBlank'
  BY <1>1, <1>2 DEF TriesInv, NewRowsAreBlank
<1>4. ASSUME NEW j \in Jobs, Fresh(j)' PROVE Knows(j)'
  <2>1. Fresh(j) /\ Knows(j)
    BY <1>1, <1>4 DEF Fresh, TriesInv
  <2>2. InOrder(j)' /\ (OpenRow(j) <=> OpenRow(j)')
    BY <1>1, <2>1 DEF Knows, InOrder, OpenRow
  <2>3. WorkersKnow(j)'
    BY <1>1, <2>1 DEF Knows, WorkersKnow, Number
  <2>4. RowKnows(j)'
    BY <1>1, <2>1, <2>2 DEF Knows, RowKnows, Waiting
  <2>5. CopiesKnow(j)'
    <3> SUFFICES ASSUME NEW it \in Item, Copy(j, it)'
                 PROVE  it.number = Len(attempts[j]) /\ OpenRow(j)
      BY <1>1, <2>2 DEF CopiesKnow
    <3>1. CASE Copy(j, it)
      BY <2>1, <3>1 DEF Knows, CopiesKnow
    <3>2. CASE ~Copy(j, it)
      <4>1. it \in fetched'[p] /\ it.job = j
        BY <1>1, <3>2 DEF Copy
      <4>2. PICK k \in S : it = Snapshot(k)
        BY <1>1, <4>1
      <4>3. k = j /\ it.number = attemptCount[j]
        BY <4>1, <4>2 DEF Snapshot, CountOn, CountInv
      <4> QED BY <1>2, <2>1, <4>3 DEF Knows, RowKnows
    <3> QED BY <3>1, <3>2
  <2> QED BY <2>2, <2>3, <2>4, <2>5 DEF Knows
<1> QED BY <1>3, <1>4 DEF TriesInv

(* A handler queues nothing of a fresh job, and a loop passes on what it has*)
LEMMA TriesQueue ==
  ASSUME TypeOK, HoldInv, TriesInv,
         \/ \E j \in Jobs : HandlerStep(j)
         \/ \E p \in Procs : \E it \in fetched[p] : EnqueueFetched(p, it)
  PROVE  TriesInv'
<1>1. UNCHANGED <<status, attemptCount, attempts, old, host, pc, item, result>>
  BY DEF HandlerStep, Enqueue, LogQueued, LogReplayed, EnqueueFetched, rowVars,
         tableVars, workerVars, handlerVars
<1>2. ASSUME NEW j \in Jobs, Fresh(j), NEW it \in Item, Copy(j, it)'
      PROVE  Copy(j, it)
  <2>1. ASSUME NEW p \in Procs, NEW x \in Item, NEW f,
               queue' = [queue EXCEPT ![p] = Append(@, x)], fetched' = f,
               \A q \in Procs : f[q] \subseteq fetched[q],
               x.job # j \/ x \in fetched[p]
        PROVE  Copy(j, it)
    <3>1. /\ DOMAIN queue'[p] = 1..(Len(queue[p]) + 1)
          /\ DOMAIN queue[p] = 1..Len(queue[p])
          /\ \A i \in 1..Len(queue[p]) : queue'[p][i] = queue[p][i]
          /\ queue'[p][Len(queue[p]) + 1] = x
      BY <2>1, AppendElements DEF TypeOK
    <3>2. \A q \in Procs \ {p} : queue'[q] = queue[q]
      BY <2>1 DEF TypeOK
    <3>3. Len(queue[p]) \in Nat
      BY DEF TypeOK
    <3>4. \A i \in DOMAIN queue'[p] :
            \/ i \in DOMAIN queue[p] /\ queue'[p][i] = queue[p][i]
            \/ queue'[p][i] = x
      BY <3>1, <3>3
    <3> QED BY <1>1, <1>2, <2>1, <3>2, <3>4 DEF Copy
  <2>2. ASSUME NEW k \in Jobs, Enqueue(k) PROVE Copy(j, it)
    <3>1. CASE QueuesLocally(host[k])
      <4>1. k # j /\ host[k] \in Procs
        BY <1>2, <3>1, DeliveryAssumption DEF QueuesLocally, Fresh, DeliveryAssumption
      <4> DEFINE x == [job |-> k, number |-> 0,
                       keyed |-> handler[k] = "replay" /\ keyed[k]]
      <4>2. x \in Item /\ x.job = k
        BY DEF Item, TypeOK
      <4>3. queue' = [queue EXCEPT ![host[k]] = Append(@, x)] /\ fetched' = fetched
        BY <2>2, <3>1 DEF Enqueue
      <4> HIDE DEF x
      <4> QED BY <2>1, <4>1, <4>2, <4>3
    <3>2. CASE ~QueuesLocally(host[k])
      BY <1>1, <1>2, <2>2, <3>2 DEF Enqueue, Copy
    <3> QED BY <3>1, <3>2
  <2>3. ASSUME NEW k \in Jobs, LogQueued(k) \/ LogReplayed(k) PROVE Copy(j, it)
    BY <1>1, <1>2, <2>3 DEF LogQueued, LogReplayed, procVars, Copy
  <2>4. ASSUME NEW p \in Procs, NEW x \in fetched[p], EnqueueFetched(p, x)
        PROVE  Copy(j, it)
    <3>1. /\ x \in Item
          /\ fetched' = [fetched EXCEPT ![p] = @ \ {x}]
          /\ \A q \in Procs : fetched'[q] \subseteq fetched[q]
          /\ queue' = [queue EXCEPT ![p] = Append(@, x)]
      BY <2>4 DEF EnqueueFetched, TypeOK
    <3> QED BY <2>1, <3>1
  <2> QED BY <2>2, <2>3, <2>4 DEF HandlerStep
<1>3. \A j \in Jobs : Fresh(j)' => Keeps(j)
  BY <1>1, <1>2 DEF Keeps, Fresh, Waiting
<1>4. BlankStays
  BY <1>1 DEF BlankStays
<1> QED BY <1>3, <1>4, KeepsTries

-----------------------------------------------------------------------------
(* Workers *)

LEMMA TriesTakeJob ==
  ASSUME TypeOK, TriesInv, NEW w \in Workers, TakeJob(w)
  PROVE  TriesInv'
<1> DEFINE p == HomeOf[w]
<1>1. /\ Unqueue(w)
      /\ UNCHANGED <<status, attemptCount, attempts, old, host, fetched>>
  BY DEF TakeJob, rowVars, tableVars, handlerVars
<1>2. /\ p \in Procs
      /\ 1 \in DOMAIN queue[p]
      /\ Head(queue[p]) = queue[p][1]
      /\ \A q \in Procs \ {p} : queue'[q] = queue[q]
      /\ \A i \in DOMAIN queue'[p] :
           /\ i \in Nat /\ i # 0 /\ i + 1 \in DOMAIN queue[p]
           /\ queue'[p][i] = queue[p][i + 1]
  BY <1>1, UnqueueElements
<1>3. \A v \in Workers :
        \/ pc'[v] = pc[v] /\ item'[v] = item[v] /\ result'[v] = result[v]
        \/ pc'[v] = "mark" /\ item'[v] = queue[p][1]
  <2>1. CASE JobHasAttemptCount
    BY <1>2, <2>1 DEF TakeJob, TypeOK
  <2>2. CASE ~JobHasAttemptCount
    BY <2>2 DEF TakeJob, workerVars
  <2> QED BY <2>1, <2>2
<1> HIDE DEF p
<1>4. ASSUME NEW j \in Jobs, NEW it \in Item, Copy(j, it)' PROVE Copy(j, it)
  <2>1. CASE \E q \in Procs : it \in fetched'[q]
    BY <1>1, <1>4, <2>1 DEF Copy
  <2>2. CASE \E q \in Procs : \E i \in DOMAIN queue'[q] : queue'[q][i] = it
    BY <1>2, <1>4, <2>2 DEF Copy
  <2>3. CASE \E v \in Workers : /\ pc'[v] \in Holding /\ pc'[v] \notin Posted
                                /\ item'[v] = it
    BY <1>2, <1>3, <1>4, <2>3 DEF Copy
  <2> QED BY <1>4, <2>1, <2>2, <2>3 DEF Copy
<1>5. \A j \in Jobs : Fresh(j)' => Keeps(j)
  BY <1>1, <1>3, <1>4 DEF Keeps, Fresh, Waiting, Posted
<1>6. BlankStays
  BY <1>1 DEF BlankStays
<1> QED BY <1>5, <1>6, KeepsTries

LEMMA WorkerStepTries ==
  ASSUME TypeOK, NEW w \in Workers, WorkerStep(w), ~TakeJob(w)
  PROVE  /\ \A j \in Jobs : j # item[w].job => attemptCount'[j] = attemptCount[j]
         /\ \A v \in Workers : v # w => result'[v] = result[v]
         /\ pc'[w] \in Holding /\ pc'[w] \notin Posted => pc[w] \notin Posted
         /\ pc'[w] \in Posted =>
              /\ result'[w] = result[w]
              /\ pc[w] \in Posted \/ RecordAttempt(w)
         /\ RecordAttempt(w) \/ UNCHANGED attempts
         /\ \/ Settle(w)
            \/ status'[item[w].job] \in {"delivering", "idempotency_blocked"}
            \/ UNCHANGED <<status, attemptCount>>
<1> USE DEF rowVars, tableVars, handlerVars, procVars, workerVars, Holding,
            Posted
<1>1. item[w] \in Item /\ pc[w] # "idle" => item[w].job \in Jobs
  BY DEF Item
<1> USE <1>1 DEF TypeOK
<1>2. CASE MarkDelivering(w) \/ Touch(w)
  BY <1>2 DEF MarkDelivering, Touch, Goto
<1>3. CASE LogDelivering(w)
  BY <1>3 DEF LogDelivering, Goto
<1>4. CASE ClaimGranted(w) \/ ClaimRefused(w)
  BY <1>4 DEF ClaimGranted, ClaimRefused, Goto
<1>5. CASE BlockEvent(w)
  BY <1>5 DEF BlockEvent, Goto
<1>6. CASE BlockJob(w)
  BY <1>6 DEF BlockJob, Release
<1>7. CASE \E o \in Outcomes : Post(w, o)
  BY <1>7 DEF Post
<1>8. CASE RecordAttempt(w)
  BY <1>8 DEF RecordAttempt, Goto
<1>9. CASE LogAttempted(w) \/ LogOutcome(w)
  BY <1>9 DEF LogAttempted, LogOutcome, Goto
<1>10. CASE Settle(w)
  <2> DEFINE final == FinalStatus(result[w], Number(w))
  <2>1. AfterSettle(final) \in {"failEvent", "logFinal"}
    BY DEF AfterSettle
  <2> HIDE DEF final
  <2> QED BY <1>10, <2>1 DEF Settle, Goto, final
<1>11. CASE FailEvent(w)
  BY <1>11 DEF FailEvent, Goto
<1>12. CASE LogFinal(w)
  BY <1>12 DEF LogFinal, Release
<1> QED BY <1>2, <1>3, <1>4, <1>5, <1>6, <1>7, <1>8, <1>9, <1>10, <1>11, <1>12
        DEF WorkerStep

LEMMA FinalStatusOf ==
  ASSUME NEW o \in Outcomes, NEW n \in Nat
  PROVE  \/ o = "delivered" /\ FinalStatus(o, n) = "delivered"
         \/ o = "retryable" /\ n < MaxAttempts /\ FinalStatus(o, n) = "retrying"
         \/ /\ o = "permanent" \/ (o = "retryable" /\ ~(n < MaxAttempts))
            /\ FinalStatus(o, n) = "dead_lettered"
<1>1. CASE o = "delivered"
  BY <1>1 DEF FinalStatus
<1>2. CASE o = "permanent"
  BY <1>2 DEF FinalStatus
<1>3. CASE o = "retryable" /\ n < MaxAttempts
  BY <1>3 DEF FinalStatus
<1>4. CASE o = "retryable" /\ ~(n < MaxAttempts)
  BY <1>4 DEF FinalStatus
<1> QED BY <1>1, <1>2, <1>3, <1>4 DEF Outcomes

(* The one worker that has a fresh job records the next attempt.            *)
LEMMA TriesRecord ==
  ASSUME TypeOK, HoldInv, NEW w \in Workers, RecordAttempt(w),
         NEW j \in Jobs, j = item[w].job, Fresh(j), Knows(j)
  PROVE  /\ item[w].number = Len(attempts[j]) /\ OpenRow(j)
         /\ Knows(j)'
<1> DEFINE a == [number |-> Number(w), outcome |-> result[w]]
<1>1. /\ pc[w] = "record" /\ item[w] \in Item /\ result[w] \in Outcomes
      /\ attempts[j] \in Seq(Attempt) /\ Len(attempts[j]) \in Nat
      /\ attempts'[j] = Append(attempts[j], a)
      /\ UNCHANGED <<status, attemptCount, queue, fetched, item, result, old, host>>
      /\ \A v \in Workers : pc'[v] = IF v = w THEN "logAttempted" ELSE pc[v]
  BY DEF RecordAttempt, Goto, TypeOK, rowVars, procVars, handlerVars
<1>2. InWorker(w, j)
  BY <1>1 DEF InWorker, Holding
<1>3. OnlyOne(j) /\ status[j] = "delivering"
  BY <1>2 DEF HoldInv, FreshJobHeldOnce, FreshHeldIsDelivering, OnlyOne, Held
<1>4. /\ \A p \in Procs : ~InLoop(p, j) /\ ~InQueue(p, j)
      /\ \A v \in Workers : v # w => ~InWorker(v, j)
  BY <1>2, <1>3 DEF OnlyOne, OneStage, OneCopyInWorkers
<1>5. Copy(j, item[w])
  BY <1>1 DEF Copy, Holding, Posted
<1>6. item[w].number = Len(attempts[j]) /\ OpenRow(j)
  BY <1>1, <1>5 DEF Knows, CopiesKnow
<1>7. Number(w) = Len(attempts[j]) + 1
  BY <1>6 DEF Number
<1>8. a \in Attempt
  BY <1>1, <1>7 DEF Attempt
<1>9. /\ Len(attempts'[j]) = Len(attempts[j]) + 1
      /\ DOMAIN attempts[j] = 1..Len(attempts[j])
      /\ DOMAIN attempts'[j] = 1..(Len(attempts[j]) + 1)
      /\ \A i \in 1..Len(attempts[j]) : attempts'[j][i] = attempts[j][i]
      /\ attempts'[j][Len(attempts[j]) + 1] = a
  <2> HIDE DEF a
  <2>1. Len(Append(attempts[j], a)) = Len(attempts[j]) + 1
    BY <1>1, <1>8
  <2> QED BY <1>1, <1>8, <2>1, AppendElements
<1>10. InOrder(j)'
  <2>1. Len(attempts'[j]) <= MaxAttempts
    <3>1. Len(attempts[j]) < MaxAttempts
      BY <1>6 DEF OpenRow
    <3>2. MaxAttempts \in Nat /\ Len(attempts[j]) \in Nat
      BY <1>1, DeliveryAssumption DEF DeliveryAssumption
    <3> QED BY <1>9, <3>1, <3>2
  <2>2. ASSUME NEW i \in DOMAIN attempts'[j]
        PROVE  /\ attempts'[j][i].number = i
               /\ i < Len(attempts'[j]) => attempts'[j][i].outcome = "retryable"
    <3>1. CASE i \in DOMAIN attempts[j]
      BY <1>6, <1>9, <3>1 DEF Knows, InOrder, OpenRow
    <3>2. CASE i = Len(attempts[j]) + 1
      BY <1>1, <1>7, <1>9, <3>2
    <3> QED BY <1>1, <1>9, <3>1, <3>2
  <2> QED BY <2>1, <2>2 DEF InOrder
<1>11. RowKnows(j)'
  BY <1>1, <1>3 DEF RowKnows, Waiting
<1>12. CopiesKnow(j)'
  <2>1. \A it \in Item : ~Copy(j, it)'
    BY <1>1, <1>4 DEF Copy, InLoop, InQueue, InWorker, Posted
  <2> QED BY <2>1 DEF CopiesKnow
<1>13. WorkersKnow(j)'
  <2> SUFFICES ASSUME NEW v \in Workers, pc'[v] \in Posted, item'[v].job = j
               PROVE  /\ Number(v)' = Len(attempts'[j])
                      /\ attempts'[j][Len(attempts'[j])].outcome = result'[v]
    BY DEF WorkersKnow
  <2>1. v = w
    BY <1>1, <1>4 DEF InWorker, Holding
  <2>2. Number(v)' = Number(w)
    BY <1>1, <2>1 DEF Number
  <2> QED BY <1>1, <1>7, <1>9, <2>1, <2>2
<1> QED BY <1>6, <1>10, <1>11, <1>12, <1>13 DEF Knows

(* A row goes back to "retrying" only when another attempt is allowed.      *)
LEMMA RetryingIsOpen ==
  ASSUME TypeOK, NEW w \in Workers, Settle(w), NEW j \in Jobs,
         j = item[w].job, Knows(j), status'[j] = "retrying"
  PROVE  OpenRow(j) /\ attemptCount'[j] = Len(attempts[j]) /\ attempts[j] # <<>>
<1>1. /\ pc[w] = "settle" /\ item[w] \in Item /\ result[w] \in Outcomes
      /\ status'[j] = FinalStatus(result[w], Number(w))
      /\ attemptCount'[j] = Number(w)
  BY DEF Settle, TypeOK
<1>2. Number(w) \in Nat /\ Number(w) # 0
  BY <1>1 DEF Number, Item
<1>3. result[w] = "retryable" /\ Number(w) < MaxAttempts
  BY <1>1, <1>2, FinalStatusOf
<1>4. /\ Number(w) = Len(attempts[j])
      /\ attempts[j][Len(attempts[j])].outcome = result[w]
  BY <1>1 DEF Knows, WorkersKnow, Posted
<1>5. DOMAIN attempts[j] = 1..Len(attempts[j])
  BY DEF TypeOK
<1>6. \A i \in DOMAIN attempts[j] : attempts[j][i].outcome = "retryable"
  BY <1>2, <1>3, <1>4, <1>5 DEF Knows, InOrder
<1>7. attempts[j] # <<>>
  BY <1>2, <1>4
<1> QED BY <1>1, <1>3, <1>4, <1>6, <1>7 DEF OpenRow

LEMMA TriesWorkerStep ==
  ASSUME TypeOK, HoldInv, TriesInv, NEW w \in Workers, WorkerStep(w), ~TakeJob(w)
  PROVE  TriesInv'
<1>0. PICK k \in Jobs : k = item[w].job
  BY WorkerStepFrame
<1>1. /\ pc[w] # "idle"
      /\ UNCHANGED <<old, host, queue, fetched>>
      /\ \A j \in Jobs : j # k => /\ status'[j] = status[j]
                                  /\ attempts'[j] = attempts[j]
                                  /\ attemptCount'[j] = attemptCount[j]
      /\ \A v \in Workers : v # w => /\ pc'[v] = pc[v] /\ item'[v] = item[v]
                                     /\ result'[v] = result[v]
      /\ pc'[w] # "idle" => item'[w] = item[w]
      /\ pc'[w] \in Holding => pc[w] \in Holding
      /\ pc'[w] \in Holding /\ pc'[w] \notin Posted => pc[w] \notin Posted
      /\ pc'[w] \in Posted => /\ result'[w] = result[w]
                              /\ pc[w] \in Posted \/ RecordAttempt(w)
      /\ RecordAttempt(w) \/ UNCHANGED attempts
      /\ \/ Settle(w)
         \/ status'[k] \in {"delivering", "idempotency_blocked"}
         \/ UNCHANGED <<status, attemptCount>>
      /\ status'[k] # "absent" \/ UNCHANGED status
  BY <1>0, WorkerStepFrame, WorkerStepTries DEF handlerVars, procVars
<1>2. status[k] # "absent"
  BY <1>0, <1>1 DEF HoldInv, RowsExist
<1>3. NewRowsAreBlank'
  BY <1>1, <1>2 DEF TriesInv, NewRowsAreBlank
<1>4. LoseOnly /\ \A v \in Workers : pc'[v] \in Holding /\ pc'[v] \notin Posted
                      => pc[v] \notin Posted
  BY <1>1 DEF LoseOnly, Holding, Posted
<1>5. \A j \in Jobs, it \in Item : Copy(j, it)' => Copy(j, it)
  BY <1>4, LosesCopies
<1>6. ASSUME NEW j \in Jobs, Fresh(j)' PROVE Knows(j)'
  <2>1. Fresh(j) /\ Knows(j)
    BY <1>1, <1>6 DEF Fresh, TriesInv
  <2>2. CASE RecordAttempt(w) /\ j = k
    BY <1>0, <2>1, <2>2, TriesRecord
  <2>3. CASE Settle(w) /\ j = k /\ status'[j] = "retrying"
    <3>1. OpenRow(j) /\ attemptCount'[j] = Len(attempts[j])
      BY <1>0, <2>1, <2>3, RetryingIsOpen
    <3>2. UNCHANGED attempts /\ ~RecordAttempt(w)
      BY <2>3 DEF Settle, tableVars, RecordAttempt
    <3>3. InOrder(j)' /\ RowKnows(j)'
      BY <2>1, <3>1, <3>2 DEF Knows, InOrder, RowKnows, OpenRow
    <3>4. CopiesKnow(j)'
      BY <1>5, <2>1, <3>1, <3>2 DEF Knows, CopiesKnow, OpenRow
    <3>5. WorkersKnow(j)'
      BY <1>1, <2>1, <3>2 DEF Knows, WorkersKnow, Number, Posted
    <3> QED BY <3>3, <3>4, <3>5 DEF Knows
  <2>4. CASE /\ ~(RecordAttempt(w) /\ j = k)
             /\ ~(Settle(w) /\ j = k /\ status'[j] = "retrying")
    <3>1. attempts'[j] = attempts[j]
      BY <1>1, <2>4
    <3>2. Waiting(j)' => Waiting(j) /\ attemptCount'[j] = attemptCount[j]
      <4>1. CASE Settle(w) /\ j = k
        <5>1. status'[j] = FinalStatus(result[w], Number(w))
          BY <1>0, <4>1 DEF Settle, TypeOK
        <5>2. status'[j] # "queued"
          BY <5>1 DEF FinalStatus
        <5> QED BY <2>4, <4>1, <5>2 DEF Waiting
      <4> QED BY <1>1, <4>1 DEF Waiting
    <3>3. \A v \in Workers : pc'[v] \in Posted /\ item'[v].job = j =>
            pc[v] \in Posted /\ item'[v] = item[v] /\ result'[v] = result[v]
      BY <1>0, <1>1, <2>4 DEF Posted
    <3>4. Keeps(j)
      BY <1>5, <2>1, <3>1, <3>2, <3>3 DEF Keeps
    <3> QED BY <2>1, <3>4, KeepsKnows
  <2> QED BY <2>2, <2>3, <2>4
<1> QED BY <1>3, <1>6 DEF TriesInv

-----------------------------------------------------------------------------
(* Time and faults *)

Quiet ==
  /\ LoseOnly
  /\ UNCHANGED <<status, attemptCount, attempts, host>>
  /\ \A j \in Jobs : old'[j] = old[j] \/ old'[j] = TRUE
  /\ \A w \in Workers : pc'[w] # "idle" =>
       pc'[w] = pc[w] /\ item'[w] = item[w] /\ result'[w] = result[w]

LEMMA TriesQuiet ==
  ASSUME TriesInv, Quiet
  PROVE  TriesInv'
<1>1. \A j \in Jobs : Fresh(j)' => Fresh(j)
  BY DEF Quiet, Fresh
<1>2. LoseOnly /\ \A v \in Workers : pc'[v] \in Holding /\ pc'[v] \notin Posted
                      => pc[v] \notin Posted
  BY DEF Quiet, Holding, Posted
<1>3. \A j \in Jobs, it \in Item : Copy(j, it)' => Copy(j, it)
  BY <1>2, LosesCopies
<1>4. \A j \in Jobs : Fresh(j)' => Keeps(j)
  BY <1>1, <1>3 DEF Keeps, Quiet, Waiting, Posted
<1>5. BlankStays
  BY DEF Quiet, BlankStays
<1> QED BY <1>4, <1>5, KeepsTries

LEMMA RestartIsQuiet == ASSUME NEW h, Restart(h) PROVE Quiet
<1> USE DEF rowVars, tableVars
<1>1. /\ \A p \in Procs : /\ fetched'[p] \in {{}, fetched[p]}
                          /\ queue'[p] \in {<<>>, queue[p]}
      /\ \A v \in Workers : pc'[v] # "idle" =>
           pc'[v] = pc[v] /\ item'[v] = item[v] /\ result'[v] = result[v]
  BY DEF Restart
<1>2. LoseOnly
  BY <1>1 DEF LoseOnly, Holding, Posted
<1> QED BY <1>1, <1>2 DEF Quiet, Restart

LEMMA FaultIsQuiet ==
  ASSUME TypeOK,
         \/ \E w \in Workers : WorkerFault(w)
         \/ \E h \in Procs \cup Hosts : Crash(h)
         \/ \E p \in Procs : PollFault(p)
         \/ \E j \in Jobs : ReplayCheck(j) \/ BackoffElapses(j) \/ JobAges(j)
         \/ UNCHANGED vars
  PROVE  Quiet
<1> USE DEF rowVars, tableVars, handlerVars, procVars, workerVars
<1>1. ASSUME NEW w \in Workers, WorkerFault(w) PROVE Quiet
  <2>1. /\ UNCHANGED <<status, attemptCount, attempts, old, host, queue, fetched>>
        /\ \A v \in Workers : pc'[v] # "idle" =>
             pc'[v] = pc[v] /\ item'[v] = item[v] /\ result'[v] = result[v]
    BY <1>1 DEF WorkerFault, Release, TypeOK
  <2> QED BY <2>1 DEF Quiet, LoseOnly, Holding, Posted
<1>2. ASSUME NEW p \in Procs, PollFault(p) PROVE Quiet
  <2>1. CASE p \in Hosts
    BY <1>2, <2>1 DEF PollFault, Quiet, LoseOnly
  <2>2. CASE p \notin Hosts
    BY <1>2, <2>2, RestartIsQuiet DEF PollFault
  <2> QED BY <2>1, <2>2
<1>3. ASSUME NEW j \in Jobs, ReplayCheck(j) \/ BackoffElapses(j) \/ JobAges(j)
      PROVE  Quiet
  BY <1>3 DEF ReplayCheck, BackoffElapses, JobAges, Quiet, LoseOnly, TypeOK
<1>4. CASE UNCHANGED vars
  BY <1>4 DEF vars, Quiet, LoseOnly
<1> QED BY <1>1, <1>2, <1>3, <1>4, RestartIsQuiet DEF Crash

LEMMA TriesStep ==
  TypeOK /\ CountInv /\ HoldInv /\ TriesInv /\ [Next]_vars => TriesInv'
<1> SUFFICES ASSUME TypeOK, CountInv, HoldInv, TriesInv, [Next]_vars PROVE TriesInv'
  OBVIOUS
<1> USE DEF tableVars, procVars, workerVars
<1>1. ASSUME NEW r \in Jobs, NEW h \in Hosts, NEW k \in BOOLEAN,
             NEW kind \in {"webhook", "triage"}, InsertJob(r, h, k, kind)
      PROVE  TriesInv'
  <2>1. Inserts(r) /\ r \notin replaying /\ UNCHANGED <<attemptCount, result>>
    BY <1>1 DEF InsertJob, Inserts, TypeOK, HoldInv, RowsExist
  <2> QED BY <2>1, TriesInsert
<1>2. ASSUME NEW j \in Jobs, NEW r \in Jobs, NEW h \in Hosts, ReplayInsert(j, r, h)
      PROVE  TriesInv'
  <2>1. Inserts(r) /\ r \notin replaying /\ UNCHANGED <<attemptCount, result>>
    BY <1>2 DEF ReplayInsert, Inserts, TypeOK, HoldInv, RowsExist
  <2> QED BY <2>1, TriesInsert
<1>3. ASSUME \/ \E j \in Jobs : HandlerStep(j)
             \/ \E p \in Procs : \E it \in fetched[p] : EnqueueFetched(p, it)
      PROVE  TriesInv'
  BY <1>3, TriesQueue
<1>4. ASSUME NEW w \in Workers, WorkerStep(w) PROVE TriesInv'
  BY <1>4, TriesTakeJob, TriesWorkerStep
<1>5. ASSUME \/ \E w \in Workers : WorkerFault(w)
             \/ \E h \in Procs \cup Hosts : Crash(h)
             \/ \E p \in Procs : PollFault(p)
             \/ \E j \in Jobs : ReplayCheck(j) \/ BackoffElapses(j) \/ JobAges(j)
             \/ UNCHANGED vars
      PROVE  TriesInv'
  BY <1>5, FaultIsQuiet, TriesQuiet
<1> QED BY <1>1, <1>2, <1>3, <1>4, <1>5, TriesFetch DEF Next

LEMMA Invariants == Spec => [](TypeOK /\ CountInv /\ HoldInv /\ TriesInv)
<1>1. Init => HoldInv
  BY DEF Init, HoldInv, RowsExist, FreshHeldIsDelivering, FreshJobHeldOnce,
         Held, InLoop, InQueue, InWorker, OneCopyInLoops, OneCopyInQueues,
         OneCopyInWorkers, OneStage, Holding, Posted, Fresh
<1>2. Init => TriesInv
  <2> SUFFICES ASSUME Init PROVE TriesInv
    OBVIOUS
  <2>1. \A j \in Jobs : ~Fresh(j)
    BY DeliveryAssumption DEF Init, Fresh
  <2>2. NewRowsAreBlank
    BY DEF Init, NewRowsAreBlank
  <2> QED BY <2>1, <2>2 DEF TriesInv
<1>3. Init => CountInv
  BY DEF Init, CountInv
<1> QED BY <1>1, <1>2, <1>3, CountStep, HoldStep, TriesStep, TypeCorrect, PTL
        DEF Spec

(* The attempts of a fresh job are numbered 1, 2, ... within the budget, and*)
(* none follows a success or a permanent failure.                           *)
THEOREM AttemptsAreInOrder == Spec => []FreshAttemptsInOrder
BY Invariants, KnowsMeansInOrder, PTL

-----------------------------------------------------------------------------
(* What makes a step one of the promise's *)

Others(S) == \A j \in Jobs \ S : StageOf(j)' = StageOf(j)

SameTries == \A j \in Jobs : TriesOf(j)' = TriesOf(j)

LEMMA IsTake ==
  ASSUME NEW S \in SUBSET Jobs, Others(S), SameTries,
         \A j \in S : StageOf(j) = "waiting" /\ StageOf(j)' = "inHand"
  PROVE  Promise!Next
<1>1. Promise!Take(S)
  BY DEF Promise!Take, Promise!Move, Others, SameTries
<1> QED BY <1>1 DEF Promise!Next

LEMMA IsAbandon ==
  ASSUME NEW S \in SUBSET Jobs, Others(S), SameTries,
         \A j \in S : StageOf(j) = "inHand" /\ StageOf(j)' = "abandoned"
  PROVE  Promise!Next
<1>1. Promise!Abandon(S)
  BY DEF Promise!Abandon, Promise!Move, Others, SameTries
<1> QED BY <1>1 DEF Promise!Next

LEMMA IsAccept ==
  ASSUME NEW j \in Jobs, Others({j}), SameTries,
         StageOf(j) = "absent", StageOf(j)' = "waiting"
  PROVE  Promise!Next
<1>1. Promise!Accept(j)
  BY DEF Promise!Accept, Promise!Move, Others, SameTries
<1> QED BY <1>1 DEF Promise!Next

LEMMA IsLeave ==
  ASSUME NEW j \in Jobs, Others({j}), \A k \in Jobs \ {j} : TriesOf(k)' = TriesOf(k),
         StageOf(j)' = "outside", TriesOf(j)' = <<>>
  PROVE  Promise!Next
<1>1. Promise!Leave(j)
  BY DEF Promise!Leave, Others
<1> QED BY <1>1 DEF Promise!Next

LEMMA IsReturn ==
  ASSUME NEW j \in Jobs, Others({j}), SameTries,
         TriesOf(j) = attempts[j], attempts[j] # <<>>, OpenRow(j),
         StageOf(j) = "inHand", StageOf(j)' = "waiting"
  PROVE  Promise!Next
<1>1. Promise!Return(j)
  BY DEF Promise!Return, Promise!Open, Promise!Move, Others, SameTries, OpenRow
<1> QED BY <1>1 DEF Promise!Next

LEMMA IsEnd ==
  ASSUME NEW j \in Jobs, NEW end \in Settled, Others({j}), SameTries,
         TriesOf(j) = attempts[j], StageOf(j) = "inHand", StageOf(j)' = end,
         end = "delivered" => /\ attempts[j] # <<>>
                              /\ attempts[j][Len(attempts[j])].outcome = "delivered",
         end = "dead_lettered" =>
           /\ attempts[j] # <<>> /\ ~OpenRow(j)
           /\ attempts[j][Len(attempts[j])].outcome # "delivered",
         end = "idempotency_blocked" => OpenRow(j)
  PROVE  Promise!Next
<1>1. Promise!Open(j) <=> OpenRow(j)
  BY DEF Promise!Open, OpenRow
<1>2. CASE end = "delivered"
  BY <1>2 DEF Promise!Next, Promise!End, Promise!Allows, Promise!LastTry,
              Promise!Move, Promise!Ends, Others, SameTries
<1>3. CASE end = "dead_lettered"
  BY <1>1, <1>3 DEF Promise!Next, Promise!End, Promise!Allows, Promise!LastTry,
              Promise!Move, Promise!Ends, Others, SameTries
<1>4. CASE end = "idempotency_blocked"
  BY <1>1, <1>4 DEF Promise!Next, Promise!End, Promise!Allows, Promise!LastTry,
              Promise!Move, Promise!Ends, Others, SameTries
<1> QED BY <1>2, <1>3, <1>4 DEF Settled

LEMMA IsTry ==
  ASSUME NEW j \in Jobs, NEW o \in Outcomes, Others({}),
         \A k \in Jobs \ {j} : TriesOf(k)' = TriesOf(k),
         StageOf(j) = "inHand", TriesOf(j) = attempts[j], OpenRow(j),
         TriesOf(j)' = Append(attempts[j],
                         [number |-> Len(attempts[j]) + 1, outcome |-> o])
  PROVE  Promise!Next
<1>1. Promise!Try(j, o)
  BY DEF Promise!Try, Promise!Open, OpenRow, Others
<1> QED BY <1>1 DEF Promise!Next, Outcomes

-----------------------------------------------------------------------------
(* What a step of the pipeline is for the promise *)

(* The row, the attempts and the hands of j are as they were.               *)
SameJob(j) ==
  /\ Fresh(j)' <=> Fresh(j)
  /\ status'[j] = status[j]
  /\ attempts'[j] = attempts[j]
  /\ Held(j)' <=> Held(j)

LEMMA SameJobSameStage ==
  ASSUME NEW j \in Jobs, SameJob(j)
  PROVE  StageOf(j)' = StageOf(j) /\ TriesOf(j)' = TriesOf(j)
BY DEF SameJob, StageOf, TriesOf

(* No row of a fresh job is written, and copies are at most lost.           *)
Loses ==
  \A j \in Jobs :
    /\ Fresh(j)' <=> Fresh(j)
    /\ status'[j] = "absent" <=> status[j] = "absent"
    /\ Fresh(j) => /\ status'[j] = status[j] /\ attempts'[j] = attempts[j]
                   /\ Held(j)' => Held(j)

LEMMA LossStep ==
  ASSUME HoldInv, Loses
  PROVE  Promise!Next
<1> DEFINE S == {j \in Jobs : StageOf(j) = "inHand" /\ ~Held(j)'}
<1>1. SameTries
  BY DEF SameTries, TriesOf, Loses
<1>2. ASSUME NEW j \in S PROVE StageOf(j) = "inHand" /\ StageOf(j)' = "abandoned"
  <2>1. Fresh(j) /\ Held(j)
    BY DEF StageOf, Settled
  <2>2. status[j] = "delivering"
    BY <2>1 DEF HoldInv, FreshHeldIsDelivering
  <2>3. Fresh(j)' /\ status'[j] = "delivering" /\ ~Held(j)'
    BY <2>1, <2>2 DEF Loses
  <2> QED BY <2>3 DEF StageOf, Settled
<1>3. ASSUME NEW j \in Jobs \ S PROVE StageOf(j)' = StageOf(j)
  <2>1. CASE ~Fresh(j) \/ status[j] = "absent"
    BY <2>1 DEF StageOf, Loses
  <2>2. CASE Fresh(j) /\ status[j] # "absent"
    <3>1. Fresh(j)' /\ status'[j] = status[j] /\ (Held(j)' => Held(j))
      BY <2>2 DEF Loses
    <3>2. CASE StageOf(j) = "inHand"
      <4>1. Held(j)'
        BY <1>3, <3>2
      <4> QED BY <2>2, <3>1, <3>2, <4>1 DEF StageOf
    <3>3. CASE StageOf(j) # "inHand"
      <4>1. status[j] \in Settled \/ ~Held(j)
        BY <2>2, <3>3 DEF StageOf
      <4> QED BY <2>2, <3>1, <4>1 DEF StageOf
    <3> QED BY <3>2, <3>3
  <2> QED BY <2>1, <2>2
<1>4. Others(S)
  BY <1>3 DEF Others
<1> HIDE DEF S
<1>5. S \in SUBSET Jobs
  BY DEF S
<1> QED BY <1>1, <1>2, <1>4, <1>5, IsAbandon

LEMMA SamePlacesHeld ==
  ASSUME UNCHANGED <<queue, fetched, pc, item>>, NEW j \in Jobs
  PROVE  Held(j)' <=> Held(j)
BY DEF Held, InLoop, InQueue, InWorker

LEMMA InsertKeeps ==
  ASSUME HoldInv, NEW r \in Jobs, Inserts(r)
  PROVE  Promise!Next
<1>1. \A j \in Jobs : Held(j)' <=> Held(j)
  BY SamePlacesHeld DEF Inserts
<1>2. ~Held(r) /\ attempts[r] = <<>>
  BY DEF Inserts, HoldInv, RowsExist
<1>3. \A j \in Jobs \ {r} : SameJob(j)
  BY <1>1 DEF SameJob, Inserts, Fresh
<1>4. \A j \in Jobs \ {r} : StageOf(j)' = StageOf(j) /\ TriesOf(j)' = TriesOf(j)
  BY <1>3, SameJobSameStage
<1>5. Others({r})
  BY <1>4 DEF Others
<1>6. TriesOf(r) = <<>> /\ TriesOf(r)' = <<>>
  BY <1>2 DEF TriesOf, Inserts
<1>7. StageOf(r) = "absent"
  BY DEF StageOf, Inserts
<1>8. CASE Fresh(r)'
  <2>1. StageOf(r)' = "waiting"
    BY <1>1, <1>2, <1>8 DEF StageOf, Inserts, Settled
  <2>2. SameTries
    BY <1>4, <1>6 DEF SameTries
  <2> QED BY <1>5, <1>7, <2>1, <2>2, IsAccept
<1>9. CASE ~Fresh(r)'
  <2>1. StageOf(r)' = "outside"
    BY <1>9 DEF StageOf, Inserts
  <2> QED BY <1>4, <1>5, <1>6, <2>1, IsLeave
<1> QED BY <1>8, <1>9

LEMMA FetchKeeps ==
  ASSUME TypeOK, HoldInv, NEW p \in Procs, NEW S \in SUBSET Jobs, Fetch(p, S)
  PROVE  Promise!Next
<1> DEFINE T == {j \in S : Fresh(j)}
<1>1. /\ UNCHANGED <<attempts, old, host, queue, pc, item>>
      /\ \A j \in Jobs : status'[j] = IF j \in S THEN "delivering" ELSE status[j]
      /\ fetched[p] = {}
      /\ fetched'[p] = {Snapshot(k) : k \in S}
      /\ \A q \in Procs \ {p} : fetched'[q] = fetched[q]
  BY DEF Fetch, tableVars, handlerVars, workerVars, TypeOK
<1>2. \A j \in Jobs : Fresh(j)' <=> Fresh(j)
  BY <1>1 DEF Fresh
<1>3. SameTries
  BY <1>1, <1>2 DEF SameTries, TriesOf
<1>4. ASSUME NEW j \in T PROVE StageOf(j) = "waiting" /\ StageOf(j)' = "inHand"
  <2>1. Fresh(j) /\ status[j] \in {"queued", "retrying"}
    BY DEF Fetch, Recoverable, Fresh
  <2>2. ~Held(j)
    BY <2>1 DEF HoldInv, FreshHeldIsDelivering
  <2>3. Snapshot(j) \in fetched'[p] /\ Snapshot(j).job = j
    BY <1>1 DEF Snapshot
  <2>4. InLoop(p, j)'
    BY <2>3 DEF InLoop
  <2>5. Held(j)'
    BY <2>4 DEF Held
  <2>6. Fresh(j)' /\ status'[j] = "delivering"
    BY <1>1, <1>2, <2>1
  <2> QED BY <2>1, <2>2, <2>5, <2>6 DEF StageOf, Settled
<1>5. ASSUME NEW j \in Jobs \ T PROVE StageOf(j)' = StageOf(j)
  <2>1. CASE j \in S
    <3>1. status[j] # "absent" /\ ~Fresh(j)
      BY <1>5, <2>1 DEF Fetch, Recoverable
    <3> QED BY <1>1, <1>2, <2>1, <3>1 DEF StageOf
  <2>2. CASE j \notin S
    <3>1. \A q \in Procs : InLoop(q, j)' <=> InLoop(q, j)
      BY <1>1, <2>2 DEF InLoop, Snapshot
    <3>2. Held(j)' <=> Held(j)
      BY <1>1, <3>1 DEF Held, InQueue, InWorker
    <3>3. SameJob(j)
      BY <1>1, <1>2, <2>2, <3>2 DEF SameJob
    <3> QED BY <3>3, SameJobSameStage
  <2> QED BY <2>1, <2>2
<1>6. Others(T) /\ T \in SUBSET Jobs
  BY <1>5 DEF Others
<1> HIDE DEF T
<1> QED BY <1>3, <1>4, <1>6, IsTake

LEMMA AgesKeeps ==
  ASSUME TypeOK, NEW j \in Jobs, JobAges(j)
  PROVE  Promise!Next
<1>1. /\ UNCHANGED <<status, attempts, host, queue, fetched, pc, item>>
      /\ status[j] # "absent"
      /\ \A k \in Jobs : old'[k] = IF k = j THEN TRUE ELSE old[k]
  BY DEF JobAges, tableVars, handlerVars, procVars, workerVars, TypeOK
<1>2. \A k \in Jobs \ {j} : SameJob(k)
  BY <1>1, SamePlacesHeld DEF SameJob, Fresh
<1>3. \A k \in Jobs \ {j} : StageOf(k)' = StageOf(k) /\ TriesOf(k)' = TriesOf(k)
  BY <1>2, SameJobSameStage
<1>4. Others({j})
  BY <1>3 DEF Others
<1>5. ~Fresh(j)'
  BY <1>1 DEF Fresh
<1>6. StageOf(j)' = "outside" /\ TriesOf(j)' = <<>>
  BY <1>1, <1>5 DEF StageOf, TriesOf
<1> QED BY <1>3, <1>4, <1>6, IsLeave

LEMMA WorkerKeepsOthers ==
  ASSUME TypeOK, NEW w \in Workers, WorkerStep(w), ~TakeJob(w),
         NEW k \in Jobs, k # item[w].job
  PROVE  SameJob(k)
<1>1. /\ pc[w] # "idle"
      /\ UNCHANGED <<old, host, queue, fetched>>
      /\ status'[k] = status[k] /\ attempts'[k] = attempts[k]
      /\ \A v \in Workers : v # w => pc'[v] = pc[v] /\ item'[v] = item[v]
      /\ pc'[w] # "idle" => item'[w] = item[w]
  BY WorkerStepFrame DEF handlerVars, procVars
<1>2. \A v \in Workers : InWorker(v, k)' <=> InWorker(v, k)
  BY <1>1 DEF InWorker, Holding, Posted
<1>3. Held(k)' <=> Held(k)
  BY <1>1, <1>2 DEF Held, InLoop, InQueue
<1> QED BY <1>1, <1>3 DEF SameJob, Fresh

(* A worker that still holds a fresh job holds the only copy of it.         *)
LEMMA HolderIsAlone ==
  ASSUME TypeOK, HoldInv, NEW w \in Workers, WorkerStep(w), ~TakeJob(w),
         NEW j \in Jobs, j = item[w].job, Fresh(j), pc[w] \in Holding
  PROVE  /\ StageOf(j) = "inHand" /\ status[j] = "delivering"
         /\ Held(j)' <=> pc'[w] \in Holding
<1>1. InWorker(w, j)
  BY DEF InWorker
<1>2. OnlyOne(j) /\ Held(j) /\ status[j] = "delivering"
  BY <1>1 DEF HoldInv, FreshJobHeldOnce, FreshHeldIsDelivering, OnlyOne, Held
<1>3. StageOf(j) = "inHand"
  BY <1>2 DEF StageOf, Settled
<1>4. /\ \A p \in Procs : ~InLoop(p, j) /\ ~InQueue(p, j)
      /\ \A v \in Workers : v # w => ~InWorker(v, j)
  BY <1>1, <1>2 DEF OnlyOne, OneStage, OneCopyInWorkers
<1>5. /\ UNCHANGED <<queue, fetched>>
      /\ \A v \in Workers : v # w => pc'[v] = pc[v] /\ item'[v] = item[v]
      /\ pc'[w] # "idle" => item'[w] = item[w]
  BY WorkerStepFrame DEF procVars
<1>6. /\ \A p \in Procs : ~InLoop(p, j)' /\ ~InQueue(p, j)'
      /\ \A v \in Workers : v # w => ~InWorker(v, j)'
      /\ InWorker(w, j)' <=> pc'[w] \in Holding
  BY <1>4, <1>5 DEF InLoop, InQueue, InWorker, Holding, Posted
<1> QED BY <1>2, <1>3, <1>6 DEF Held

LEMMA RecordKeeps ==
  ASSUME TypeOK, HoldInv, TriesInv, NEW w \in Workers, RecordAttempt(w),
         NEW j \in Jobs, j = item[w].job, Fresh(j)
  PROVE  Promise!Next
<1>0. WorkerStep(w) /\ ~TakeJob(w)
  BY DEF WorkerStep, RecordAttempt, TakeJob, Unqueue
<1>1. /\ pc[w] = "record" /\ pc'[w] = "logAttempted" /\ result[w] \in Outcomes
      /\ UNCHANGED <<status, old, host>>
      /\ attempts'[j] = Append(attempts[j],
                          [number |-> Number(w), outcome |-> result[w]])
  BY DEF RecordAttempt, Goto, TypeOK, rowVars, handlerVars
<1>2. item[w].number = Len(attempts[j]) /\ OpenRow(j)
  BY TriesRecord DEF TriesInv
<1>3. StageOf(j) = "inHand" /\ status[j] = "delivering" /\ Held(j)'
  BY <1>0, <1>1, HolderIsAlone DEF Holding, Posted
<1>4. Fresh(j)'
  BY <1>1 DEF Fresh
<1>5. StageOf(j)' = "inHand"
  BY <1>1, <1>3, <1>4 DEF StageOf, Settled
<1>6. TriesOf(j) = attempts[j] /\ TriesOf(j)' = attempts'[j]
  BY <1>4 DEF TriesOf
<1>7. \A k \in Jobs \ {j} : StageOf(k)' = StageOf(k) /\ TriesOf(k)' = TriesOf(k)
  BY <1>0, WorkerKeepsOthers, SameJobSameStage
<1>8. Others({})
  BY <1>3, <1>5, <1>7 DEF Others
<1>9. attempts'[j] = Append(attempts[j],
                       [number |-> Len(attempts[j]) + 1, outcome |-> result[w]])
  BY <1>1, <1>2 DEF Number
<1> QED BY <1>1, <1>2, <1>3, <1>6, <1>7, <1>8, <1>9, IsTry

LEMMA BlockKeeps ==
  ASSUME TypeOK, HoldInv, TriesInv, NEW w \in Workers, BlockJob(w),
         NEW j \in Jobs, j = item[w].job, Fresh(j)
  PROVE  Promise!Next
<1>0. WorkerStep(w) /\ ~TakeJob(w)
  BY DEF WorkerStep, BlockJob, TakeJob, Unqueue
<1>1. /\ pc[w] = "blockJob" /\ item[w] \in Item
      /\ UNCHANGED <<attempts, old, host>>
      /\ status'[j] = "idempotency_blocked"
  BY DEF BlockJob, TypeOK, tableVars, handlerVars
<1>2. Copy(j, item[w])
  BY <1>1 DEF Copy, Holding, Posted
<1>3. OpenRow(j)
  BY <1>1, <1>2 DEF TriesInv, Knows, CopiesKnow
<1>4. StageOf(j) = "inHand"
  BY <1>0, <1>1, HolderIsAlone DEF Holding
<1>5. Fresh(j)'
  BY <1>1 DEF Fresh
<1>6. StageOf(j)' = "idempotency_blocked"
  BY <1>1, <1>5 DEF StageOf, Settled
<1>7. TriesOf(j) = attempts[j] /\ TriesOf(j)' = attempts[j]
  BY <1>1, <1>5 DEF TriesOf
<1>8. \A k \in Jobs \ {j} : StageOf(k)' = StageOf(k) /\ TriesOf(k)' = TriesOf(k)
  BY <1>0, WorkerKeepsOthers, SameJobSameStage
<1>9. Others({j}) /\ SameTries
  BY <1>7, <1>8 DEF Others, SameTries
<1>10. "idempotency_blocked" \in Settled
  BY DEF Settled
<1> QED BY <1>3, <1>4, <1>6, <1>7, <1>9, <1>10, IsEnd

LEMMA SettleKeeps ==
  ASSUME TypeOK, HoldInv, TriesInv, NEW w \in Workers, Settle(w),
         NEW j \in Jobs, j = item[w].job, Fresh(j)
  PROVE  Promise!Next
<1> DEFINE final == FinalStatus(result[w], Number(w))
<1>0. WorkerStep(w) /\ ~TakeJob(w)
  BY DEF WorkerStep, Settle, TakeJob, Unqueue
<1>1. /\ pc[w] = "settle" /\ item[w] \in Item /\ result[w] \in Outcomes
      /\ UNCHANGED <<attempts, old, host>>
      /\ status'[j] = final
  BY DEF Settle, TypeOK, tableVars, handlerVars
<1>1a. pc'[w] \in {"failEvent", "logFinal"}
  BY <1>1 DEF Settle, AfterSettle, Goto, TypeOK
<1>2. Number(w) \in Nat /\ Number(w) # 0
  BY <1>1 DEF Number, Item
<1>3. /\ Number(w) = Len(attempts[j])
      /\ attempts[j][Len(attempts[j])].outcome = result[w]
  BY <1>1 DEF TriesInv, Knows, WorkersKnow, Posted
<1>4. attempts[j] # <<>> /\ Len(attempts[j]) \in DOMAIN attempts[j]
  BY <1>2, <1>3 DEF TypeOK
<1>5. StageOf(j) = "inHand" /\ ~Held(j)'
  BY <1>0, <1>1, <1>1a, HolderIsAlone DEF Holding, Posted
<1>6. Fresh(j)'
  BY <1>1 DEF Fresh
<1>7. TriesOf(j) = attempts[j] /\ TriesOf(j)' = attempts[j]
  BY <1>1, <1>6 DEF TriesOf
<1>8. \A k \in Jobs \ {j} : StageOf(k)' = StageOf(k) /\ TriesOf(k)' = TriesOf(k)
  BY <1>0, WorkerKeepsOthers, SameJobSameStage
<1>9. Others({j}) /\ SameTries
  BY <1>7, <1>8 DEF Others, SameTries
<1>10. \/ result[w] = "delivered" /\ final = "delivered"
       \/ result[w] = "retryable" /\ Number(w) < MaxAttempts /\ final = "retrying"
       \/ /\ \/ result[w] = "permanent"
             \/ result[w] = "retryable" /\ ~(Number(w) < MaxAttempts)
          /\ final = "dead_lettered"
  BY <1>1, <1>2, FinalStatusOf
<1> HIDE DEF final
<1>11. CASE final = "delivered" /\ result[w] = "delivered"
  <2>1. StageOf(j)' = final /\ final \in Settled
    BY <1>1, <1>6, <1>11 DEF StageOf, Settled
  <2> QED BY <1>3, <1>4, <1>5, <1>7, <1>9, <1>11, <2>1, IsEnd
<1>12. CASE final = "retrying"
  <2>1. StageOf(j)' = "waiting"
    BY <1>1, <1>5, <1>6, <1>12 DEF StageOf, Settled
  <2>2. OpenRow(j)
    BY <1>1, <1>12, RetryingIsOpen DEF TriesInv
  <2> QED BY <1>4, <1>5, <1>7, <1>9, <2>1, <2>2, IsReturn
<1>13. CASE /\ final = "dead_lettered" /\ result[w] # "delivered"
            /\ \/ result[w] = "permanent"
               \/ ~(Number(w) < MaxAttempts)
  <2>1. StageOf(j)' = final /\ final \in Settled
    BY <1>1, <1>6, <1>13 DEF StageOf, Settled
  <2>2. ~OpenRow(j)
    BY <1>3, <1>4, <1>13 DEF OpenRow
  <2> QED BY <1>3, <1>4, <1>5, <1>7, <1>9, <1>13, <2>1, <2>2, IsEnd
<1> QED BY <1>10, <1>11, <1>12, <1>13

LEMMA WorkerLoses ==
  ASSUME TypeOK, HoldInv, NEW w \in Workers, WorkerStep(w), ~TakeJob(w),
         \/ ~Fresh(item[w].job)
         \/ ~RecordAttempt(w) /\ ~Settle(w) /\ ~BlockJob(w)
  PROVE  Loses
<1>1. PICK j \in Jobs : j = item[w].job
  BY WorkerStepFrame
<1>2. \A k \in Jobs \ {j} : SameJob(k)
  BY <1>1, WorkerKeepsOthers
<1>3. /\ Fresh(j)' <=> Fresh(j)
      /\ status'[j] = "absent" <=> status[j] = "absent"
  <2>1. /\ pc[w] # "idle" /\ UNCHANGED <<old, host>>
        /\ status'[j] # "absent" \/ UNCHANGED status
    BY <1>1, WorkerStepFrame DEF handlerVars
  <2>2. status[j] # "absent"
    BY <1>1, <2>1 DEF HoldInv, RowsExist
  <2> QED BY <2>1, <2>2 DEF Fresh
<1>4. ASSUME Fresh(j)
      PROVE  status'[j] = status[j] /\ attempts'[j] = attempts[j] /\ (Held(j)' => Held(j))
  <2>1. ~RecordAttempt(w) /\ ~Settle(w) /\ ~BlockJob(w)
    BY <1>1, <1>4
  <2>2. UNCHANGED attempts
    BY <2>1, WorkerStepTries
  <2>3. /\ UNCHANGED <<queue, fetched>>
        /\ \A v \in Workers : v # w => pc'[v] = pc[v] /\ item'[v] = item[v]
        /\ pc'[w] # "idle" => item'[w] = item[w]
        /\ pc'[w] \in Holding => pc[w] \in Holding
    BY WorkerStepFrame DEF procVars
  <2>4. LoseOnly
    BY <2>3 DEF LoseOnly, Holding, Posted
  <2>5. status'[j] = status[j]
    <3>1. CASE MarkDelivering(w) \/ Touch(w)
      <4>1. status'[j] = "delivering" /\ pc[w] \in Holding
        BY <1>1, <3>1 DEF MarkDelivering, Touch, Holding, Posted, TypeOK
      <4> QED BY <1>1, <1>4, <4>1, HolderIsAlone
    <3>2. CASE ~(MarkDelivering(w) \/ Touch(w))
      <4>1. UNCHANGED status
        BY <2>1, <3>2 DEF WorkerStep, rowVars, LogDelivering, ClaimGranted,
             ClaimRefused, BlockEvent, Post, LogAttempted, LogOutcome, FailEvent,
             LogFinal
      <4> QED BY <4>1
    <3> QED BY <3>1, <3>2
  <2> QED BY <2>2, <2>4, <2>5, LoseOnlyHeld
<1> QED BY <1>2, <1>3, <1>4 DEF Loses, SameJob

LEMMA TakeJobLoses ==
  ASSUME TypeOK, NEW w \in Workers, TakeJob(w)
  PROVE  Loses
<1>1. UNCHANGED <<status, attempts, old, host>>
  BY DEF TakeJob, rowVars, tableVars, handlerVars
<1> QED BY <1>1, UnqueueHeld DEF Loses, Fresh

LEMMA QueueLoses ==
  ASSUME TypeOK, HoldInv,
         \/ \E j \in Jobs : HandlerStep(j)
         \/ \E p \in Procs : \E it \in fetched[p] : EnqueueFetched(p, it)
  PROVE  Loses
<1> USE DEF rowVars, tableVars, handlerVars, procVars, workerVars
<1>1. ASSUME NEW k \in Jobs, HandlerStep(k) PROVE Loses
  <2>1. UNCHANGED <<status, attempts, old, host>>
    BY <1>1 DEF HandlerStep, Enqueue, LogQueued, LogReplayed
  <2>2. ASSUME NEW j \in Jobs, Fresh(j) PROVE Held(j)' => Held(j)
    <3>1. CASE Enqueue(k)
      <4>1. j # k \/ ~QueuesLocally(host[k])
        BY <2>2, DeliveryAssumption DEF Fresh, QueuesLocally
      <4> QED BY <3>1, <4>1, EnqueueHeld
    <3>2. CASE LogQueued(k) \/ LogReplayed(k)
      BY <3>2, SamePlacesHeld DEF LogQueued, LogReplayed
    <3> QED BY <1>1, <3>1, <3>2 DEF HandlerStep
  <2> QED BY <2>1, <2>2 DEF Loses, Fresh
<1>2. ASSUME NEW p \in Procs, NEW it \in fetched[p], EnqueueFetched(p, it)
      PROVE  Loses
  <2>1. UNCHANGED <<status, attempts, old, host>>
    BY <1>2 DEF EnqueueFetched
  <2> QED BY <1>2, <2>1, EnqueueFetchedHeld DEF Loses, Fresh
<1> QED BY <1>1, <1>2

LEMMA QuietLoses ==
  ASSUME Quiet, UNCHANGED old
  PROVE  Loses
BY LoseOnlyHeld DEF Quiet, Loses, Fresh

LEMMA FaultKeeps ==
  ASSUME TypeOK, HoldInv,
         \/ \E w \in Workers : WorkerFault(w)
         \/ \E h \in Procs \cup Hosts : Crash(h)
         \/ \E p \in Procs : PollFault(p)
         \/ \E j \in Jobs : ReplayCheck(j) \/ BackoffElapses(j)
         \/ UNCHANGED vars
  PROVE  Promise!Next
<1>1. UNCHANGED old
  BY DEF WorkerFault, Crash, Restart, PollFault, ReplayCheck, BackoffElapses,
         vars, rowVars
<1>2. Quiet
  BY FaultIsQuiet
<1> QED BY <1>1, <1>2, QuietLoses, LossStep

LEMMA WorkerKeeps ==
  ASSUME TypeOK, HoldInv, TriesInv, NEW w \in Workers, WorkerStep(w)
  PROVE  Promise!Next
<1>1. CASE TakeJob(w)
  BY <1>1, TakeJobLoses, LossStep
<1>2. CASE ~TakeJob(w) /\ (RecordAttempt(w) \/ Settle(w) \/ BlockJob(w))
  <2>1. PICK j \in Jobs : j = item[w].job
    BY <1>2, WorkerStepFrame
  <2>2. CASE Fresh(j)
    BY <1>2, <2>1, <2>2, RecordKeeps, SettleKeeps, BlockKeeps
  <2>3. CASE ~Fresh(j)
    BY <1>2, <2>1, <2>3, WorkerLoses, LossStep
  <2> QED BY <2>2, <2>3
<1>3. CASE ~TakeJob(w) /\ ~RecordAttempt(w) /\ ~Settle(w) /\ ~BlockJob(w)
  BY <1>3, WorkerLoses, LossStep
<1> QED BY <1>1, <1>2, <1>3

LEMMA StepKeeps ==
  TypeOK /\ HoldInv /\ TriesInv /\ [Next]_vars => Promise!Next
<1> SUFFICES ASSUME TypeOK, HoldInv, TriesInv, [Next]_vars PROVE Promise!Next
  OBVIOUS
<1> USE DEF tableVars, procVars, workerVars
<1>1. ASSUME NEW r \in Jobs, NEW h \in Hosts, NEW k \in BOOLEAN,
             NEW kind \in {"webhook", "triage"}, InsertJob(r, h, k, kind)
      PROVE  Promise!Next
  <2>1. Inserts(r)
    BY <1>1 DEF InsertJob, Inserts, TypeOK
  <2> QED BY <2>1, InsertKeeps
<1>2. ASSUME NEW j \in Jobs, NEW r \in Jobs, NEW h \in Hosts, ReplayInsert(j, r, h)
      PROVE  Promise!Next
  <2>1. Inserts(r)
    BY <1>2 DEF ReplayInsert, Inserts, TypeOK
  <2> QED BY <2>1, InsertKeeps
<1>3. ASSUME \/ \E j \in Jobs : HandlerStep(j)
             \/ \E p \in Procs : \E it \in fetched[p] : EnqueueFetched(p, it)
      PROVE  Promise!Next
  BY <1>3, QueueLoses, LossStep
<1>4. ASSUME \/ \E w \in Workers : WorkerFault(w)
             \/ \E h \in Procs \cup Hosts : Crash(h)
             \/ \E p \in Procs : PollFault(p)
             \/ \E j \in Jobs : ReplayCheck(j) \/ BackoffElapses(j)
             \/ UNCHANGED vars
      PROVE  Promise!Next
  BY <1>4, FaultKeeps
<1> QED BY <1>1, <1>2, <1>3, <1>4, FetchKeeps, WorkerKeeps, AgesKeeps DEF Next

LEMMA StartKeeps == Init => Promise!Init
<1> SUFFICES ASSUME Init PROVE Promise!Init
  OBVIOUS
<1>1. \A j \in Jobs : StageOf(j) = "absent" /\ TriesOf(j) = <<>>
  BY DEF Init, StageOf, TriesOf
<1> QED BY <1>1 DEF Promise!Init

(* Every run of the pipeline is a run of the promise, for any numbers of    *)
(* jobs, processes, threads and faults and any retry budget.                *)
THEOREM KeepsPromise == Spec => ImplementsPromise
BY Invariants, StartKeeps, StepKeeps, PTL DEF Spec, ImplementsPromise, Promise!Spec

-----------------------------------------------------------------------------
(* Replays *)

Lineage ==
  /\ ReplayLineageIsFlat
  /\ \A j \in Jobs : status[j] = "absent" => origin[j] = NoJob

LEMMA LineageStays ==
  ASSUME Lineage, UNCHANGED <<keyed, origin>>,
         \A j \in Jobs : status'[j] = "absent" <=> status[j] = "absent",
         origin \in [Jobs -> Jobs \cup {NoJob}]
  PROVE  Lineage'
BY DEF Lineage, ReplayLineageIsFlat

LEMMA LineageStep ==
  TypeOK /\ HoldInv /\ Lineage /\ [Next]_vars => Lineage'
<1> SUFFICES ASSUME TypeOK, HoldInv, Lineage, [Next]_vars PROVE Lineage'
  OBVIOUS
<1> USE DEF rowVars
<1>0. NoJob \notin Jobs /\ origin \in [Jobs -> Jobs \cup {NoJob}]
  BY DeliveryAssumption DEF TypeOK
<1>1. ASSUME NEW r \in Jobs, NEW h \in Hosts, NEW k \in BOOLEAN,
             NEW kind \in {"webhook", "triage"}, InsertJob(r, h, k, kind)
      PROVE  Lineage'
  BY <1>0, <1>1 DEF InsertJob, Lineage, ReplayLineageIsFlat, TypeOK
<1>2. ASSUME NEW j \in Jobs, NEW r \in Jobs, NEW h \in Hosts, ReplayInsert(j, r, h)
      PROVE  Lineage'
  <2>1. /\ status[r] = "absent" /\ status[j] # "absent"
        /\ \A k \in Jobs : k # r => /\ status'[k] = status[k]
                                    /\ keyed'[k] = keyed[k]
                                    /\ origin'[k] = origin[k]
        /\ status'[r] = "queued" /\ keyed'[r] = keyed[j] /\ origin'[r] = Root(j)
    BY <1>2 DEF ReplayInsert, HoldInv, RowsExist, TypeOK
  <2>2. /\ Root(j) \in Jobs /\ Root(j) # r /\ status[Root(j)] # "absent"
        /\ origin[Root(j)] = NoJob /\ keyed[Root(j)] = keyed[j]
    BY <1>0, <2>1 DEF Root, Lineage, ReplayLineageIsFlat
  <2>3. ASSUME NEW k \in Jobs, k # r, origin[k] # NoJob
        PROVE  origin[k] \in Jobs /\ origin[k] # r
    BY <1>0, <2>1, <2>3 DEF Lineage, ReplayLineageIsFlat
  <2> QED BY <2>1, <2>2, <2>3 DEF Lineage, ReplayLineageIsFlat
<1>3. ASSUME NEW p \in Procs, NEW S \in SUBSET Jobs, Fetch(p, S) PROVE Lineage'
  <2>1. \A j \in S : status[j] # "absent"
    BY <1>3 DEF Fetch, Recoverable
  <2>2. \A j \in Jobs : status'[j] = IF j \in S THEN "delivering" ELSE status[j]
    BY <1>3 DEF Fetch
  <2>3. UNCHANGED <<keyed, origin>>
    BY <1>3 DEF Fetch
  <2> QED BY <1>0, <2>1, <2>2, <2>3, LineageStays
<1>4. ASSUME NEW w \in Workers, WorkerStep(w) PROVE Lineage'
  <2>1. UNCHANGED <<keyed, origin>>
    BY <1>4 DEF WorkerStep, TakeJob, MarkDelivering, LogDelivering, ClaimGranted,
       ClaimRefused, BlockEvent, BlockJob, Post, RecordAttempt, LogAttempted,
       LogOutcome, Touch, Settle, FailEvent, LogFinal
  <2>2. \A j \in Jobs : status'[j] = "absent" <=> status[j] = "absent"
    <3>1. CASE TakeJob(w)
      BY <3>1 DEF TakeJob
    <3>2. CASE ~TakeJob(w)
      <4>1. /\ pc[w] # "idle"
            /\ \A j \in Jobs : j # item[w].job => status'[j] = status[j]
            /\ status'[item[w].job] # "absent" \/ UNCHANGED status
        BY <1>4, <3>2, WorkerStepFrame
      <4>2. \A j \in Jobs : status[j] = "absent" => item[w].job # j
        BY <4>1 DEF HoldInv, RowsExist
      <4> QED BY <4>1, <4>2
    <3> QED BY <3>1, <3>2
  <2> QED BY <1>0, <2>1, <2>2, LineageStays
<1>5. ASSUME UNCHANGED <<status, keyed, origin>> PROVE Lineage'
  BY <1>0, <1>5, LineageStays
<1>6. ASSUME \/ \E j \in Jobs : ReplayCheck(j) \/ HandlerStep(j) \/ BackoffElapses(j)
                              \/ JobAges(j)
             \/ \E p \in Procs : \E it \in fetched[p] : EnqueueFetched(p, it)
             \/ \E w \in Workers : WorkerFault(w)
             \/ \E h \in Procs \cup Hosts : Crash(h)
             \/ \E p \in Procs : PollFault(p)
             \/ UNCHANGED vars
      PROVE  UNCHANGED <<status, keyed, origin>>
  BY <1>6 DEF ReplayCheck, HandlerStep, Enqueue, LogQueued, LogReplayed,
     BackoffElapses, JobAges, EnqueueFetched, WorkerFault, Crash, Restart,
     PollFault, vars
<1> QED BY <1>1, <1>2, <1>3, <1>4, <1>5, <1>6 DEF Next

(* However many replays are replayed, each points at the first job.         *)
THEOREM LineageIsFlat == Spec => []ReplayLineageIsFlat
<1>1. Init => Lineage
  BY DEF Init, Lineage, ReplayLineageIsFlat
<1>2. Lineage => ReplayLineageIsFlat
  BY DEF Lineage
<1> QED BY <1>1, <1>2, Invariants, LineageStep, PTL DEF Spec

=============================================================================
