--------------------------- MODULE DeliveryProofs ---------------------------
(***************************************************************************)
(* Theorems about Delivery, for any numbers of jobs, processes, threads    *)
(* and faults and any retry budget.                                        *)
(***************************************************************************)
EXTENDS Delivery, TLAPS

USE DeliveryAssumption

(* A step keeps the types.                                                  *)
LEMMA TypeStep == TypeOK /\ [Next]_vars => TypeOK'
<1> SUFFICES ASSUME TypeOK, [Next]_vars PROVE TypeOK'
  OBVIOUS
<1> USE DEF TypeOK, Outcomes, JobStatus, Settled, Unsettled, WorkerPC, Holding,
            Posted, boundVars
<1>0. \A it \in Item : it.job \in Jobs /\ it.number \in Nat
  BY DEF Item
<1>1. ASSUME NEW j \in Jobs, NEW h \in Hosts, NEW k \in BOOLEAN,
             NEW kind \in {"webhook", "triage"}, InsertJob(j, h, k, kind)
      PROVE  TypeOK'
  BY <1>1 DEF InsertJob, tableVars, procVars, workerVars
<1>2. ASSUME NEW j \in Jobs, ReplayCheck(j) PROVE TypeOK'
  BY <1>2 DEF ReplayCheck, rowVars, tableVars, procVars, workerVars
<1>3. ASSUME NEW j \in Jobs, NEW r \in Jobs, NEW h \in Hosts,
             ReplayInsert(j, r, h)
      PROVE  TypeOK'
  BY <1>3 DEF ReplayInsert, Root, tableVars, procVars, workerVars
<1>4. ASSUME NEW j \in Jobs, HandlerStep(j) PROVE TypeOK'
  <2>1. CASE Enqueue(j)
    <3> DEFINE copy == [job |-> j, number |-> 0,
                        keyed |-> handler[j] = "replay" /\ keyed[j]]
    <3>1. copy \in Item
      BY Zenon DEF Item
    <3>2. queue' \in [Procs -> Seq(Item)]
      <4>1. CASE QueuesLocally(host[j])
        <5>1. queue' = [queue EXCEPT ![host[j]] = Append(@, copy)]
          BY <2>1, <4>1 DEF Enqueue
        <5> HIDE DEF copy
        <5>2. host[j] \in Procs /\ queue[host[j]] \in Seq(Item)
          BY <4>1 DEF QueuesLocally
        <5>3. Append(queue[host[j]], copy) \in Seq(Item)
          BY <5>2, <3>1
        <5> QED BY <5>1, <5>2, <5>3
      <4> QED BY <2>1, <4>1 DEF Enqueue
    <3> QED BY <2>1, <3>2 DEF Enqueue, rowVars, tableVars, workerVars
  <2>2. CASE LogQueued(j)
    BY <2>2 DEF LogQueued, Log, rowVars, procVars, workerVars
  <2>3. CASE LogReplayed(j)
    BY <2>3 DEF LogReplayed, Log, rowVars, procVars, workerVars
  <2> QED BY <1>4, <2>1, <2>2, <2>3 DEF HandlerStep
<1>5. ASSUME NEW p \in Procs, NEW S \in SUBSET Jobs, Fetch(p, S) PROVE TypeOK'
  <2>1. \A j \in Jobs : Snapshot(j) \in Item
    BY DEF Snapshot, CountOn, Item
  <2>2. fetched' \in [Procs -> SUBSET Item]
    BY <1>5, <2>1 DEF Fetch
  <2>3. refetches' \in Nat
    BY <1>5 DEF Fetch, CountRefetch
  <2> QED BY <1>5, <2>2, <2>3
          DEF Fetch, tableVars, handlerVars, workerVars
<1>6. ASSUME NEW p \in Procs, NEW it \in fetched[p], EnqueueFetched(p, it)
      PROVE  TypeOK'
  <2>1. it \in Item /\ Append(queue[p], it) \in Seq(Item)
    OBVIOUS
  <2> QED BY <1>6, <2>1
          DEF EnqueueFetched, rowVars, tableVars, handlerVars, workerVars
<1>7. ASSUME NEW w \in Workers, WorkerStep(w) PROVE TypeOK'
  <2> USE DEF rowVars, tableVars, handlerVars, procVars, workerVars
  <2>0. pc[w] # "idle" => /\ item[w] \in Item
                          /\ item[w].job \in Jobs
                          /\ Number(w) \in Nat
    BY <1>0 DEF Number
  <2>1. CASE TakeJob(w) /\ JobHasAttemptCount
    <3>1. HomeOf[w] \in Procs
      OBVIOUS
    <3>2. queue[HomeOf[w]] \in Seq(Item) /\ queue[HomeOf[w]] # <<>>
      BY <2>1, <3>1 DEF TakeJob, Unqueue
    <3>3. Head(queue[HomeOf[w]]) \in Item /\ Tail(queue[HomeOf[w]]) \in Seq(Item)
      BY <3>2
    <3>4. /\ item' = [item EXCEPT ![w] = Head(queue[HomeOf[w]])]
          /\ pc' = [pc EXCEPT ![w] = "mark"]
          /\ queue' = [queue EXCEPT ![HomeOf[w]] = Tail(@)]
          /\ UNCHANGED <<rowVars, tableVars, handlerVars, fetched, loopAlive, result,
                         boundVars>>
      BY <2>1 DEF TakeJob, Unqueue
    <3> QED BY <3>1, <3>3, <3>4
  <2>2. CASE TakeJob(w) /\ ~JobHasAttemptCount
    <3>1. HomeOf[w] \in Procs
      OBVIOUS
    <3>2. Tail(queue[HomeOf[w]]) \in Seq(Item)
      BY <2>2, <3>1 DEF TakeJob, Unqueue
    <3> QED BY <2>2, <3>1, <3>2 DEF TakeJob, Unqueue
  <2>3. CASE MarkDelivering(w)
    BY <2>3, <2>0 DEF MarkDelivering, Goto
  <2>4. CASE LogDelivering(w)
    BY <2>4, <2>0 DEF LogDelivering, Goto, Log
  <2>5. CASE ClaimGranted(w)
    BY <2>5, <2>0 DEF ClaimGranted, Goto
  <2>5a. CASE ClaimRefused(w)
    BY <2>5a, <2>0 DEF ClaimRefused, Goto
  <2>6. CASE BlockEvent(w)
    BY <2>6, <2>0 DEF BlockEvent, Goto
  <2>7. CASE BlockJob(w)
    BY <2>7, <2>0 DEF BlockJob, Release
  <2>8. CASE \E o \in Outcomes : Post(w, o)
    BY <2>8, <2>0 DEF Post
  <2>9. CASE RecordAttempt(w)
    <3>1. [number |-> Number(w), outcome |-> result[w]] \in Attempt
      BY <2>9, <2>0 DEF RecordAttempt, Attempt
    <3> QED BY <2>9, <2>0, <3>1 DEF RecordAttempt, Goto
  <2>10. CASE LogAttempted(w)
    BY <2>10, <2>0 DEF LogAttempted, Goto, Log
  <2>11. CASE LogOutcome(w)
    BY <2>11, <2>0 DEF LogOutcome, Goto, Log
  <2>12. CASE Touch(w)
    BY <2>12, <2>0 DEF Touch, Goto
  <2>13. CASE Settle(w)
    <3> DEFINE final == FinalStatus(result[w], Number(w))
    <3>1. final \in {"delivered", "retrying", "dead_lettered"}
      BY DEF FinalStatus
    <3>2. AfterSettle(final) \in {"failEvent", "logFinal"}
      BY DEF AfterSettle
    <3> HIDE DEF final
    <3> QED BY <2>13, <2>0, <3>1, <3>2 DEF Settle, Goto, final
  <2>14. CASE FailEvent(w)
    BY <2>14, <2>0 DEF FailEvent, Goto
  <2>15. CASE LogFinal(w)
    BY <2>15, <2>0 DEF LogFinal, Release, Log
  <2> HIDE DEF TypeOK
  <2> QED BY <1>7, <2>1, <2>2, <2>3, <2>4, <2>5, <2>5a, <2>6, <2>7, <2>8, <2>9, <2>10,
             <2>11, <2>12, <2>13, <2>14, <2>15 DEF WorkerStep
<1>8. ASSUME NEW j \in Jobs, BackoffElapses(j) \/ JobAges(j) PROVE TypeOK'
  <2>1. CASE BackoffElapses(j)
    BY <2>1 DEF BackoffElapses, tableVars, handlerVars, procVars, workerVars
  <2>2. CASE JobAges(j)
    BY <2>2 DEF JobAges, tableVars, handlerVars, procVars, workerVars
  <2> QED BY <1>8, <2>1, <2>2
<1>9. ASSUME NEW w \in Workers, WorkerFault(w) PROVE TypeOK'
  <2>1. faults' \in Nat /\ refetches' \in Nat
    BY <1>9 DEF WorkerFault, Fault
  <2>2. /\ pc' \in [Workers -> WorkerPC]
        /\ item' \in [Workers -> Item \cup {NoJob}]
        /\ result' \in [Workers -> Outcomes]
        /\ \A v \in Workers : pc'[v] # "idle" => item'[v] \in Item
    BY <1>9 DEF WorkerFault, Release
  <2> QED BY <1>9, <2>1, <2>2
          DEF WorkerFault, rowVars, tableVars, handlerVars, procVars
<1>10. ASSUME NEW h, Restart(h), faults' \in Nat,
              refetches' \in Nat
       PROVE  TypeOK'
  BY <1>10 DEF Restart, rowVars, tableVars
<1>11. ASSUME NEW h, Crash(h) PROVE TypeOK'
  BY <1>10, <1>11 DEF Crash, Fault
<1>12. ASSUME NEW p \in Procs, PollFault(p) PROVE TypeOK'
  <2>1. CASE p \in Hosts
    <3>1. /\ loopAlive' = [loopAlive EXCEPT ![p] = FALSE]
          /\ UNCHANGED <<rowVars, tableVars, handlerVars, queue, fetched,
                         workerVars>>
      BY <1>12, <2>1 DEF PollFault
    <3>2. faults' \in Nat /\ refetches' \in Nat
      BY <1>12 DEF PollFault, Fault
    <3> QED BY <3>1, <3>2 DEF rowVars, tableVars, handlerVars, workerVars
  <2>2. CASE p \notin Hosts
    <3>1. Restart(p)
      BY <1>12, <2>2 DEF PollFault
    <3>2. faults' \in Nat /\ refetches' \in Nat
      BY <1>12 DEF PollFault, Fault
    <3> HIDE DEF TypeOK
    <3> QED BY <1>10, <3>1, <3>2
  <2> QED BY <2>1, <2>2
<1>13. CASE UNCHANGED vars
  BY <1>13 DEF vars, rowVars, tableVars, handlerVars, procVars, workerVars
<1> HIDE DEF TypeOK
<1> QED BY <1>1, <1>2, <1>3, <1>4, <1>5, <1>6, <1>7, <1>8, <1>9, <1>11, <1>12,
           <1>13 DEF Next

(* Type correctness.                                                        *)
THEOREM TypeCorrect == Spec => []TypeOK
<1>1. Init => TypeOK
  BY DEF Init, TypeOK, Item, Attempt, Outcomes, JobStatus, Settled, WorkerPC,
         Unsettled
<1> QED BY <1>1, TypeStep, PTL DEF Spec

-----------------------------------------------------------------------------
(* A fresh job is in one pair of hands                                      *)

OnlyOne(j) == /\ OneCopyInLoops(j)
              /\ OneCopyInQueues(j)
              /\ OneCopyInWorkers(j)
              /\ OneStage(j)

(* A step after which no place holds a copy it did not hold before.         *)
LoseOnly ==
  /\ \A p \in Procs : fetched'[p] \subseteq fetched[p]
  /\ \A p \in Procs : queue'[p] = queue[p] \/ queue'[p] = <<>>
  /\ \A w \in Workers : pc'[w] \in Holding =>
       pc[w] \in Holding /\ item'[w] = item[w]

LEMMA LoseOnlyHeld ==
  ASSUME LoseOnly, NEW j \in Jobs
  PROVE  /\ Held(j)' => Held(j)
         /\ OnlyOne(j) => OnlyOne(j)'
<1>1. \A p \in Procs : InLoop(p, j)' => InLoop(p, j)
  BY DEF LoseOnly, InLoop
<1>2. \A p \in Procs : \A i \in DOMAIN queue'[p] :
        i \in DOMAIN queue[p] /\ queue'[p][i] = queue[p][i]
  BY DEF LoseOnly
<1>3. \A p \in Procs : InQueue(p, j)' => InQueue(p, j)
  BY <1>2 DEF InQueue
<1>4. \A w \in Workers : InWorker(w, j)' => InWorker(w, j)
  BY DEF LoseOnly, InWorker
<1>5. Held(j)' => Held(j)
  BY <1>1, <1>3, <1>4 DEF Held
<1>6. ASSUME OnlyOne(j) PROVE OnlyOne(j)'
  <2>1. OneCopyInLoops(j)'
    BY <1>6 DEF OnlyOne, OneCopyInLoops, LoseOnly
  <2>2. OneCopyInQueues(j)'
    BY <1>2, <1>6 DEF OnlyOne, OneCopyInQueues
  <2>3. OneCopyInWorkers(j)'
    BY <1>4, <1>6 DEF OnlyOne, OneCopyInWorkers
  <2>4. OneStage(j)'
    BY <1>1, <1>3, <1>4, <1>6 DEF OnlyOne, OneStage
  <2> QED BY <2>1, <2>2, <2>3, <2>4 DEF OnlyOne
<1> QED BY <1>5, <1>6

LEMMA UnheldIsOnlyOne ==
  ASSUME NEW j \in Jobs, ~Held(j)
  PROVE  OnlyOne(j)
BY DEF Held, InLoop, InQueue, InWorker, OnlyOne, OneCopyInLoops,
       OneCopyInQueues, OneCopyInWorkers, OneStage

LEMMA AppendElements ==
  ASSUME NEW T, NEW s \in Seq(T), NEW e \in T
  PROVE  /\ DOMAIN s = 1..Len(s)
         /\ DOMAIN Append(s, e) = 1..(Len(s) + 1)
         /\ \A i \in 1..Len(s) : Append(s, e)[i] = s[i]
         /\ Append(s, e)[Len(s) + 1] = e
OBVIOUS

(* Nothing but its own handler or a poll makes a new copy of a job.         *)
LEMMA EnqueueHeld ==
  ASSUME TypeOK, NEW k \in Jobs, Enqueue(k), NEW j \in Jobs,
         j # k \/ ~QueuesLocally(host[k])
  PROVE  /\ Held(j)' => Held(j)
         /\ OnlyOne(j) => OnlyOne(j)'
<1>0. UNCHANGED <<fetched, pc, item>>
  BY DEF Enqueue, workerVars
<1>1. CASE ~QueuesLocally(host[k])
  <2>1. LoseOnly
    BY <1>0, <1>1 DEF Enqueue, LoseOnly
  <2> QED BY <2>1, LoseOnlyHeld
<1>2. CASE QueuesLocally(host[k]) /\ j # k
  <2> DEFINE copy == [job |-> k, number |-> 0,
                      keyed |-> handler[k] = "replay" /\ keyed[k]]
  <2>1. queue' = [queue EXCEPT ![host[k]] = Append(@, copy)]
    BY <1>2 DEF Enqueue
  <2>2. copy.job # j
    BY <1>2
  <2>2a. copy \in Item
    BY DEF Item
  <2> HIDE DEF copy
  <2>2b. /\ host[k] \in Procs
         /\ queue[host[k]] \in Seq(Item)
         /\ queue'[host[k]] = Append(queue[host[k]], copy)
         /\ \A p \in Procs : p # host[k] => queue'[p] = queue[p]
    BY <1>2, <2>1 DEF TypeOK, QueuesLocally
  <2>3. \A p \in Procs : \A i \in DOMAIN queue'[p] :
          queue'[p][i].job = j =>
            i \in DOMAIN queue[p] /\ queue'[p][i] = queue[p][i]
    <3> TAKE p \in Procs
    <3> TAKE i \in DOMAIN queue'[p]
    <3>1. CASE p = host[k]
      BY <2>2, <2>2a, <2>2b, <3>1, AppendElements
    <3> QED BY <2>2b, <3>1
  <2>4. \A p \in Procs : InQueue(p, j)' => InQueue(p, j)
    BY <2>3 DEF InQueue
  <2>5. /\ \A p \in Procs : InLoop(p, j)' <=> InLoop(p, j)
        /\ \A w \in Workers : InWorker(w, j)' <=> InWorker(w, j)
    BY <1>0 DEF InLoop, InWorker
  <2>6. Held(j)' => Held(j)
    BY <2>4, <2>5 DEF Held
  <2>7. ASSUME OnlyOne(j) PROVE OnlyOne(j)'
    <3>1. OneCopyInLoops(j)' /\ OneCopyInWorkers(j)'
      BY <1>0, <2>5, <2>7 DEF OnlyOne, OneCopyInLoops, OneCopyInWorkers
    <3>2. OneCopyInQueues(j)'
      BY <2>3, <2>7 DEF OnlyOne, OneCopyInQueues
    <3>3. OneStage(j)'
      BY <2>4, <2>5, <2>7 DEF OnlyOne, OneStage
    <3> QED BY <3>1, <3>2, <3>3 DEF OnlyOne
  <2> QED BY <2>6, <2>7
<1> QED BY <1>1, <1>2

LEMMA FetchHeld ==
  ASSUME TypeOK, NEW p \in Procs, NEW S \in SUBSET Jobs, Fetch(p, S),
         NEW j \in Jobs
  PROVE  /\ Held(j)' => Held(j) \/ j \in S
         /\ j \notin S /\ OnlyOne(j) => OnlyOne(j)'
         /\ j \in S /\ ~Held(j) => OnlyOne(j)'
<1>1. /\ UNCHANGED <<queue, pc, item>>
      /\ fetched[p] = {}
      /\ fetched' = [fetched EXCEPT ![p] = {Snapshot(k) : k \in S}]
  BY DEF Fetch, workerVars
<1>2. fetched'[p] = {Snapshot(k) : k \in S}
      /\ \A q \in Procs \ {p} : fetched'[q] = fetched[q]
  BY <1>1 DEF TypeOK
<1>3. \A q \in Procs : \A it \in fetched'[q] :
        it.job = j => \/ it \in fetched[q]
                      \/ q = p /\ j \in S /\ it = Snapshot(j)
  BY <1>1, <1>2 DEF Snapshot
<1>4. /\ \A q \in Procs : InQueue(q, j)' <=> InQueue(q, j)
      /\ \A w \in Workers : InWorker(w, j)' <=> InWorker(w, j)
      /\ \A q \in Procs : InLoop(q, j)' => InLoop(q, j) \/ j \in S
  BY <1>1, <1>3 DEF InQueue, InWorker, InLoop
<1>5. Held(j)' => Held(j) \/ j \in S
  BY <1>4 DEF Held
<1>6. OneCopyInQueues(j) => OneCopyInQueues(j)'
  BY <1>1 DEF OneCopyInQueues
<1>7. OneCopyInWorkers(j) => OneCopyInWorkers(j)'
  BY <1>4 DEF OneCopyInWorkers
<1>8. ASSUME j \notin S, OnlyOne(j) PROVE OnlyOne(j)'
  <2>1. OneCopyInLoops(j)'
    BY <1>3, <1>8 DEF OnlyOne, OneCopyInLoops
  <2>2. OneStage(j)'
    BY <1>4, <1>8 DEF OnlyOne, OneStage
  <2> QED BY <1>6, <1>7, <1>8, <2>1, <2>2 DEF OnlyOne
<1>9. ASSUME j \in S, ~Held(j) PROVE OnlyOne(j)'
  <2>1. /\ \A q \in Procs : ~InLoop(q, j) /\ ~InQueue(q, j)
        /\ \A w \in Workers : ~InWorker(w, j)
    BY <1>9 DEF Held
  <2>2. OneCopyInLoops(j)'
    BY <1>3, <2>1 DEF OneCopyInLoops, InLoop
  <2>3. OneStage(j)'
    BY <1>4, <2>1 DEF OneStage
  <2>4. OnlyOne(j)
    BY <1>9, UnheldIsOnlyOne
  <2> QED BY <1>6, <1>7, <2>2, <2>3, <2>4 DEF OnlyOne
<1> QED BY <1>5, <1>8, <1>9

LEMMA EnqueueFetchedHeld ==
  ASSUME TypeOK, NEW p \in Procs, NEW it \in fetched[p], EnqueueFetched(p, it),
         NEW j \in Jobs
  PROVE  /\ Held(j)' => Held(j)
         /\ OnlyOne(j) => OnlyOne(j)'
<1>1. /\ UNCHANGED <<pc, item>>
      /\ fetched' = [fetched EXCEPT ![p] = @ \ {it}]
      /\ queue'   = [queue EXCEPT ![p] = Append(@, it)]
  BY DEF EnqueueFetched, workerVars
<1>2. \A q \in Procs : fetched'[q] \subseteq fetched[q]
  BY <1>1 DEF TypeOK
<1>3. it \notin fetched'[p]
  BY <1>1 DEF TypeOK
<1>4. \A q \in Procs : \A i \in DOMAIN queue'[q] :
        \/ i \in DOMAIN queue[q] /\ queue'[q][i] = queue[q][i]
        \/ q = p /\ i = Len(queue[p]) + 1 /\ queue'[q][i] = it
  <2>1. it \in Item /\ queue[p] \in Seq(Item)
    BY DEF TypeOK
  <2>2. /\ queue'[p] = Append(queue[p], it)
        /\ \A q \in Procs : q # p => queue'[q] = queue[q]
    BY <1>1 DEF TypeOK
  <2> TAKE q \in Procs
  <2> TAKE i \in DOMAIN queue'[q]
  <2>3. CASE q = p
    <3>1. /\ DOMAIN queue[p] = 1..Len(queue[p]) /\ Len(queue[p]) \in Nat
          /\ i \in 1..(Len(queue[p]) + 1)
      BY <2>1, <2>2, <2>3, AppendElements
    <3>2. CASE i \in 1..Len(queue[p])
      BY <2>1, <2>2, <2>3, <3>1, <3>2, AppendElements
    <3>3. CASE i = Len(queue[p]) + 1
      BY <2>1, <2>2, <2>3, <3>3, AppendElements
    <3> QED BY <3>1, <3>2, <3>3
  <2> QED BY <2>2, <2>3
<1>5. /\ \A q \in Procs : InLoop(q, j)' => InLoop(q, j)
      /\ \A q \in Procs :
           InQueue(q, j)' => InQueue(q, j) \/ (q = p /\ it.job = j)
      /\ \A w \in Workers : InWorker(w, j)' <=> InWorker(w, j)
  <2>1. \A q \in Procs : InLoop(q, j)' => InLoop(q, j)
    <3> SUFFICES ASSUME NEW q \in Procs, InLoop(q, j)' PROVE InLoop(q, j)
      OBVIOUS
    <3>1. PICK x \in fetched'[q] : x.job = j
      BY Zenon DEF InLoop
    <3> QED BY <1>2, <3>1 DEF InLoop
  <2>2. \A q \in Procs : InQueue(q, j)' => InQueue(q, j) \/ (q = p /\ it.job = j)
    BY <1>4 DEF InQueue
  <2>3. \A w \in Workers : InWorker(w, j)' <=> InWorker(w, j)
    BY <1>1 DEF InWorker
  <2> QED BY <2>1, <2>2, <2>3
<1>6. it.job = j => InLoop(p, j)
  BY DEF InLoop
<1>7. Held(j)' => Held(j)
  BY <1>5, <1>6 DEF Held
<1>8. ASSUME OnlyOne(j) PROVE OnlyOne(j)'
  <2>1. OneCopyInLoops(j)'
    BY <1>2, <1>8 DEF OnlyOne, OneCopyInLoops
  <2>2. OneCopyInWorkers(j)'
    BY <1>5, <1>8 DEF OnlyOne, OneCopyInWorkers
  <2>3. CASE it.job # j
    <3>1. OneCopyInQueues(j)'
      BY <1>4, <1>8, <2>3 DEF OnlyOne, OneCopyInQueues
    <3>2. OneStage(j)'
      BY <1>5, <1>8, <2>3 DEF OnlyOne, OneStage
    <3> QED BY <2>1, <2>2, <3>1, <3>2 DEF OnlyOne
  <2>4. CASE it.job = j
    <3>1. /\ \A q \in Procs : ~InQueue(q, j)
          /\ \A w \in Workers : ~InWorker(w, j)
      BY <1>6, <1>8, <2>4 DEF OnlyOne, OneStage
    <3>2. OneCopyInQueues(j)'
      BY <1>4, <3>1 DEF OneCopyInQueues, InQueue
    <3>3. \A q \in Procs : ~InLoop(q, j)'
      BY <1>2, <1>3, <1>8, <2>4 DEF OnlyOne, OneCopyInLoops, InLoop
    <3>4. OneStage(j)'
      BY <1>5, <3>1, <3>3 DEF OneStage
    <3> QED BY <2>1, <2>2, <3>2, <3>4 DEF OnlyOne
  <2> QED BY <2>3, <2>4
<1> QED BY <1>7, <1>8

LEMMA TailElements ==
  ASSUME NEW T, NEW s \in Seq(T), s # <<>>
  PROVE  /\ DOMAIN s = 1..Len(s) /\ Len(s) \in Nat \ {0}
         /\ DOMAIN Tail(s) = 1..(Len(s) - 1)
         /\ \A i \in 1..(Len(s) - 1) : Tail(s)[i] = s[i + 1]
         /\ Head(s) = s[1]
OBVIOUS

(* Taking the head of a queue shifts the rest of it.                        *)
LEMMA UnqueueElements ==
  ASSUME TypeOK, NEW w \in Workers, Unqueue(w)
  PROVE  /\ HomeOf[w] \in Procs
         /\ 1 \in DOMAIN queue[HomeOf[w]]
         /\ Head(queue[HomeOf[w]]) = queue[HomeOf[w]][1]
         /\ \A p \in Procs \ {HomeOf[w]} : queue'[p] = queue[p]
         /\ \A i \in DOMAIN queue'[HomeOf[w]] :
              /\ i \in Nat /\ i # 0 /\ i + 1 \in DOMAIN queue[HomeOf[w]]
              /\ queue'[HomeOf[w]][i] = queue[HomeOf[w]][i + 1]
<1> DEFINE p == HomeOf[w]
<1>1. p \in Procs /\ queue[p] \in Seq(Item) /\ queue[p] # <<>>
  BY DEF TypeOK, Unqueue
<1>2. /\ queue'[p] = Tail(queue[p])
      /\ \A q \in Procs \ {p} : queue'[q] = queue[q]
  BY <1>1 DEF TypeOK, Unqueue
<1> HIDE DEF p
<1>3. /\ DOMAIN queue[p] = 1..Len(queue[p]) /\ Len(queue[p]) \in Nat \ {0}
      /\ DOMAIN queue'[p] = 1..(Len(queue[p]) - 1)
      /\ \A i \in 1..(Len(queue[p]) - 1) : queue'[p][i] = queue[p][i + 1]
      /\ Head(queue[p]) = queue[p][1]
  BY <1>1, <1>2, TailElements
<1>4. \A i \in DOMAIN queue'[p] : /\ i \in Nat /\ i # 0
                                  /\ i + 1 \in DOMAIN queue[p]
                                  /\ queue'[p][i] = queue[p][i + 1]
  BY <1>3
<1>5. 1 \in DOMAIN queue[p]
  BY <1>3
<1> QED BY <1>1, <1>2, <1>3, <1>4, <1>5 DEF p

LEMMA UnqueueHeld ==
  ASSUME TypeOK, NEW w \in Workers, TakeJob(w),
         NEW j \in Jobs
  PROVE  /\ Held(j)' => Held(j)
         /\ OnlyOne(j) => OnlyOne(j)'
<1> DEFINE p == HomeOf[w]
<1>1. Unqueue(w) /\ UNCHANGED fetched
  BY DEF TakeJob
<1>2. /\ p \in Procs
      /\ 1 \in DOMAIN queue[p]
      /\ Head(queue[p]) = queue[p][1]
      /\ \A q \in Procs \ {p} : queue'[q] = queue[q]
      /\ \A i \in DOMAIN queue'[p] :
           /\ i \in Nat /\ i # 0 /\ i + 1 \in DOMAIN queue[p]
           /\ queue'[p][i] = queue[p][i + 1]
  BY <1>1, UnqueueElements
<1>3. \A v \in Workers : pc'[v] \in Holding =>
        \/ pc[v] \in Holding /\ item'[v] = item[v]
        \/ v = w /\ item'[w] = queue[p][1]
  <2>1. CASE TakeJob(w) /\ JobHasAttemptCount
    BY <1>2, <2>1 DEF TakeJob, TypeOK
  <2>2. CASE TakeJob(w) /\ ~JobHasAttemptCount
    BY <2>2 DEF TakeJob, workerVars
  <2> QED BY <2>1, <2>2
<1>4. pc[w] \notin Holding
  BY <1>1 DEF Unqueue, Holding, Posted
<1> HIDE DEF p
<1>5. \A q \in Procs : InLoop(q, j)' <=> InLoop(q, j)
  BY <1>1 DEF InLoop
<1>6. \A q \in Procs : InQueue(q, j)' => InQueue(q, j)
  <2> SUFFICES ASSUME NEW q \in Procs, InQueue(q, j)' PROVE InQueue(q, j)
    OBVIOUS
  <2>1. PICK i \in DOMAIN queue'[q] : queue'[q][i].job = j
    BY DEF InQueue
  <2>2. CASE q = p
    BY <1>2, <2>1, <2>2 DEF InQueue
  <2> QED BY <1>2, <2>1, <2>2 DEF InQueue
<1>7. \A v \in Workers : InWorker(v, j)' =>
        InWorker(v, j) \/ (v = w /\ queue[p][1].job = j)
  BY <1>3 DEF InWorker
<1>8. queue[p][1].job = j => InQueue(p, j)
  BY <1>2 DEF InQueue
<1>9. Held(j)' => Held(j)
  BY <1>2, <1>5, <1>6, <1>7, <1>8 DEF Held
<1>10. ASSUME OnlyOne(j) PROVE OnlyOne(j)'
  <2>1. OneCopyInLoops(j)'
    BY <1>1, <1>10 DEF OnlyOne, OneCopyInLoops
  <2>2. OneCopyInQueues(j)'
    <3> SUFFICES ASSUME NEW q \in Procs, NEW r \in Procs,
                        NEW i \in DOMAIN queue'[q], NEW k \in DOMAIN queue'[r],
                        queue'[q][i].job = j, queue'[r][k].job = j
                 PROVE  q = r /\ i = k
      BY DEF OneCopyInQueues
    <3>1. \A x, y \in Procs : \A a \in DOMAIN queue[x], b \in DOMAIN queue[y] :
            queue[x][a].job = j /\ queue[y][b].job = j => x = y /\ a = b
      BY <1>10 DEF OnlyOne, OneCopyInQueues
    <3>2. CASE q = p /\ r = p
      <4>1. /\ i \in Nat /\ i + 1 \in DOMAIN queue[p]
            /\ k \in Nat /\ k + 1 \in DOMAIN queue[p]
            /\ queue[p][i + 1].job = j /\ queue[p][k + 1].job = j
        BY <1>2, <3>2
      <4>2. i + 1 = k + 1
        BY <1>2, <3>1, <4>1
      <4> QED BY <3>2, <4>1, <4>2
    <3>3. CASE q = p /\ r # p
      BY <1>2, <3>1, <3>3
    <3>4. CASE q # p /\ r = p
      BY <1>2, <3>1, <3>4
    <3>5. CASE q # p /\ r # p
      BY <1>2, <3>1, <3>5
    <3> QED BY <3>2, <3>3, <3>4, <3>5
  <2>3. CASE queue[p][1].job # j
    <3>1. OneCopyInWorkers(j)'
      BY <1>7, <1>10, <2>3 DEF OnlyOne, OneCopyInWorkers
    <3>2. OneStage(j)'
      BY <1>5, <1>6, <1>7, <1>10, <2>3 DEF OnlyOne, OneStage
    <3> QED BY <2>1, <2>2, <3>1, <3>2 DEF OnlyOne
  <2>4. CASE queue[p][1].job = j
    <3>1. /\ \A q \in Procs : ~InLoop(q, j)
          /\ \A v \in Workers : ~InWorker(v, j)
      BY <1>2, <1>8, <1>10, <2>4 DEF OnlyOne, OneStage
    <3>2. \A q \in Procs : ~InQueue(q, j)'
      <4> SUFFICES ASSUME NEW q \in Procs, InQueue(q, j)' PROVE FALSE
        OBVIOUS
      <4>1. PICK i \in DOMAIN queue'[q] : queue'[q][i].job = j
        BY DEF InQueue
      <4>2. \A x, y \in Procs : \A a \in DOMAIN queue[x], b \in DOMAIN queue[y] :
              queue[x][a].job = j /\ queue[y][b].job = j => x = y /\ a = b
        BY <1>10 DEF OnlyOne, OneCopyInQueues
      <4>3. CASE q = p
        <5>1. /\ i \in Nat /\ i # 0
              /\ i + 1 \in DOMAIN queue[p] /\ queue[p][i + 1].job = j
          BY <1>2, <4>1, <4>3
        <5>2. i + 1 = 1
          BY <1>2, <2>4, <4>2, <5>1
        <5> QED BY <5>1, <5>2
      <4> QED BY <1>2, <2>4, <4>1, <4>2, <4>3
    <3>3. OneCopyInWorkers(j)'
      BY <1>7, <3>1 DEF OneCopyInWorkers
    <3>4. OneStage(j)'
      BY <1>5, <3>1, <3>2 DEF OneStage
    <3> QED BY <2>1, <2>2, <3>3, <3>4 DEF OnlyOne
  <2> QED BY <2>3, <2>4
<1> QED BY <1>9, <1>10

(* What each step but a poll has in common.                                 *)
RowsStay ==
  \A j \in Jobs : status'[j] = "absent" =>
    /\ status[j] = "absent"
    /\ handler'[j] = "none"
    /\ j \notin replaying'
    /\ attempts'[j] = <<>>
    /\ \A w \in Workers : pc'[w] # "idle" => item'[w].job # j

NoNewCopies ==
  \A j \in Jobs : Fresh(j)' \/ status'[j] = "absent" =>
    /\ Held(j)' => Held(j)
    /\ OnlyOne(j) => OnlyOne(j)'

FreshStays == \A j \in Jobs : Fresh(j)' => Fresh(j) \/ status[j] = "absent"

NoOtherStatus ==
  \A j \in Jobs : Held(j)' /\ Fresh(j)' /\ status'[j] # status[j] =>
    status'[j] = "delivering"

LEMMA HoldPreserved ==
  ASSUME HoldInv, RowsStay, NoNewCopies, FreshStays, NoOtherStatus
  PROVE  HoldInv'
<1>1. RowsExist'
  BY DEF HoldInv, RowsExist, RowsStay, NoNewCopies
<1>2. FreshHeldIsDelivering'
  <2> SUFFICES ASSUME NEW j \in Jobs, Fresh(j)', Held(j)'
               PROVE  status'[j] = "delivering"
    BY DEF FreshHeldIsDelivering
  <2>1. Held(j)
    BY DEF NoNewCopies
  <2>2. Fresh(j)
    BY <2>1 DEF FreshStays, HoldInv, RowsExist
  <2>3. status[j] = "delivering"
    BY <2>1, <2>2 DEF HoldInv, FreshHeldIsDelivering
  <2> QED BY <2>3 DEF NoOtherStatus
<1>3. FreshJobHeldOnce'
  <2> SUFFICES ASSUME NEW j \in Jobs, Fresh(j)' PROVE OnlyOne(j)'
    BY DEF FreshJobHeldOnce, OnlyOne
  <2>1. CASE Fresh(j)
    BY <2>1 DEF HoldInv, FreshJobHeldOnce, OnlyOne, NoNewCopies
  <2>2. CASE ~Fresh(j)
    <3>1. ~Held(j)
      BY <2>2 DEF FreshStays, HoldInv, RowsExist
    <3>2. OnlyOne(j)
      BY <3>1, UnheldIsOnlyOne
    <3> QED BY <3>2 DEF NoNewCopies
  <2> QED BY <2>1, <2>2
<1> QED BY <1>1, <1>2, <1>3 DEF HoldInv

(* A handler's step, other than an enqueue, moves no copies.                *)
LEMMA SamePlaces ==
  ASSUME UNCHANGED <<queue, fetched, pc, item>>
  PROVE  NoNewCopies
<1>1. LoseOnly
  BY DEF LoseOnly
<1> QED BY <1>1, LoseOnlyHeld DEF NoNewCopies

LEMMA HoldHandlerStep ==
  ASSUME TypeOK, HoldInv, NEW j \in Jobs, HandlerStep(j)
  PROVE  HoldInv'
<1>1. handler[j] # "none"
  BY DEF HandlerStep, Enqueue, LogQueued, LogReplayed
<1>2. status[j] # "absent"
  BY <1>1 DEF HoldInv, RowsExist
<1>3. /\ UNCHANGED <<status, attempts, old, host, replaying, pc, item>>
      /\ \A k \in Jobs : k # j => handler'[k] = handler[k]
  BY DEF HandlerStep, Enqueue, LogQueued, LogReplayed, rowVars, procVars,
         workerVars, tableVars, TypeOK
<1>4. RowsStay
  BY <1>2, <1>3 DEF RowsStay, HoldInv, RowsExist
<1>5. NoNewCopies
  <2>1. CASE Enqueue(j)
    <3> SUFFICES ASSUME NEW k \in Jobs, Fresh(k)' \/ status'[k] = "absent"
                 PROVE  (Held(k)' => Held(k)) /\ (OnlyOne(k) => OnlyOne(k)')
      BY DEF NoNewCopies
    <3>1. k # j \/ ~QueuesLocally(host[j])
      BY <1>2, <1>3 DEF Fresh, QueuesLocally
    <3> QED BY <2>1, <3>1, EnqueueHeld
  <2>2. CASE LogQueued(j) \/ LogReplayed(j)
    BY <2>2, SamePlaces DEF LogQueued, LogReplayed, procVars, workerVars
  <2> QED BY <2>1, <2>2 DEF HandlerStep
<1>6. FreshStays
  BY <1>3 DEF FreshStays, Fresh
<1>7. NoOtherStatus
  BY <1>3 DEF NoOtherStatus
<1> QED BY <1>4, <1>5, <1>6, <1>7, HoldPreserved

(* A row is inserted and nothing is queued yet.                             *)
Inserts(r) ==
  /\ status[r] = "absent" /\ status'[r] = "queued"
  /\ \A k \in Jobs : k # r => /\ status'[k] = status[k]
                              /\ handler'[k] = handler[k]
                              /\ host'[k] = host[k]
  /\ UNCHANGED <<old, attempts, queue, fetched, pc, item>>
  /\ replaying' \subseteq replaying

LEMMA HoldInsert ==
  ASSUME HoldInv, NEW r \in Jobs, Inserts(r)
  PROVE  HoldInv'
<1>1. RowsStay
  BY DEF Inserts, RowsStay, HoldInv, RowsExist
<1>2. NoNewCopies
  BY SamePlaces DEF Inserts
<1>3. FreshStays
  BY DEF Inserts, FreshStays, Fresh
<1>4. ~Held(r)
  BY DEF Inserts, HoldInv, RowsExist
<1>5. NoOtherStatus
  BY <1>2, <1>4 DEF Inserts, NoOtherStatus, NoNewCopies
<1> QED BY <1>1, <1>2, <1>3, <1>5, HoldPreserved

LEMMA HoldRequestStep ==
  ASSUME TypeOK, HoldInv, NEW r \in Jobs,
         \/ \E h \in Hosts, k \in BOOLEAN, kind \in {"webhook", "triage"} :
              InsertJob(r, h, k, kind)
         \/ \E j \in Jobs, h \in Hosts : ReplayInsert(j, r, h)
         \/ ReplayCheck(r)
  PROVE  HoldInv'
<1>1. ASSUME NEW h \in Hosts, NEW k \in BOOLEAN,
             NEW kind \in {"webhook", "triage"}, InsertJob(r, h, k, kind)
      PROVE  HoldInv'
  <2>1. Inserts(r)
    BY <1>1 DEF InsertJob, Inserts, tableVars, procVars, workerVars, TypeOK
  <2> QED BY <2>1, HoldInsert
<1>2. ASSUME NEW j \in Jobs, NEW h \in Hosts, ReplayInsert(j, r, h)
      PROVE  HoldInv'
  <2>1. Inserts(r)
    BY <1>2 DEF ReplayInsert, Inserts, tableVars, procVars, workerVars, TypeOK
  <2> QED BY <2>1, HoldInsert
<1>3. CASE ReplayCheck(r)
  <2>1. /\ UNCHANGED <<status, attempts, old, host, handler, queue, fetched, pc,
                      item>>
        /\ replaying' = replaying \cup {r}
        /\ status[r] # "absent"
    BY <1>3 DEF ReplayCheck, Replayable, rowVars, tableVars, procVars, workerVars
  <2>2. RowsStay
    BY <2>1 DEF RowsStay, HoldInv, RowsExist
  <2>3. NoNewCopies
    BY <2>1, SamePlaces
  <2>4. FreshStays /\ NoOtherStatus
    BY <2>1 DEF FreshStays, Fresh, NoOtherStatus
  <2> QED BY <2>2, <2>3, <2>4, HoldPreserved
<1> QED BY <1>1, <1>2, <1>3

LEMMA HoldFetch ==
  ASSUME TypeOK, HoldInv, NEW p \in Procs, NEW S \in SUBSET Jobs, Fetch(p, S)
  PROVE  HoldInv'
<1>1. /\ UNCHANGED <<attempts, old, host, handler, replaying, pc, item>>
      /\ \A j \in Jobs : status'[j] = IF j \in S THEN "delivering" ELSE status[j]
  BY DEF Fetch, tableVars, handlerVars, workerVars
<1>2. \A j \in S : status[j] # "absent" /\ (Fresh(j) => status[j] # "delivering")
  BY DEF Fetch, Recoverable, Fresh
<1>3. \A j \in Jobs : /\ Held(j)' => Held(j) \/ j \in S
                      /\ j \notin S /\ OnlyOne(j) => OnlyOne(j)'
                      /\ j \in S /\ ~Held(j) => OnlyOne(j)'
  BY FetchHeld
<1>4. \A j \in Jobs : Fresh(j)' <=> Fresh(j)
  BY <1>1 DEF Fresh
<1>5. \A j \in S : Fresh(j) => ~Held(j)
  BY <1>2 DEF HoldInv, FreshHeldIsDelivering
<1>6. RowsExist'
  BY <1>1, <1>2, <1>3 DEF HoldInv, RowsExist
<1>7. FreshHeldIsDelivering'
  BY <1>1, <1>3, <1>4 DEF HoldInv, FreshHeldIsDelivering
<1>8. FreshJobHeldOnce'
  <2> SUFFICES ASSUME NEW j \in Jobs, Fresh(j)' PROVE OnlyOne(j)'
    BY DEF FreshJobHeldOnce, OnlyOne
  <2>1. OnlyOne(j)
    BY <1>4 DEF HoldInv, FreshJobHeldOnce, OnlyOne
  <2> QED BY <1>3, <1>4, <1>5, <2>1
<1> QED BY <1>6, <1>7, <1>8 DEF HoldInv

(* A worker's step touches the row of its own copy only, and goes on holding*)
(* that copy or lets go of it.                                              *)
LEMMA WorkerStepFrame ==
  ASSUME TypeOK, NEW w \in Workers, WorkerStep(w),
         ~TakeJob(w)
  PROVE  /\ pc[w] # "idle" /\ item[w].job \in Jobs
         /\ UNCHANGED <<old, handlerVars, procVars>>
         /\ \A j \in Jobs : j # item[w].job =>
              status'[j] = status[j] /\ attempts'[j] = attempts[j]
         /\ \A v \in Workers : v # w => pc'[v] = pc[v] /\ item'[v] = item[v]
         /\ pc'[w] # "idle" => item'[w] = item[w]
         /\ pc'[w] \in Holding => pc[w] \in Holding
         /\ status'[item[w].job] # "absent" \/ UNCHANGED status
         /\ \/ status'[item[w].job] \in {status[item[w].job], "delivering"}
            \/ pc[w] \in Holding /\ pc'[w] \notin Holding
<1> USE DEF rowVars, tableVars, handlerVars, procVars, workerVars, Holding,
            Posted
<1>1. item[w] \in Item /\ pc[w] # "idle" => item[w].job \in Jobs
  BY DEF Item
<1> USE <1>1 DEF TypeOK
<1>2. CASE MarkDelivering(w) \/ Touch(w)
  BY <1>2 DEF MarkDelivering, Touch, Goto
<1>3. CASE LogDelivering(w)
  BY <1>3 DEF LogDelivering, Goto
<1>4. CASE ClaimGranted(w) \/ ClaimRefused(w)
  BY <1>4 DEF ClaimGranted, ClaimRefused, Goto
<1>5. CASE BlockEvent(w)
  BY <1>5 DEF BlockEvent, Goto
<1>6. CASE BlockJob(w)
  BY <1>6 DEF BlockJob, Release
<1>7. CASE \E o \in Outcomes : Post(w, o)
  BY <1>7 DEF Post
<1>8. CASE RecordAttempt(w)
  BY <1>8 DEF RecordAttempt, Goto
<1>9. CASE LogAttempted(w) \/ LogOutcome(w)
  BY <1>9 DEF LogAttempted, LogOutcome, Goto
<1>10. CASE Settle(w)
  <2> DEFINE final == FinalStatus(result[w], Number(w))
  <2>1. final # "absent"
    BY DEF FinalStatus
  <2>2. AfterSettle(final) \in {"failEvent", "logFinal"}
    BY DEF AfterSettle
  <2> HIDE DEF final
  <2> QED BY <1>10, <2>1, <2>2 DEF Settle, Goto, final
<1>11. CASE FailEvent(w)
  BY <1>11 DEF FailEvent, Goto
<1>12. CASE LogFinal(w)
  BY <1>12 DEF LogFinal, Release
<1> QED BY <1>2, <1>3, <1>4, <1>5, <1>6, <1>7, <1>8, <1>9, <1>10, <1>11, <1>12
        DEF WorkerStep

LEMMA HoldWorkerStep ==
  ASSUME TypeOK, HoldInv, NEW w \in Workers, WorkerStep(w)
  PROVE  HoldInv'
<1>1. CASE TakeJob(w)
  <2>1. UNCHANGED <<status, attempts, old, host, handler, replaying>>
    BY <1>1 DEF TakeJob, rowVars, tableVars, handlerVars
  <2>2. \A v \in Workers : pc'[v] # "idle" =>
          \/ pc[v] # "idle" /\ item'[v] = item[v]
          \/ \E p \in Procs : \E i \in DOMAIN queue[p] : item'[v] = queue[p][i]
    <3>1. CASE TakeJob(w) /\ JobHasAttemptCount
      <4>1. Unqueue(w)
        BY <3>1 DEF TakeJob
      <4> QED BY <3>1, <4>1, UnqueueElements DEF TakeJob, TypeOK
    <3>2. CASE TakeJob(w) /\ ~JobHasAttemptCount
      BY <3>2 DEF TakeJob, workerVars
    <3> QED BY <1>1, <3>1, <3>2
  <2>3. RowsStay
    BY <2>1, <2>2 DEF RowsStay, HoldInv, RowsExist, Held, InQueue
  <2>4. NoNewCopies
    BY <1>1, UnqueueHeld DEF NoNewCopies
  <2>5. FreshStays /\ NoOtherStatus
    BY <2>1 DEF FreshStays, Fresh, NoOtherStatus
  <2> QED BY <2>3, <2>4, <2>5, HoldPreserved
<1>2. CASE ~TakeJob(w)
  <2>0. PICK j \in Jobs : j = item[w].job
    BY <1>2, WorkerStepFrame
  <2>1. /\ pc[w] # "idle" /\ j \in Jobs
        /\ UNCHANGED <<old, handlerVars, procVars>>
        /\ \A k \in Jobs : k # j =>
             status'[k] = status[k] /\ attempts'[k] = attempts[k]
        /\ \A v \in Workers : v # w => pc'[v] = pc[v] /\ item'[v] = item[v]
        /\ pc'[w] # "idle" => item'[w] = item[w]
        /\ pc'[w] \in Holding => pc[w] \in Holding
        /\ status'[j] # "absent" \/ UNCHANGED status
        /\ \/ status'[j] \in {status[j], "delivering"}
           \/ pc[w] \in Holding /\ pc'[w] \notin Holding
    BY <1>2, <2>0, WorkerStepFrame
  <2>2. status[j] # "absent"
    BY <2>0, <2>1 DEF HoldInv, RowsExist
  <2>3. RowsStay
    BY <2>1, <2>2 DEF RowsStay, HoldInv, RowsExist, handlerVars
  <2>4. LoseOnly
    BY <2>1 DEF LoseOnly, procVars, Holding, Posted
  <2>5. NoNewCopies
    BY <2>4, LoseOnlyHeld DEF NoNewCopies
  <2>6. FreshStays
    BY <2>1 DEF FreshStays, Fresh, handlerVars
  <2>7. NoOtherStatus
    <3> SUFFICES ASSUME Held(j)', Fresh(j)', pc[w] \in Holding,
                        pc'[w] \notin Holding
                 PROVE  FALSE
      BY <2>1 DEF NoOtherStatus
    <3>1. OnlyOne(j)
      BY <2>1, <2>2, <2>6 DEF FreshStays, HoldInv, FreshJobHeldOnce, OnlyOne
    <3>2. InWorker(w, j)
      BY <2>0 DEF InWorker
    <3>3. \A p \in Procs : ~InLoop(p, j) /\ ~InQueue(p, j)
      BY <3>1, <3>2 DEF OnlyOne, OneStage
    <3>4. \A v \in Workers : v # w => ~InWorker(v, j)
      BY <3>1, <3>2 DEF OnlyOne, OneCopyInWorkers
    <3>5. \A p \in Procs : ~InLoop(p, j)' /\ ~InQueue(p, j)'
      BY <2>1, <3>3 DEF InLoop, InQueue, procVars
    <3>6. \A v \in Workers : ~InWorker(v, j)'
      BY <2>1, <3>4 DEF InWorker
    <3> QED BY <3>5, <3>6 DEF Held
  <2> QED BY <2>3, <2>5, <2>6, <2>7, HoldPreserved
<1> QED BY <1>1, <1>2

(* What is left: copies moved by a loop, time, and faults.                  *)
LEMMA HoldQuietStep ==
  ASSUME HoldInv, LoseOnly,
         UNCHANGED <<status, attempts, host, replaying>>,
         \A j \in Jobs : old'[j] = old[j] \/ old'[j] = TRUE,
         \A j \in Jobs : handler'[j] \in {handler[j], "none"},
         \A w \in Workers : pc'[w] # "idle" => /\ pc[w] # "idle"
                                               /\ item'[w] = item[w]
  PROVE  HoldInv'
<1>1. RowsStay
  BY DEF RowsStay, HoldInv, RowsExist
<1>2. NoNewCopies
  BY LoseOnlyHeld DEF NoNewCopies
<1>3. FreshStays /\ NoOtherStatus
  BY DEF FreshStays, Fresh, NoOtherStatus
<1> QED BY <1>1, <1>2, <1>3, HoldPreserved

LEMMA HoldStep == TypeOK /\ HoldInv /\ [Next]_vars => HoldInv'
<1> SUFFICES ASSUME TypeOK, HoldInv, [Next]_vars PROVE HoldInv'
  OBVIOUS
<1> USE DEF rowVars, tableVars, handlerVars, procVars, workerVars
<1>1. ASSUME NEW p \in Procs, NEW it \in fetched[p], EnqueueFetched(p, it)
      PROVE  HoldInv'
  <2>1. UNCHANGED <<status, attempts, old, host, handler, replaying, pc, item>>
    BY <1>1 DEF EnqueueFetched
  <2>2. NoNewCopies
    BY <1>1, EnqueueFetchedHeld DEF NoNewCopies
  <2>3. RowsStay /\ FreshStays /\ NoOtherStatus
    BY <2>1 DEF RowsStay, HoldInv, RowsExist, FreshStays, Fresh, NoOtherStatus
  <2> QED BY <2>2, <2>3, HoldPreserved
<1>2. ASSUME NEW j \in Jobs, BackoffElapses(j) \/ JobAges(j) PROVE HoldInv'
  <2>1. /\ UNCHANGED <<status, attempts, host, handler, replaying, queue,
                      fetched, pc, item>>
        /\ \A k \in Jobs : old'[k] = old[k] \/ old'[k] = TRUE
    BY <1>2 DEF BackoffElapses, JobAges, TypeOK
  <2>2. LoseOnly
    BY <2>1 DEF LoseOnly
  <2> QED BY <2>1, <2>2, HoldQuietStep
<1>3. ASSUME NEW w \in Workers, WorkerFault(w) PROVE HoldInv'
  <2>1. /\ UNCHANGED <<status, attempts, old, host, handler, replaying, queue,
                      fetched>>
        /\ \A v \in Workers : pc'[v] # "idle" => /\ pc'[v] = pc[v]
                                                 /\ item'[v] = item[v]
    BY <1>3 DEF WorkerFault, Release, TypeOK
  <2>2. LoseOnly
    BY <2>1 DEF LoseOnly, Holding, Posted
  <2> QED BY <2>1, <2>2, HoldQuietStep
<1>4. ASSUME NEW h, Restart(h) PROVE HoldInv'
  <2>1. /\ UNCHANGED <<status, attempts, old, host, replaying>>
        /\ \A p \in Procs : /\ fetched'[p] \in {{}, fetched[p]}
                            /\ queue'[p] \in {<<>>, queue[p]}
        /\ \A v \in Workers : pc'[v] # "idle" => /\ pc'[v] = pc[v]
                                                 /\ item'[v] = item[v]
        /\ \A j \in Jobs : handler'[j] \in {handler[j], "none"}
    BY <1>4 DEF Restart
  <2>2. LoseOnly
    BY <2>1 DEF LoseOnly, Holding, Posted
  <2> QED BY <2>1, <2>2, HoldQuietStep
<1>5. ASSUME NEW p \in Procs, PollFault(p) PROVE HoldInv'
  <2>1. CASE p \in Hosts
    <3>1. UNCHANGED <<status, attempts, old, host, handler, replaying, queue,
                      fetched, pc, item>>
      BY <1>5, <2>1 DEF PollFault
    <3>2. LoseOnly
      BY <3>1 DEF LoseOnly
    <3> QED BY <3>1, <3>2, HoldQuietStep
  <2>2. CASE p \notin Hosts
    <3>1. Restart(p)
      BY <1>5, <2>2 DEF PollFault
    <3> QED BY <1>4, <3>1
  <2> QED BY <2>1, <2>2
<1>6. CASE UNCHANGED vars
  <2>1. UNCHANGED <<status, attempts, old, host, handler, replaying, queue,
                    fetched, pc, item>>
    BY <1>6 DEF vars
  <2>2. LoseOnly
    BY <2>1 DEF LoseOnly
  <2> QED BY <2>1, <2>2, HoldQuietStep
<1> QED BY <1>1, <1>2, <1>3, <1>4, <1>5, <1>6, HoldHandlerStep,
           HoldRequestStep, HoldFetch, HoldWorkerStep DEF Next, Crash

(* A job accepted by an "api" process and younger than the staleness cutoff *)
(* is never in two hands.                                                   *)
THEOREM HeldOnce == Spec => []FreshJobHeldOnce
<1>1. Init => HoldInv
  BY DEF Init, HoldInv, RowsExist, FreshHeldIsDelivering, FreshJobHeldOnce,
         Held, InLoop, InQueue, InWorker, OneCopyInLoops, OneCopyInQueues,
         OneCopyInWorkers, OneStage, Holding, Posted, Fresh
<1>2. TypeOK /\ HoldInv /\ [Next]_vars => HoldInv'
  BY HoldStep
<1>3. HoldInv => FreshJobHeldOnce
  BY DEF HoldInv
<1> QED BY <1>1, <1>2, <1>3, TypeCorrect, PTL DEF Spec

(* The row of a settled fresh job is never written again.                   *)
SettledStays(j) ==
  Fresh(j) /\ status[j] \in Settled =>
    status'[j] = status[j] /\ attemptCount'[j] = attemptCount[j]

LEMMA SettledStep ==
  ASSUME TypeOK, HoldInv, [Next]_vars, NEW j \in Jobs, Fresh(j),
         status[j] \in Settled
  PROVE  status'[j] = status[j] /\ attemptCount'[j] = attemptCount[j]
<1> USE DEF rowVars, Settled
<1>1. ~Held(j)
  BY DEF HoldInv, FreshHeldIsDelivering
<1>2. ASSUME NEW p \in Procs, NEW S \in SUBSET Jobs, Fetch(p, S)
      PROVE  status'[j] = status[j] /\ attemptCount'[j] = attemptCount[j]
  <2>1. j \notin S
    BY <1>2 DEF Fetch, Recoverable, Fresh
  <2> QED BY <1>2, <2>1 DEF Fetch
<1>3. ASSUME NEW w \in Workers, WorkerStep(w)
      PROVE  status'[j] = status[j] /\ attemptCount'[j] = attemptCount[j]
  <2>1. pc[w] \in Holding => item[w].job # j
    BY <1>1 DEF Held, InWorker
  <2>2. CASE MarkDelivering(w) \/ Touch(w) \/ BlockJob(w)
    BY <2>1, <2>2 DEF MarkDelivering, Touch, BlockJob, Holding, Posted, TypeOK
  <2>3. CASE Settle(w)
    BY <2>1, <2>3 DEF Settle, Holding, Posted, TypeOK
  <2>4. CASE ~(MarkDelivering(w) \/ Touch(w) \/ BlockJob(w) \/ Settle(w))
    BY <1>3, <2>4
       DEF WorkerStep, TakeJob, LogDelivering, ClaimGranted,
           ClaimRefused, BlockEvent, Post, RecordAttempt, LogAttempted,
           LogOutcome, FailEvent, LogFinal
  <2> QED BY <2>2, <2>3, <2>4
<1>4. ASSUME NEW r \in Jobs, NEW h \in Hosts, NEW k \in BOOLEAN,
             NEW kind \in {"webhook", "triage"}, InsertJob(r, h, k, kind)
      PROVE  status'[j] = status[j] /\ attemptCount'[j] = attemptCount[j]
  BY <1>4 DEF InsertJob, TypeOK
<1>5. ASSUME NEW i \in Jobs, NEW r \in Jobs, NEW h \in Hosts,
             ReplayInsert(i, r, h)
      PROVE  status'[j] = status[j] /\ attemptCount'[j] = attemptCount[j]
  BY <1>5 DEF ReplayInsert, TypeOK
<1>6. ASSUME NEW k \in Jobs,
             ReplayCheck(k) \/ HandlerStep(k) \/ BackoffElapses(k) \/ JobAges(k)
      PROVE  status'[j] = status[j] /\ attemptCount'[j] = attemptCount[j]
  BY <1>6 DEF ReplayCheck, HandlerStep, Enqueue, LogQueued, LogReplayed,
              BackoffElapses, JobAges
<1>7. ASSUME NEW p \in Procs, NEW it \in fetched[p], EnqueueFetched(p, it)
      PROVE  status'[j] = status[j] /\ attemptCount'[j] = attemptCount[j]
  BY <1>7 DEF EnqueueFetched
<1>8. ASSUME \/ \E w \in Workers : WorkerFault(w)
             \/ \E h \in Procs \cup Hosts : Crash(h)
             \/ \E p \in Procs : PollFault(p)
      PROVE  status'[j] = status[j] /\ attemptCount'[j] = attemptCount[j]
  BY <1>8 DEF WorkerFault, Crash, Restart, PollFault
<1>9. CASE UNCHANGED vars
  BY <1>9 DEF vars
<1> QED BY <1>2, <1>3, <1>4, <1>5, <1>6, <1>7, <1>8, <1>9 DEF Next

THEOREM SettledIsFinal == Spec => FreshSettledIsFinal
<1>1. Init => HoldInv
  BY DEF Init, HoldInv, RowsExist, FreshHeldIsDelivering, FreshJobHeldOnce,
         Held, InLoop, InQueue, InWorker, OneCopyInLoops, OneCopyInQueues,
         OneCopyInWorkers, OneStage, Holding, Posted, Fresh
<1>2. TypeOK /\ HoldInv /\ [Next]_vars => \A j \in Jobs : SettledStays(j)
  BY SettledStep DEF SettledStays
<1>3. TypeOK /\ HoldInv /\ [Next]_vars =>
        [\A j \in Jobs : Fresh(j) /\ status[j] \in Settled =>
           status'[j] = status[j] /\ attemptCount'[j] = attemptCount[j]]_vars
  BY <1>2 DEF SettledStays
<1>4. TypeOK /\ HoldInv /\ [Next]_vars => HoldInv'
  BY HoldStep
<1> QED BY <1>1, <1>3, <1>4, TypeCorrect, PTL DEF Spec, FreshSettledIsFinal

=============================================================================
