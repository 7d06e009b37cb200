------------------------------ MODULE Delivery ------------------------------
(***************************************************************************)
(* The outbound delivery pipeline of HealPipe.                             *)
(*                                                                         *)
(* A delivery job is a durable row (table delivery_jobs).  Request         *)
(* handlers insert it and, when they run in a process that also delivers,  *)
(* put a copy of it on that process's own queue.  A recovery loop in every *)
(* delivering process polls the table, marks what it finds "delivering"    *)
(* and queues a copy.  Worker threads take copies off the queue and make   *)
(* one HTTP attempt each.  Every repository call is one transaction, so it *)
(* is one step here, and anything may happen between two of them.          *)
(*                                                                         *)
(* Time is abstract: a retry's next_attempt_at may pass at any moment after*)
(* it was set, and created_at may fall behind the staleness cutoff at any  *)
(* moment after the insertion.                                             *)
(***************************************************************************)
EXTENDS Naturals, Sequences, FiniteSets

CONSTANTS
  Jobs,        \* identities of delivery_jobs rows
  NoJob,       \* original_job_id of a row that is not a replay
  Procs,       \* processes that run the worker pool and a recovery loop
  Workers,     \* worker threads
  HomeOf,      \* the process a worker thread belongs to
  Hosts,       \* where request handlers run: processes with role "all" are in
               \* Procs, ApiRole stands for the processes with role "api"
  ApiRole,
  NoHost,
  MaxAttempts, \* len(retry_backoff_seconds())
  JobHasAttemptCount,
               \* whether the queued copy carries attempt_count.  The dataclass
               \* of the repository has no such field (FALSE): reading it raises
               \* AttributeError.  TRUE is the copy the worker is written for.
  Watched,     \* bound: the ledger states that are kept
  CanAge,      \* bound: whether an instance lasts beyond the staleness cutoff
  FaultKinds,  \* the faults considered: subset of {"crash", "raise", "poll"}
  MaxFaults,   \* bound: how many faults happen
  MaxRefetches \* bound: how often a poll takes a row that is still in hand

ASSUME DeliveryAssumption ==
  /\ NoJob \notin Jobs
  /\ HomeOf \in [Workers -> Procs]
  /\ Hosts \subseteq Procs \cup {ApiRole}
  /\ ApiRole \notin Procs
  /\ NoHost \notin Procs \cup {ApiRole}
  /\ MaxAttempts \in Nat \ {0}
  /\ JobHasAttemptCount \in BOOLEAN
  /\ CanAge \in BOOLEAN
  /\ Watched \subseteq {"queued", "replayed", "delivering", "delivery_attempted",
                         "delivered", "retrying", "dead_lettered"}
  /\ FaultKinds \subseteq {"crash", "raise", "poll"}
  /\ MaxFaults \in Nat
  /\ MaxRefetches \in Nat

VARIABLES
  \* delivery_jobs
  status, attemptCount,
  due,          \* next_attempt_at <= now
  old,          \* created_at <= now - stale_seconds
  keyed,        \* the row has an idempotency_key
  origin,       \* original_job_id
  \* the other tables
  ledger,       \* event_lifecycle, as pairs <<job, state>>
  attempts,     \* delivery_attempts of each job
  eventStatus,  \* healing_events.status, indexed by the first job of the event
  \* request handlers
  host,         \* the process whose handler inserted the row
  handler,      \* what that handler still has to do
  replaying,    \* jobs a replay request has found replayable
  \* delivering processes
  queue, fetched, loopAlive,
  pc, item,
  result,       \* how the worker's current POST ended
  faults,       \* how many faults have happened
  refetches     \* how often a poll has taken a row that was still in hand

rowVars     == <<status, attemptCount, due, old, keyed, origin>>
tableVars   == <<ledger, attempts, eventStatus>>
handlerVars == <<host, handler, replaying>>
procVars    == <<queue, fetched, loopAlive>>
workerVars  == <<pc, item, result>>
boundVars   == <<faults, refetches>>
vars == <<rowVars, tableVars, handlerVars, procVars, workerVars, boundVars>>

-----------------------------------------------------------------------------
(* Types *)

Settled  == {"delivered", "dead_lettered", "idempotency_blocked"}
Unsettled == {"queued", "retrying", "delivering"}
JobStatus == Settled \cup Unsettled \cup {"absent"}

(* How one POST ends: a 2xx answer; no answer, 408, 429 or 5xx; any other   *)
(* answer.                                                                  *)
Outcomes == {"delivered", "retryable", "permanent"}
Attempt  == [number: Nat, outcome: Outcomes]

(* A queued copy: attempt_count and idempotency_key as the caller knew them *)
Item == [job: Jobs, number: Nat, keyed: BOOLEAN]

(* Worker positions, named for what the worker is about to do; up to        *)
(* "settle" the copy can still change the row.                              *)
Posted  == {"logAttempted", "logOutcome", "touch", "settle"}
Holding == Posted \cup {"mark", "logDelivering", "claim", "blockEvent",
                        "blockJob", "post", "record"}
WorkerPC == Holding \cup {"failEvent", "logFinal", "idle"}

TypeOK ==
  /\ status \in [Jobs -> JobStatus]
  /\ attemptCount \in [Jobs -> Nat]
  /\ due \in [Jobs -> BOOLEAN]
  /\ old \in [Jobs -> BOOLEAN]
  /\ keyed \in [Jobs -> BOOLEAN]
  /\ origin \in [Jobs -> Jobs \cup {NoJob}]
  /\ ledger \subseteq Jobs \X Watched
  /\ attempts \in [Jobs -> Seq(Attempt)]
  /\ eventStatus \in
       [Jobs -> {"accepted", "delivery_failed", "idempotency_blocked"}]
  /\ host \in [Jobs -> Hosts \cup {NoHost}]
  /\ handler \in [Jobs -> {"none", "webhook", "triage", "logQueued",
                           "logReplayed", "replay"}]
  /\ replaying \subseteq Jobs
  /\ queue \in [Procs -> Seq(Item)]
  /\ fetched \in [Procs -> SUBSET Item]
  /\ loopAlive \in [Procs -> BOOLEAN]
  /\ pc \in [Workers -> WorkerPC]
  /\ item \in [Workers -> Item \cup {NoJob}]
  /\ \A w \in Workers : pc[w] # "idle" => item[w] \in Item
  /\ result \in [Workers -> Outcomes]
  /\ faults \in Nat
  /\ refetches \in Nat

Init ==
  /\ status = [j \in Jobs |-> "absent"]
  /\ attemptCount = [j \in Jobs |-> 0]
  /\ due = [j \in Jobs |-> FALSE]
  /\ old = [j \in Jobs |-> FALSE]
  /\ keyed = [j \in Jobs |-> FALSE]
  /\ origin = [j \in Jobs |-> NoJob]
  /\ ledger = {}
  /\ attempts = [j \in Jobs |-> <<>>]
  /\ eventStatus = [j \in Jobs |-> "accepted"]
  /\ host = [j \in Jobs |-> NoHost]
  /\ handler = [j \in Jobs |-> "none"]
  /\ replaying = {}
  /\ queue = [p \in Procs |-> <<>>]
  /\ fetched = [p \in Procs |-> {}]
  /\ loopAlive = [p \in Procs |-> TRUE]
  /\ pc = [w \in Workers |-> "idle"]
  /\ item = [w \in Workers |-> NoJob]
  /\ result = [w \in Workers |-> "retryable"]
  /\ faults = 0
  /\ refetches = 0

-----------------------------------------------------------------------------
(* Who has a copy of a job in hand; and what goes wrong, counted *)

InLoop(p, j)   == \E it \in fetched[p] : it.job = j
InQueue(p, j)  == \E i \in DOMAIN queue[p] : queue[p][i].job = j
InWorker(w, j) == pc[w] \in Holding /\ item[w].job = j

Held(j) ==
  \/ \E p \in Procs : InLoop(p, j) \/ InQueue(p, j)
  \/ \E w \in Workers : InWorker(w, j)

Fault(kind) ==
  /\ kind \in FaultKinds
  /\ faults < MaxFaults
  /\ faults' = faults + 1
  /\ UNCHANGED refetches

-----------------------------------------------------------------------------
(* Request handlers *)

(* Mutant: a replay of a replay points at the replay.                       *)
RootIsParent(j) == j

Root(j) == IF origin[j] = NoJob THEN j ELSE origin[j]

Log(j, state) ==
  ledger' = IF state \in Watched THEN ledger \cup {<<j, state>>} ELSE ledger

(* receive_webhook and resolve_triage persist the job first.  Only a        *)
(* webhook's job carries the sender's idempotency_key.                      *)
InsertJob(j, h, k, kind) ==
  /\ status[j] = "absent"
  /\ k => kind = "webhook"
  /\ status'  = [status EXCEPT ![j] = "queued"]
  /\ due'     = [due EXCEPT ![j] = TRUE]
  /\ keyed'   = [keyed EXCEPT ![j] = k]
  /\ host'    = [host EXCEPT ![j] = h]
  /\ handler' = [handler EXCEPT ![j] = kind]
  /\ UNCHANGED <<attemptCount, old, origin, tableVars, replaying, procVars,
                 workerVars, boundVars>>

(* enqueue_delivery returns at once in a process with role "api".           *)
QueuesLocally(h) == h \in Procs

(* The copy a handler queues has attempt_count 0, and the key only if the   *)
(* handler is a replay.  receive_webhook appends "queued" afterwards.       *)
Enqueue(j) ==
  /\ handler[j] \in {"webhook", "triage", "replay"}
  /\ queue' = IF QueuesLocally(host[j])
              THEN [queue EXCEPT ![host[j]] =
                      Append(@, [job    |-> j,
                                 number |-> 0,
                                 keyed  |-> handler[j] = "replay" /\ keyed[j]])]
              ELSE queue
  /\ handler' = [handler EXCEPT ![j] = IF @ = "webhook" THEN "logQueued"
                                                        ELSE "none"]
  /\ UNCHANGED <<rowVars, tableVars, host, replaying, fetched, loopAlive,
                 workerVars, boundVars>>

LogQueued(j) ==
  /\ handler[j] = "logQueued"
  /\ handler' = [handler EXCEPT ![j] = "none"]
  /\ Log(j, "queued")
  /\ UNCHANGED <<rowVars, attempts, eventStatus, host, replaying, procVars,
                 workerVars, boundVars>>

(* replay_delivery_job reads the row in one session and inserts the replay  *)
(* in another.  "delivery_failed", the third status it accepts, is one no   *)
(* row can have.                                                            *)
Replayable(s) == s \in {"dead_lettered", "retrying"}

ReplayCheck(j) ==
  /\ j \notin replaying
  /\ Replayable(status[j])
  /\ replaying' = replaying \cup {j}
  /\ UNCHANGED <<rowVars, tableVars, host, handler, procVars, workerVars,
                 boundVars>>

ReplayInsert(j, r, h) ==
  /\ j \in replaying
  /\ status[r] = "absent"
  /\ replaying' = replaying \ {j}
  /\ status'  = [status EXCEPT ![r] = "queued"]
  /\ due'     = [due EXCEPT ![r] = TRUE]
  /\ keyed'   = [keyed EXCEPT ![r] = keyed[j]]
  /\ origin'  = [origin EXCEPT ![r] = Root(j)]
  /\ host'    = [host EXCEPT ![r] = h]
  /\ handler' = [handler EXCEPT ![r] = "logReplayed"]
  /\ UNCHANGED <<attemptCount, old, tableVars, procVars, workerVars, boundVars>>

LogReplayed(r) ==
  /\ handler[r] = "logReplayed"
  /\ handler' = [handler EXCEPT ![r] = "replay"]
  /\ Log(r, "replayed")
  /\ UNCHANGED <<rowVars, attempts, eventStatus, host, replaying, procVars,
                 workerVars, boundVars>>

-----------------------------------------------------------------------------
(* The recovery loops *)

(* Mutants: no cutoff for "delivering"; dead letters taken again; rows left *)
(* "delivering", or retries, forgotten.                                     *)
RecoverableAtOnce(j) ==
  \/ status[j] \in {"queued", "retrying"} /\ due[j]
  \/ status[j] = "delivering"

RecoverableDeadLetters(j) ==
  \/ status[j] \in {"queued", "retrying", "dead_lettered"} /\ due[j]
  \/ status[j] = "delivering" /\ old[j]

RecoverableButHeld(j) == status[j] \in {"queued", "retrying"} /\ due[j]

RecoverableButRetries(j) ==
  \/ status[j] = "queued" /\ due[j]
  \/ status[j] = "delivering" /\ old[j]

Recoverable(j) ==
  \/ status[j] \in {"queued", "retrying"} /\ due[j]
  \/ status[j] = "delivering" /\ old[j]

(* The attempt count that the worker finds on a polled copy.  The loops pass*)
(* none.  Where the copy has the field, the row's own is what it is taken to*)
(* be: the repair that the worker's first line supposes.                    *)
CountOn(j) == IF JobHasAttemptCount THEN attemptCount[j] ELSE 0

(* The copy a loop queues: what it passes of the row, and that count.       *)
Snapshot(j) == [job |-> j, number |-> CountOn(j), keyed |-> keyed[j]]

(* A poll does not know who holds copies, and takes a row "delivering" past *)
(* the cutoff, or one its own handler has queued, while they do.            *)
CountRefetch(S) ==
  IF \E j \in S : Held(j)
  THEN refetches < MaxRefetches /\ refetches' = refetches + 1
  ELSE UNCHANGED refetches

(* fetch_recoverable_delivery_jobs is one transaction.  It skips rows that  *)
(* another transaction has locked: S is what is left.                       *)
Fetch(p, S) ==
  /\ loopAlive[p]
  /\ fetched[p] = {}
  /\ S # {}
  /\ \A j \in S : Recoverable(j)
  /\ status'  = [j \in Jobs |-> IF j \in S THEN "delivering" ELSE status[j]]
  /\ fetched' = [fetched EXCEPT ![p] = {Snapshot(j) : j \in S}]
  /\ CountRefetch(S)
  /\ UNCHANGED <<attemptCount, due, old, keyed, origin, tableVars, handlerVars,
                 queue, loopAlive, workerVars, faults>>

EnqueueFetched(p, it) ==
  /\ it \in fetched[p]
  /\ fetched' = [fetched EXCEPT ![p] = @ \ {it}]
  /\ queue'   = [queue EXCEPT ![p] = Append(@, it)]
  /\ UNCHANGED <<rowVars, tableVars, handlerVars, loopAlive, workerVars, boundVars>>

-----------------------------------------------------------------------------
(* The workers *)

Unqueue(w) ==
  /\ pc[w] = "idle"
  /\ queue[HomeOf[w]] # <<>>
  /\ queue' = [queue EXCEPT ![HomeOf[w]] = Tail(@)]

(* The first thing a worker does with a copy is to read its attempt_count.  *)
(* Without one that raises AttributeError: the copy is dropped.             *)
TakeJob(w) ==
  /\ Unqueue(w)
  /\ IF JobHasAttemptCount
     THEN /\ item' = [item EXCEPT ![w] = Head(queue[HomeOf[w]])]
          /\ pc'   = [pc EXCEPT ![w] = "mark"]
          /\ UNCHANGED result
     ELSE UNCHANGED workerVars
  /\ UNCHANGED <<rowVars, tableVars, handlerVars, fetched, loopAlive, boundVars>>

Number(w) == item[w].number + 1

(* A worker moves on, or is done with its copy.                             *)
Goto(w, next) ==
  /\ pc' = [pc EXCEPT ![w] = next]
  /\ UNCHANGED <<item, result>>

(* Mutant: the copy is dropped and the worker carries on.                   *)
ReleaseAndCarryOn(w) ==
  /\ item' = [item EXCEPT ![w] = NoJob]
  /\ UNCHANGED <<pc, result>>

Release(w) ==
  /\ pc'     = [pc EXCEPT ![w] = "idle"]
  /\ item'   = [item EXCEPT ![w] = NoJob]
  /\ result' = [result EXCEPT ![w] = "retryable"]

MarkDelivering(w) ==
  /\ pc[w] = "mark"
  /\ status'       = [status EXCEPT ![item[w].job] = "delivering"]
  /\ attemptCount' = [attemptCount EXCEPT ![item[w].job] = Number(w)]
  /\ Goto(w, "logDelivering")
  /\ UNCHANGED <<due, old, keyed, origin, tableVars, handlerVars, procVars,
                 boundVars>>

LogDelivering(w) ==
  /\ pc[w] = "logDelivering"
  /\ Log(item[w].job, "delivering")
  /\ Goto(w, IF item[w].keyed THEN "claim" ELSE "post")
  /\ UNCHANGED <<rowVars, attempts, eventStatus, handlerVars, procVars, boundVars>>

(* Both claims of the key, the process's own and the table's.  Another      *)
(* event, or an earlier attempt of this one, may hold the key.              *)
ClaimGranted(w) ==
  /\ pc[w] = "claim"
  /\ Goto(w, "post")
  /\ UNCHANGED <<rowVars, tableVars, handlerVars, procVars, boundVars>>

ClaimRefused(w) ==
  /\ pc[w] = "claim"
  /\ Goto(w, "blockEvent")
  /\ UNCHANGED <<rowVars, tableVars, handlerVars, procVars, boundVars>>

BlockEvent(w) ==
  /\ pc[w] = "blockEvent"
  /\ eventStatus' =
       [eventStatus EXCEPT ![Root(item[w].job)] = "idempotency_blocked"]
  /\ Goto(w, "blockJob")
  /\ UNCHANGED <<rowVars, ledger, attempts, handlerVars, procVars, boundVars>>

BlockJob(w) ==
  /\ pc[w] = "blockJob"
  /\ status'       = [status EXCEPT ![item[w].job] = "idempotency_blocked"]
  /\ attemptCount' = [attemptCount EXCEPT ![item[w].job] = 1]
  /\ Release(w)
  /\ UNCHANGED <<due, old, keyed, origin, tableVars, handlerVars, procVars,
                 boundVars>>

(* Mutant: nobody waits for the attempt to be recorded.                     *)
PostUnrecorded(w, o) ==
  /\ pc[w] = "post"
  /\ result' = [result EXCEPT ![w] = o]
  /\ pc'     = [pc EXCEPT ![w] = "logAttempted"]
  /\ UNCHANGED <<rowVars, tableVars, handlerVars, procVars, item, boundVars>>

Post(w, o) ==
  /\ pc[w] = "post"
  /\ result' = [result EXCEPT ![w] = o]
  /\ pc'     = [pc EXCEPT ![w] = "record"]
  /\ UNCHANGED <<rowVars, tableVars, handlerVars, procVars, item, boundVars>>

RecordAttempt(w) ==
  /\ pc[w] = "record"
  /\ attempts' = [attempts EXCEPT ![item[w].job] =
                    Append(@, [number |-> Number(w), outcome |-> result[w]])]
  /\ Goto(w, "logAttempted")
  /\ UNCHANGED <<rowVars, ledger, eventStatus, handlerVars, procVars, boundVars>>

LogAttempted(w) ==
  /\ pc[w] = "logAttempted"
  /\ Log(item[w].job, "delivery_attempted")
  /\ Goto(w, "logOutcome")
  /\ UNCHANGED <<rowVars, attempts, eventStatus, handlerVars, procVars, boundVars>>

(* Every failure is logged as "retrying", also one that is permanent.       *)
LogOutcome(w) ==
  /\ pc[w] = "logOutcome"
  /\ Log(item[w].job,
         IF result[w] = "delivered" THEN "delivered" ELSE "retrying")
  /\ Goto(w, "touch")
  /\ UNCHANGED <<rowVars, attempts, eventStatus, handlerVars, procVars, boundVars>>

Touch(w) ==
  /\ pc[w] = "touch"
  /\ status'       = [status EXCEPT ![item[w].job] = "delivering"]
  /\ attemptCount' = [attemptCount EXCEPT ![item[w].job] = Number(w)]
  /\ Goto(w, "settle")
  /\ UNCHANGED <<due, old, keyed, origin, tableVars, handlerVars, procVars,
                 boundVars>>

(* Mutant: one retry too many.                                              *)
FinalStatusLate(outcome, number) ==
  CASE outcome = "delivered" -> "delivered"
    [] outcome = "retryable" /\ number <= MaxAttempts -> "retrying"
    [] OTHER -> "dead_lettered"

FinalStatus(outcome, number) ==
  CASE outcome = "delivered" -> "delivered"
    [] outcome = "retryable" /\ number < MaxAttempts -> "retrying"
    [] OTHER -> "dead_lettered"

AfterSettle(final) == IF final = "dead_lettered" THEN "failEvent" ELSE "logFinal"

(* Mutant: the attempt number is left as Touch wrote it.                    *)
SettleStatusOnly(w) ==
  LET j     == item[w].job
      final == FinalStatus(result[w], Number(w))
  IN  /\ pc[w] = "settle"
      /\ status' = [status EXCEPT ![j] = final]
      /\ due'    = [due EXCEPT ![j] = @ /\ final # "retrying"]
      /\ Goto(w, AfterSettle(final))
      /\ UNCHANGED <<attemptCount, old, keyed, origin, tableVars, handlerVars,
                     procVars, boundVars>>

(* The worker's last word on the row.  A retry is due only after a backoff. *)
Settle(w) ==
  LET j     == item[w].job
      final == FinalStatus(result[w], Number(w))
  IN  /\ pc[w] = "settle"
      /\ status'       = [status EXCEPT ![j] = final]
      /\ attemptCount' = [attemptCount EXCEPT ![j] = Number(w)]
      /\ due'          = [due EXCEPT ![j] = @ /\ final # "retrying"]
      /\ Goto(w, AfterSettle(final))
      /\ UNCHANGED <<old, keyed, origin, tableVars, handlerVars, procVars, boundVars>>

FailEvent(w) ==
  /\ pc[w] = "failEvent"
  /\ eventStatus' =
       [eventStatus EXCEPT ![Root(item[w].job)] = "delivery_failed"]
  /\ Goto(w, "logFinal")
  /\ UNCHANGED <<rowVars, ledger, attempts, handlerVars, procVars, boundVars>>

LogFinal(w) ==
  /\ pc[w] = "logFinal"
  /\ Log(item[w].job, FinalStatus(result[w], Number(w)))
  /\ Release(w)
  /\ UNCHANGED <<rowVars, attempts, eventStatus, handlerVars, procVars, boundVars>>

-----------------------------------------------------------------------------
(* Time and faults *)

BackoffElapses(j) ==
  /\ status[j] # "absent" /\ ~due[j]
  /\ due' = [due EXCEPT ![j] = TRUE]
  /\ UNCHANGED <<status, attemptCount, old, keyed, origin, tableVars,
                 handlerVars, procVars, workerVars, boundVars>>

JobAges(j) ==
  /\ CanAge
  /\ status[j] # "absent" /\ ~old[j]
  /\ old' = [old EXCEPT ![j] = TRUE]
  /\ UNCHANGED <<status, attemptCount, due, keyed, origin, tableVars,
                 handlerVars, procVars, workerVars, boundVars>>

(* A repository call of the worker raises: the copy is dropped.             *)
WorkerFault(w) ==
  /\ Fault("raise")
  /\ pc[w] # "idle"
  /\ Release(w)
  /\ UNCHANGED <<rowVars, tableVars, handlerVars, procVars>>

(* What a process keeps in memory is gone when it stops; it starts again    *)
(* with a new recovery loop.                                                *)
Restart(h) ==
  /\ queue'     = [p \in Procs |-> IF p = h THEN <<>> ELSE queue[p]]
  /\ fetched'   = [p \in Procs |-> IF p = h THEN {} ELSE fetched[p]]
  /\ loopAlive' = [p \in Procs |-> p = h \/ loopAlive[p]]
  /\ pc'   = [w \in Workers |-> IF HomeOf[w] = h THEN "idle" ELSE pc[w]]
  /\ item' = [w \in Workers |-> IF HomeOf[w] = h THEN NoJob ELSE item[w]]
  /\ result' = [w \in Workers |-> IF HomeOf[w] = h THEN "retryable"
                                                   ELSE result[w]]
  /\ handler' = [j \in Jobs |-> IF host[j] = h THEN "none" ELSE handler[j]]
  /\ UNCHANGED <<rowVars, tableVars, host, replaying>>

Crash(h) == Fault("crash") /\ Restart(h)

(* A poll raises.  The loop of main.py is a task nobody awaits: it ends and *)
(* the process goes on without it.  worker.py awaits it: the process ends.  *)
PollFault(p) ==
  /\ Fault("poll")
  /\ loopAlive[p]
  /\ fetched[p] = {}
  /\ \/ /\ p \in Hosts
        /\ loopAlive' = [loopAlive EXCEPT ![p] = FALSE]
        /\ UNCHANGED <<rowVars, tableVars, handlerVars, queue, fetched,
                       workerVars>>
     \/ p \notin Hosts /\ Restart(p)

-----------------------------------------------------------------------------
HandlerStep(j) == Enqueue(j) \/ LogQueued(j) \/ LogReplayed(j)

WorkerStep(w) ==
  \/ TakeJob(w) \/ MarkDelivering(w) \/ LogDelivering(w)
  \/ ClaimGranted(w) \/ ClaimRefused(w) \/ BlockEvent(w) \/ BlockJob(w)
  \/ \E o \in Outcomes : Post(w, o)
  \/ RecordAttempt(w) \/ LogAttempted(w) \/ LogOutcome(w) \/ Touch(w)
  \/ Settle(w) \/ FailEvent(w) \/ LogFinal(w)

Next ==
  \/ \E j \in Jobs, h \in Hosts, k \in BOOLEAN, kind \in {"webhook", "triage"} :
       InsertJob(j, h, k, kind)
  \/ \E j \in Jobs : ReplayCheck(j)
  \/ \E j, r \in Jobs, h \in Hosts : ReplayInsert(j, r, h)
  \/ \E j \in Jobs : HandlerStep(j)
  \/ \E p \in Procs, S \in SUBSET Jobs : Fetch(p, S)
  \/ \E p \in Procs : \E it \in fetched[p] : EnqueueFetched(p, it)
  \/ \E w \in Workers : WorkerStep(w)
  \/ \E j \in Jobs : BackoffElapses(j) \/ JobAges(j)
  \/ \E w \in Workers : WorkerFault(w)
  \/ \E h \in Procs \cup Hosts : Crash(h)
  \/ \E p \in Procs : PollFault(p)

Spec == Init /\ [][Next]_vars

(* Requests run to their end, polls and workers keep going, time passes.    *)
(* Fetching is strongly fair: a row may be locked, or taken by another loop,*)
(* each time a given loop looks.                                            *)
Fairness ==
  /\ \A j \in Jobs :
       /\ WF_vars(HandlerStep(j))
       /\ SF_vars(\E p \in Procs, S \in SUBSET Jobs : j \in S /\ Fetch(p, S))
       /\ WF_vars(BackoffElapses(j))
       /\ WF_vars(JobAges(j))
  /\ \A p \in Procs : WF_vars(\E it \in fetched[p] : EnqueueFetched(p, it))
  /\ \A w \in Workers : WF_vars(WorkerStep(w))

FairSpec == Spec /\ Fairness

-----------------------------------------------------------------------------
(* Safety *)

OneCopyInLoops(j) ==
  \A p, q \in Procs : \A a \in fetched[p], b \in fetched[q] :
    a.job = j /\ b.job = j => p = q /\ a = b

OneCopyInQueues(j) ==
  \A p, q \in Procs : \A i \in DOMAIN queue[p], k \in DOMAIN queue[q] :
    queue[p][i].job = j /\ queue[q][k].job = j => p = q /\ i = k

OneCopyInWorkers(j) ==
  \A v, w \in Workers : InWorker(v, j) /\ InWorker(w, j) => v = w

OneStage(j) ==
  /\ \A p, q \in Procs : ~(InLoop(p, j) /\ InQueue(q, j))
  /\ \A p \in Procs, w \in Workers :
       InWorker(w, j) => ~InLoop(p, j) /\ ~InQueue(p, j)

(* A job accepted by a process that does not deliver, and younger than the  *)
(* staleness cutoff, is in one pair of hands at most, however the polls,    *)
(* crashes and replays of several delivering processes interleave.  This is *)
(* what marking the row "delivering" under FOR UPDATE SKIP LOCKED is for.   *)
Fresh(j) == host[j] = ApiRole /\ ~old[j]

FreshJobHeldOnce ==
  \A j \in Jobs : Fresh(j) =>
    /\ OneCopyInLoops(j)
    /\ OneCopyInQueues(j)
    /\ OneCopyInWorkers(j)
    /\ OneStage(j)

(* So its attempts are numbered 1, 2, ... without a gap or a repetition,    *)
(* never more than the retry budget, and stop at the first success.         *)
FreshAttemptsInOrder ==
  \A j \in Jobs : Fresh(j) =>
    /\ Len(attempts[j]) <= MaxAttempts
    /\ \A i \in DOMAIN attempts[j] :
         /\ attempts[j][i].number = i
         /\ i < Len(attempts[j]) => attempts[j][i].outcome = "retryable"

(* Whoever writes the row last, its status is what a recorded attempt with  *)
(* the row's own number implies.                                            *)
Exhausts(a) ==
  \/ a.outcome = "permanent"
  \/ a.outcome = "retryable" /\ a.number >= MaxAttempts

Implies(a, s) ==
  CASE s = "delivered"     -> a.outcome = "delivered"
    [] s = "retrying"      -> a.outcome = "retryable" /\ a.number < MaxAttempts
    [] s = "dead_lettered" -> Exhausts(a)

OutcomeIsEvidenced ==
  \A j \in Jobs : status[j] \in {"delivered", "retrying", "dead_lettered"} =>
    \E i \in DOMAIN attempts[j] :
      /\ attempts[j][i].number = attemptCount[j]
      /\ Implies(attempts[j][i], status[j])

(* The ledger and the event projection never claim an outcome of which no   *)
(* attempt of the event's jobs is on record, whatever crashed in between.   *)
ClaimsAreEvidenced ==
  /\ \A j \in Jobs : <<j, "delivered">> \in ledger =>
       \E i \in DOMAIN attempts[j] : attempts[j][i].outcome = "delivered"
  /\ \A j \in Jobs : <<j, "dead_lettered">> \in ledger =>
       \E i \in DOMAIN attempts[j] : Exhausts(attempts[j][i])
  /\ \A e \in Jobs : eventStatus[e] = "delivery_failed" =>
       \E j \in Jobs : /\ Root(j) = e
                       /\ \E i \in DOMAIN attempts[j] : Exhausts(attempts[j][i])

(* A replay of a replay points at the first job, so one hop reaches it.     *)
ReplayLineageIsFlat ==
  \A r \in Jobs : origin[r] # NoJob =>
    /\ origin[origin[r]] = NoJob
    /\ status[origin[r]] # "absent"
    /\ keyed[r] = keyed[origin[r]]

(* A fresh job's settled row is never written again.                        *)
FreshSettledIsFinal ==
  [][\A j \in Jobs : Fresh(j) /\ status[j] \in Settled =>
       status'[j] = status[j] /\ attemptCount'[j] = attemptCount[j]]_vars

-----------------------------------------------------------------------------
(* What the safety invariants rest on: with them they are inductive *)

(* Nothing refers to a row that does not exist.                             *)
RowsExist ==
  \A j \in Jobs : status[j] = "absent" =>
    /\ ~Held(j)
    /\ handler[j] = "none"
    /\ j \notin replaying
    /\ attempts[j] = <<>>
    /\ \A w \in Workers : pc[w] # "idle" => item[w].job # j

(* While a fresh job is held its row says "delivering": no poll takes it.   *)
FreshHeldIsDelivering ==
  \A j \in Jobs : Fresh(j) /\ Held(j) => status[j] = "delivering"

(* A worker past its POST has put the attempt on record.                    *)
Recorded(w) ==
  \E i \in DOMAIN attempts[item[w].job] :
    attempts[item[w].job][i] = [number |-> Number(w), outcome |-> result[w]]

PostedIsRecorded ==
  \A w \in Workers :
    /\ pc[w] \in Posted \cup {"failEvent", "logFinal"} => Recorded(w)
    /\ pc[w] = "failEvent" =>
         FinalStatus(result[w], Number(w)) = "dead_lettered"

HoldInv == RowsExist /\ FreshHeldIsDelivering /\ FreshJobHeldOnce

EvidenceInv == PostedIsRecorded /\ OutcomeIsEvidenced /\ ClaimsAreEvidenced

-----------------------------------------------------------------------------
(* What the pipeline promises, whatever its tables and threads do: module   *)
(* DeliveryPromise, read off the row and off who holds the job.             *)
StageOf(j) ==
  IF status[j] = "absent"         THEN "absent"
  ELSE IF ~Fresh(j)               THEN "outside"
  ELSE IF status[j] \in Settled   THEN status[j]
  ELSE IF Held(j)                 THEN "inHand"
  ELSE IF status[j] = "delivering" THEN "abandoned"
  ELSE "waiting"

TriesOf(j) == IF Fresh(j) THEN attempts[j] ELSE <<>>

Promise == INSTANCE DeliveryPromise
             WITH stage <- [j \in Jobs |-> StageOf(j)],
                  tries <- [j \in Jobs |-> TriesOf(j)]

(* Every run of the pipeline is a run of the promise (README.md:89-96).     *)
ImplementsPromise == Promise!Spec

-----------------------------------------------------------------------------
(* Liveness, of FairSpec *)

(* README.md:95: "The worker performs one HTTP attempt and records its      *)
(* response."  Every queued job comes to an attempt, or is blocked because  *)
(* its business key is taken.                                               *)
QueuedIsAttempted ==
  \A j \in Jobs :
    status[j] = "queued" ~>
      attempts[j] # <<>> \/ status[j] = "idempotency_blocked"

(* README.md:96: "The job is delivered, scheduled for retry, or             *)
(* dead-lettered."  Every job that waits or is on its way ends, and for     *)
(* good, also one whose row had ended and was put back to "delivering" by a *)
(* second copy of it: provided that only finitely often something fails, or *)
(* a poll takes a row that is still in hand.                                *)
QueuedIsSettled ==
  \A j \in Jobs : status[j] \in Unsettled ~> [](status[j] \in Settled)

=============================================================================
