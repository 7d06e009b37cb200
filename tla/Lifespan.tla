------------------------------ MODULE Lifespan ------------------------------
(***************************************************************************)
(* The life of a HealPipe process: how it starts its worker threads and    *)
(* its background tasks, and how it stops them.                            *)
(*                                                                         *)
(* A process has one event loop.  Coroutines run on it: the lifespan (or   *)
(* worker.py's run), the recovery loop, the digest scheduler.  Worker      *)
(* threads take copies of jobs off the process's queue, and every          *)
(* repository call and every POST of a job is a coroutine that the thread  *)
(* submits to that loop and waits for, without a timeout.  Stopping joins  *)
(* the threads from a coroutine, so while it waits the loop runs nothing.  *)
(*                                                                         *)
(* The scheduler of every process wakes up now and then and mails a weekly *)
(* digest for each active bridge.  A row of digest_runs, unique for bridge *)
(* and week, decides which process does it; it is committed first.         *)
(*                                                                         *)
(* Weeks are numbered; a scheduler may wake at any moment, because its     *)
(* interval is configured and starts when the process does.                *)
(***************************************************************************)
EXTENDS Naturals, Sequences, FiniteSets

CONSTANTS
  Procs,     \* processes that run worker threads and the scheduler
  Servers,   \* those that run main.py; the others run worker.py
  Workers,   \* worker threads
  HomeOf,    \* the process a worker thread belongs to
  Copy, Sentinel,  \* what a queue holds: a copy of a job, or None
  JobHasAttemptCount,
             \* whether a copy carries attempt_count; see Delivery
  Bridges, Events,
  BridgeOf,  \* the bridge an event came in through
  None,      \* no bridge, no week
  MaxWeek,   \* bound: the last week
  MaxStarts, \* bound: how often processes start
  MaxPuts,   \* bound: how many copies are queued
  MaxFaults  \* bound: how many faults happen

ASSUME LifespanAssumption ==
  /\ Servers \subseteq Procs
  /\ HomeOf \in [Workers -> Procs] /\ IsFiniteSet(Workers)
  /\ Copy # Sentinel
  /\ JobHasAttemptCount \in BOOLEAN
  /\ BridgeOf \in [Events -> Bridges]
  /\ MaxWeek \in Nat
  /\ None \notin Nat \cup Bridges
  /\ {MaxStarts, MaxPuts, MaxFaults} \subseteq Nat

Weeks == 0..MaxWeek
Ours(p) == {w \in Workers : HomeOf[w] = p}

VARIABLES
  \* the processes
  phase, running, queue, pc,
  left,        \* threads that stop_queue_workers has still to join
  \* the schedulers
  sched, period, todo, bridge,
  picked,      \* the events of the digest in hand
  \* the tables
  claims,      \* digest_runs
  born,        \* the week of an event's created_at
  healed,      \* the week in which it became "validated" or "healed"
  failed,      \* events that are "delivery_failed" or "idempotency_blocked"
  \* what went out
  mails,       \* how many digests of a bridge and a week
  mailed,      \* the events in them, as pairs <<week, event>>
  quiet,       \* claims whose query found nothing
  lost,        \* claims of which no mail came
  \* time, faults and bounds
  week, faults, starts, puts

processVars  == <<phase, running, queue, pc, left>>
scheduleVars == <<sched, period, todo, bridge, picked>>
eventVars    == <<born, healed, failed>>
outVars      == <<mails, mailed, quiet>>
boundVars    == <<starts, puts>>
vars == <<processVars, scheduleVars, claims, eventVars, outVars, lost, week,
          faults, boundVars>>

Phases == {"down", "starting", "up", "cancelling", "joining", "closing"}

TypeOK ==
  /\ phase \in [Procs -> Phases]
  /\ running \in [Procs -> BOOLEAN]
  /\ queue \in [Procs -> Seq({Copy, Sentinel})]
  /\ pc \in [Workers -> {"absent", "check", "get", "job", "gone"}]
  /\ left \in [Procs -> SUBSET Workers]
  /\ sched \in [Procs -> {"off", "asleep", "round", "query", "mail"}]
  /\ period \in [Procs -> Weeks]
  /\ todo \in [Procs -> SUBSET Bridges]
  /\ bridge \in [Procs -> Bridges \cup {None}]
  /\ picked \in [Procs -> SUBSET Events]
  /\ claims \subseteq Bridges \X Weeks
  /\ born \in [Events -> Weeks \cup {None}]
  /\ healed \in [Events -> Weeks \cup {None}]
  /\ failed \subseteq Events
  /\ mails \in [Bridges \X Weeks -> Nat]
  /\ mailed \subseteq Weeks \X Events
  /\ quiet \subseteq Bridges \X Weeks
  /\ lost \subseteq Bridges \X Weeks
  /\ week \in Weeks
  /\ faults \in Nat /\ starts \in Nat /\ puts \in Nat

Init ==
  /\ phase = [p \in Procs |-> "down"]
  /\ running = [p \in Procs |-> FALSE]
  /\ queue = [p \in Procs |-> <<>>]
  /\ pc = [w \in Workers |-> "absent"]
  /\ left = [p \in Procs |-> {}]
  /\ sched = [p \in Procs |-> "off"]
  /\ period = [p \in Procs |-> 0]
  /\ todo = [p \in Procs |-> {}]
  /\ bridge = [p \in Procs |-> None]
  /\ picked = [p \in Procs |-> {}]
  /\ claims = {}
  /\ born = [e \in Events |-> None]
  /\ healed = [e \in Events |-> None]
  /\ failed = {}
  /\ mails = [d \in Bridges \X Weeks |-> 0]
  /\ mailed = {} /\ quiet = {} /\ lost = {}
  /\ week = 0
  /\ faults = 0 /\ starts = 0 /\ puts = 0

-----------------------------------------------------------------------------
(* Starting *)

Fault == faults < MaxFaults /\ faults' = faults + 1

SetWorkers(p, to) ==
  pc' = [w \in Workers |-> IF HomeOf[w] = p THEN to ELSE pc[w]]

(* A new process: start_queue_workers, then the tasks.  main.py fetches     *)
(* recoverable jobs once in between.                                        *)
Start(p) ==
  /\ phase[p] = "down"
  /\ starts < MaxStarts
  /\ starts'  = starts + 1
  /\ running' = [running EXCEPT ![p] = TRUE]
  /\ SetWorkers(p, "check")
  /\ phase'   = [phase EXCEPT ![p] = IF p \in Servers THEN "starting" ELSE "up"]
  /\ sched'   = [sched EXCEPT ![p] = IF p \in Servers THEN "off" ELSE "asleep"]
  /\ UNCHANGED <<queue, left, period, todo, bridge, picked, claims, eventVars,
                 outVars, lost, week, faults, puts>>

StartTasks(p) ==
  /\ phase[p] = "starting"
  /\ phase' = [phase EXCEPT ![p] = "up"]
  /\ sched' = [sched EXCEPT ![p] = "asleep"]
  /\ UNCHANGED <<running, queue, pc, left, period, todo, bridge, picked, claims,
                 eventVars, outVars, lost, week, faults, boundVars>>

(* enqueue_delivery: the first fetch, the recovery loop or a handler.       *)
Put(p) ==
  /\ phase[p] \in {"starting", "up"}
  /\ puts < MaxPuts
  /\ puts'  = puts + 1
  /\ queue' = [queue EXCEPT ![p] = Append(@, Copy)]
  /\ UNCHANGED <<phase, running, pc, left, scheduleVars, claims, eventVars,
                 outVars, lost, week, faults, starts>>

-----------------------------------------------------------------------------
(* The worker threads *)

WorkerStep(w, from, to) ==
  /\ pc[w] = from
  /\ pc' = [pc EXCEPT ![w] = to]
  /\ UNCHANGED <<phase, running, left, scheduleVars, claims, eventVars, outVars,
                 lost, week, faults, boundVars>>

(* while _running.is_set()                                                  *)
CheckRunning(w) ==
  /\ WorkerStep(w, "check", IF running[HomeOf[w]] THEN "get" ELSE "gone")
  /\ UNCHANGED queue

(* A thread that takes None ends.  One that takes a copy reads its          *)
(* attempt_count first; without one that raises, and the copy is dropped.   *)
AfterTaking(x) ==
  CASE x = Sentinel                      -> "gone"
    [] x = Copy /\ JobHasAttemptCount    -> "job"
    [] x = Copy /\ ~JobHasAttemptCount   -> "check"

Get(w) ==
  /\ queue[HomeOf[w]] # <<>>
  /\ WorkerStep(w, "get", AfterTaking(Head(queue[HomeOf[w]])))
  /\ queue' = [queue EXCEPT ![HomeOf[w]] = Tail(@)]

(* A job needs the loop again and again, up to its last call or one that    *)
(* raises: for the calls before that one nothing changes here.              *)
LoopIsFree(p) == phase[p] # "joining"

EndJob(w) ==
  /\ LoopIsFree(HomeOf[w])
  /\ WorkerStep(w, "job", "check")
  /\ UNCHANGED queue

-----------------------------------------------------------------------------
(* Stopping *)

(* The scheduler of p is cancelled, ends by an exception, or is gone with   *)
(* its process.  A digest it has claimed and not mailed is never mailed.    *)
InHand(p) ==
  IF sched[p] \in {"query", "mail"} THEN {<<bridge[p], period[p]>>} ELSE {}

EndScheduler(p) ==
  /\ sched'  = [sched EXCEPT ![p] = "off"]
  /\ period' = [period EXCEPT ![p] = 0]
  /\ todo'   = [todo EXCEPT ![p] = {}]
  /\ bridge' = [bridge EXCEPT ![p] = None]
  /\ picked' = [picked EXCEPT ![p] = {}]
  /\ lost'   = lost \cup InHand(p)

(* The process is told to stop, or, in worker.py, its recovery loop raises: *)
(* both tasks are cancelled.                                                *)
Stop(p) ==
  /\ phase[p] = "up"
  /\ phase' = [phase EXCEPT ![p] = "cancelling"]
  /\ EndScheduler(p)
  /\ UNCHANGED <<running, queue, pc, left, claims, eventVars, outVars, week,
                 faults, boundVars>>

(* Mutant: one None for the whole pool.                                     *)
OneSentinel(p) == IF Ours(p) = {} THEN <<>> ELSE <<Sentinel>>

(* One None for every thread.                                               *)
Sentinels(p) == [n \in 1..Cardinality(Ours(p)) |-> Sentinel]

(* stop_queue_workers, called by a coroutine: from here on the loop runs    *)
(* nothing until every thread is joined or given up.                        *)
BeginJoin(p) ==
  /\ phase[p] = "cancelling"
  /\ phase'   = [phase EXCEPT ![p] = "joining"]
  /\ running' = [running EXCEPT ![p] = FALSE]
  /\ queue'   = [queue EXCEPT ![p] = @ \o Sentinels(p)]
  /\ left'    = [left EXCEPT ![p] = Ours(p)]
  /\ UNCHANGED <<pc, scheduleVars, claims, eventVars, outVars, lost, week,
                 faults, boundVars>>

(* A thread that only something else can wake up.  Ten seconds are enough   *)
(* for any other to end.                                                    *)
Stuck(w) ==
  \/ pc[w] = "job"
  \/ pc[w] = "get" /\ queue[HomeOf[w]] = <<>>

(* Mutant: join without a timeout.                                          *)
JoinedOnceGone(w) == pc[w] = "gone"

(* join(timeout=10)                                                         *)
Joined(w) == pc[w] = "gone" \/ Stuck(w)

Join(w) ==
  LET p == HomeOf[w]
  IN  /\ w \in left[p]
      /\ Joined(w)
      /\ left' = [left EXCEPT ![p] = @ \ {w}]
      /\ UNCHANGED <<phase, running, queue, pc, scheduleVars, claims, eventVars,
                     outVars, lost, week, faults, boundVars>>

(* The coroutine goes on: in worker.py it disposes of the engine.  Threads  *)
(* that were given up run on until the process ends.                        *)
EndJoin(p) ==
  /\ phase[p] = "joining"
  /\ left[p] = {}
  /\ phase' = [phase EXCEPT ![p] = "closing"]
  /\ UNCHANGED <<running, queue, pc, left, scheduleVars, claims, eventVars,
                 outVars, lost, week, faults, boundVars>>

(* The threads are daemons: the end of the process is theirs.               *)
EndProcess(p) ==
  /\ phase'   = [phase EXCEPT ![p] = "down"]
  /\ running' = [running EXCEPT ![p] = FALSE]
  /\ queue'   = [queue EXCEPT ![p] = <<>>]
  /\ SetWorkers(p, "absent")
  /\ left'    = [left EXCEPT ![p] = {}]
  /\ EndScheduler(p)
  /\ UNCHANGED <<claims, eventVars, outVars, week, boundVars>>

Exit(p) == phase[p] = "closing" /\ EndProcess(p) /\ UNCHANGED faults

(* Also a first fetch that raises: the lifespan ends before its try.        *)
Crash(p) == phase[p] # "down" /\ EndProcess(p) /\ Fault

-----------------------------------------------------------------------------
(* The digest scheduler *)

(* run_validation_digest computes the week and reads the active bridges.    *)
Wake(p, S) ==
  /\ sched[p] = "asleep"
  /\ sched'  = [sched EXCEPT ![p] = "round"]
  /\ period' = [period EXCEPT ![p] = week]
  /\ todo'   = [todo EXCEPT ![p] = S]
  /\ UNCHANGED <<processVars, bridge, picked, claims, eventVars, outVars, lost,
                 week, faults, boundVars>>

(* Mutant: the row is inserted whether or not there is one.                 *)
ClaimAgain(p, b) ==
  /\ sched[p] = "round"
  /\ b \in todo[p]
  /\ todo'   = [todo EXCEPT ![p] = @ \ {b}]
  /\ claims' = claims \cup {<<b, period[p]>>}
  /\ sched'  = [sched EXCEPT ![p] = "query"]
  /\ bridge' = [bridge EXCEPT ![p] = b]
  /\ UNCHANGED <<processVars, period, picked, eventVars, outVars, lost, week,
                 faults, boundVars>>

(* claim_digest_run: the unique constraint makes a second insert fail, and  *)
(* the bridge is passed over.                                               *)
Claim(p, b) ==
  LET fresh == <<b, period[p]>> \notin claims
  IN  /\ sched[p] = "round"
      /\ b \in todo[p]
      /\ todo'   = [todo EXCEPT ![p] = @ \ {b}]
      /\ claims' = claims \cup {<<b, period[p]>>}
      /\ sched'  = [sched EXCEPT ![p] = IF fresh THEN "query" ELSE "round"]
      /\ bridge' = [bridge EXCEPT ![p] = IF fresh THEN b ELSE None]
      /\ UNCHANGED <<processVars, period, picked, eventVars, outVars, lost, week,
                     faults, boundVars>>

(* Mutant: only the week that has just begun.                               *)
InDigestOfWeek(e, w) == born[e] # None /\ born[e] >= w

(* created_at >= period_start - 7 days                                      *)
InDigest(e, w) == born[e] # None /\ born[e] + 1 >= w

(* The event's status is "validated" or "healed" now.                       *)
Valid(e) == healed[e] # None /\ e \notin failed

Query(p) ==
  LET found == {e \in Events : /\ BridgeOf[e] = bridge[p]
                               /\ Valid(e)
                               /\ InDigest(e, period[p])}
  IN  /\ sched[p] = "query"
      /\ picked' = [picked EXCEPT ![p] = found]
      /\ sched'  = [sched EXCEPT ![p] = IF found = {} THEN "round" ELSE "mail"]
      /\ quiet'  = IF found = {} THEN quiet \cup {<<bridge[p], period[p]>>} ELSE quiet
      /\ bridge' = [bridge EXCEPT ![p] = IF found = {} THEN None ELSE @]
      /\ UNCHANGED <<processVars, period, todo, claims, eventVars, mails, mailed,
                     lost, week, faults, boundVars>>

(* The mail is out, or it is dropped in silence: settings are missing, or   *)
(* the mail server refuses and the exception is only logged.                *)
NextBridge(p) ==
  /\ sched[p] = "mail"
  /\ sched'  = [sched EXCEPT ![p] = "round"]
  /\ bridge' = [bridge EXCEPT ![p] = None]
  /\ picked' = [picked EXCEPT ![p] = {}]
  /\ UNCHANGED <<processVars, period, todo, claims, eventVars, quiet, week,
                 boundVars>>

(* Mutant: event and week are confused.                                     *)
MailSwapped(p) ==
  /\ NextBridge(p)
  /\ mails'  = [mails EXCEPT ![<<bridge[p], period[p]>>] = @ + 1]
  /\ mailed' = mailed \cup (picked[p] \X {period[p]})
  /\ UNCHANGED <<lost, faults>>

Mail(p) ==
  /\ NextBridge(p)
  /\ mails'  = [mails EXCEPT ![<<bridge[p], period[p]>>] = @ + 1]
  /\ mailed' = mailed \cup ({period[p]} \X picked[p])
  /\ UNCHANGED <<lost, faults>>

MailDropped(p) ==
  /\ NextBridge(p)
  /\ Fault
  /\ lost' = lost \cup InHand(p)
  /\ UNCHANGED <<mails, mailed>>

Sleep(p) ==
  /\ sched[p] = "round"
  /\ todo[p] = {}
  /\ sched'  = [sched EXCEPT ![p] = "asleep"]
  /\ period' = [period EXCEPT ![p] = 0]
  /\ UNCHANGED <<processVars, todo, bridge, picked, claims, eventVars, outVars,
                 lost, week, faults, boundVars>>

(* A query or an insert raises.  main.py goes on without a scheduler: it is *)
(* a task nobody awaits.  worker.py awaits it, and stops.                   *)
SchedulerFails(p) ==
  /\ sched[p] \in {"round", "query", "mail"}
  /\ Fault
  /\ phase' = [phase EXCEPT ![p] = IF p \in Servers THEN @ ELSE "cancelling"]
  /\ EndScheduler(p)
  /\ UNCHANGED <<running, queue, pc, left, claims, eventVars, outVars, week,
                 boundVars>>

-----------------------------------------------------------------------------
(* Events and time *)

Receive(e) ==
  /\ born[e] = None
  /\ born' = [born EXCEPT ![e] = week]
  /\ UNCHANGED <<processVars, scheduleVars, claims, healed, failed, outVars,
                 lost, week, faults, boundVars>>

(* At once, or when an operator resolves its triage.                        *)
Heal(e) ==
  /\ born[e] # None
  /\ healed[e] = None
  /\ healed' = [healed EXCEPT ![e] = week]
  /\ UNCHANGED <<processVars, scheduleVars, claims, born, failed, outVars, lost,
                 week, faults, boundVars>>

(* Its job is dead-lettered or a duplicate: the status is overwritten, and  *)
(* nothing makes the event valid again.                                     *)
Fail(e) ==
  /\ Valid(e)
  /\ failed' = failed \cup {e}
  /\ UNCHANGED <<processVars, scheduleVars, claims, born, healed, outVars, lost,
                 week, faults, boundVars>>

WeekPasses ==
  /\ week < MaxWeek
  /\ week' = week + 1
  /\ UNCHANGED <<processVars, scheduleVars, claims, eventVars, outVars, lost,
                 faults, boundVars>>

-----------------------------------------------------------------------------
ProcessStep(p) == StartTasks(p) \/ BeginJoin(p) \/ EndJoin(p) \/ Exit(p)

ThreadStep(w) == CheckRunning(w) \/ Get(w) \/ EndJob(w)

SchedulerStep(p) ==
  \/ \E S \in SUBSET Bridges : Wake(p, S)
  \/ \E b \in Bridges : Claim(p, b)
  \/ Query(p) \/ Mail(p) \/ MailDropped(p) \/ Sleep(p) \/ SchedulerFails(p)

Next ==
  \/ \E p \in Procs : \/ Start(p) \/ Put(p) \/ Stop(p) \/ Crash(p)
                      \/ ProcessStep(p) \/ SchedulerStep(p)
  \/ \E w \in Workers : ThreadStep(w) \/ Join(w)
  \/ \E e \in Events : Receive(e) \/ Heal(e) \/ Fail(e)
  \/ WeekPasses

Spec == Init /\ [][Next]_vars

(* A started shutdown goes on, threads run, and a join comes back: when its *)
(* thread has ended, or after its ten seconds.                              *)
Fairness ==
  /\ \A p \in Procs : WF_vars(ProcessStep(p))
  /\ \A w \in Workers : WF_vars(ThreadStep(w)) /\ WF_vars(Join(w))

FairSpec == Spec /\ Fairness

-----------------------------------------------------------------------------
(* Properties *)

(* However processes race for a week, crash and restart, a bridge gets one  *)
(* digest a week at most (scheduler.py:28).                                 *)
OneDigestAWeek == \A d \in Bridges \X Weeks : mails[d] <= 1

(* A claimed week is mailed, had nothing to mail, is in the hands of one    *)
(* scheduler, or was interrupted between its claim and its mail: then it is *)
(* lost for good, and nobody else can have mailed it.                       *)
HeldBy(d) == {p \in Procs : d \in InHand(p)}

Accounted(d) ==
  /\ d \in claims <=> mails[d] > 0 \/ d \in quiet \/ d \in lost \/ HeldBy(d) # {}
  /\ mails[d] > 0 => d \notin quiet \cup lost /\ HeldBy(d) = {}
  /\ d \in quiet => d \notin lost /\ HeldBy(d) = {}
  /\ d \in lost  => HeldBy(d) = {}
  /\ \A p, q \in HeldBy(d) : p = q

ClaimsAreAccountedFor == \A d \in Bridges \X Weeks : Accounted(d)

(* An event that was validated or healed in the week it came in, and still  *)
(* is so, is in the digest of the week after, if that digest is mailed at   *)
(* all.  One that waits in triage for longer may be in none: the query goes *)
(* by created_at.  So may one that has been dead-lettered or blocked as a   *)
(* duplicate since: the query goes by the status of the moment, and does    *)
(* not find it if it comes later than that.                                 *)
LastWeekIsMailed ==
  \A e \in Events, w \in Weeks :
    /\ Valid(e) /\ born[e] # None /\ healed[e] = born[e] /\ w = born[e] + 1
    /\ <<BridgeOf[e], w>> \in claims
    => \/ <<w, e>> \in mailed
       \/ <<BridgeOf[e], w>> \in lost
       \/ HeldBy(<<BridgeOf[e], w>>) # {}

(* While the pool is stopped no thread waits at the queue in vain: a thread *)
(* that is given up has a job in hand (queue_worker.py:232).                *)
SentinelsIn(p) == {n \in DOMAIN queue[p] : queue[p][n] = Sentinel}

NobodyWaitsInVain ==
  \A p \in Procs : phase[p] \in {"joining", "closing"} =>
    Cardinality({w \in Ours(p) : pc[w] = "get"}) <= Cardinality(SentinelsIn(p))

(* A shutdown ends, although threads with a job in hand wait for the loop   *)
(* that waits for them (queue_worker.py:234).                               *)
ShutdownEnds == \A p \in Procs : phase[p] = "cancelling" ~> phase[p] = "down"

=============================================================================
