# HealPipe: a formal model

HealPipe receives webhooks for *bridges*, repairs their payloads, parks what it
cannot repair for a model or an operator to decide, and delivers the result to
the bridge's target. This directory holds TLA+ modules of the parts where
processes, threads, requests and crashes meet, the TLC runs that check them on
small instances, and TLAPS proofs of their main properties for instances of any
size. `PROJECT.json` lists components, runs, mutants, hazards, findings and
theorems, and maps every definition to the lines it was translated from.

Contents: [inventory](#inventory) - [modules](#modules) - [runs](#runs) -
[fairness](#fairness) -
[proofs](#proofs) - [findings](#findings) - [not
modelled](#not-modelled) - [plan](#plan)

    tlc -workers 2 -config Delivery_split.cfg MCDelivery
    tlapm DeliveryProofs.tla

## Inventory

One PostgreSQL database; one or more processes of role `all` (HTTP API and
delivery), or of role `api` (requests only) and `worker` (delivery only,
`worker.py`). Processes share nothing but the database.

| part | state it keeps | operations | what makes it hard |
|---|---|---|---|
| Webhook ingress, `main.py:636-806` | `healing_events`, `event_lifecycle`, `delivery_jobs` | bridge lookup, signature, normalisation, mapping, verdict; persist, log, insert the job, queue a copy, log again | six transactions, a crash between any two; the bridge is read once |
| Triage, `main.py:180-234, 584-629`, `repository.py:1012-1142` | the same rows | the model's answer promotes an event; operators drop or map it | a slow answer races several operators and the bridge switch |
| Mapping revisions, `main.py:414-484`, `repository.py:326-489` | `mapping_rules` with two unique indexes | propose, approve, disable, roll back; read by every webhook | READ COMMITTED row locks, rechecks after lock waits, the order of UPDATEs in one flush |
| Delivery, `core/queue_worker.py`, `worker.py`, `main.py:86-127`, `services/outbound.py` | `delivery_jobs`, `delivery_attempts`; in memory a queue and the workers' copies | insert, replay, poll, one POST per copy, record, retry, dead-letter | several processes poll one table; copies go stale; six transactions per attempt; crashes |
| Idempotency claims, `queue_worker.py:44-55, 68-102`, `repository.py:724-766` | `idempotency_claims`; in memory `_claims` | claim in memory, then SELECT and INSERT | two claims one after the other; expiry; copies that do or do not carry the key |
| Bridges, `main.py:487-533`, `repository.py:215-300` | `data_bridges` | create, list, PATCH, DELETE | check and write are separate transactions |
| Ledger and reconciliation, `repository.py:603-685` | `event_lifecycle` | append; count | counters read in separate statements |
| Payload mapping, `core/algorithms.py`, `core/normalizer.py`, the renames of triage | the payload and `key_mappings` of one request | normalise, apply rules, match keys, verdict, rename | three renamers one after the other; the order of keys and of rules; aliases |
| Life of a process, `main.py:86-127`, `worker.py`, `queue_worker.py:171-236` | the queue, the threads, the loop's tasks | start, queue, stop, crash | threads need the event loop that joins them |
| AI agent, `core/ai_agent.py` | none | one external call, its answer checked | late or failing answers |
| Digest, `services/scheduler.py`, `notification.py:160-218` | `digest_runs` | claim a week, mail | claim before send; every process has a scheduler |
| Accounts, sessions, API keys, `core/auth.py`, `repository.py:34-155` | accounts, members, keys, identities | login, onboarding, key lookup | two first logins at once |
| Audit log, exports, notifications, schema, dashboard | append-only rows, none | | |

They interact through rows and one queue: ingress and triage insert a job row
(and queue a copy in a delivering process); delivery takes rows by poll and
copies from its queue, asks the claims before it posts, and writes outcome to
job, event and ledger; ingress reads the active mapping revisions without a
lock; triage adds a proposal to them; PATCH and DELETE of a bridge change what
ingress and triage look up; the digest reads events. Within a process the
delivering threads, the recovery loop, the digest scheduler and the requests share
one event loop.

What makes each correct:

- *Ingress and triage*: one job for an event at most, none for undecided or
  dropped data, a job for everything decided, a ledger that says nothing ahead
  of its time.
- *Mapping revisions*: one active revision, a stored revision number identifies
  the rule that was applied, no deactivated revision comes back but by a
  rollback, no gap during a switch, no deadlock.
- *Delivery*: a job is in one pair of hands, its attempts in order and within
  the retry budget, its end final, every claim about it on record, and every
  queued job comes to an end.
- *Claims*: of the events with one key, one is posted to a bridge, and no
  duplicate is suppressed in favour of nobody.
- *Payload mapping*: the order of keys and rules decides nothing it should not, a
  value is lost in one way only, nothing unknown and nothing incomplete goes out,
  and the recorded mappings explain what does.
- *Life of a process*: a shutdown ends, and no thread waits for nothing.
- *Reconciliation*: every event received is counted once.
- *Digest*: one mail per bridge and week at most, every claimed week accounted
  for, and last week's events in it.
- *Accounts*: one account per identity; no row of another account is changed.

## Modules

Every repository function is one transaction (`async with async_session()` with
one commit), hence one action; anything may happen between two. What a row lock
serialises is evaluated in the action that changes the row.

### Delivery

`Delivery.tla`: the rows of `delivery_jobs` (`status`, `attemptCount`, `due` for
`next_attempt_at <= now`, `old` for `created_at` past the staleness cutoff,
`keyed`, `origin`), the ledger and attempts, request handlers (`handler`,
`host`), and for each delivering process its queue, what its poll has fetched and
whether its recovery loop is alive (`queue`, `fetched`, `loopAlive`), and for each
worker thread its position and copy (`pc`, `item`, `result`).

- `InsertJob`, `Enqueue`, `LogQueued`, `ReplayCheck`, `ReplayInsert`,
  `LogReplayed` are the handlers in `main.py`; in role `api` `Enqueue` queues
  nothing (`queue_worker.py:219`).
- `Fetch`, `EnqueueFetched` are a poll: it marks what it finds `delivering` and
  queues copies one by one. It takes every row that is due or past the cutoff, also
  one of which copies are about; such refetches are counted, and `MaxRefetches`
  bounds their number.
- `TakeJob` ... `LogFinal` are `_run_job_on_loop` call by call. Its first line
  raises in the code as committed (see `TakeJob` and the findings): the
  constant `JobHasAttemptCount` says whether the queued copy has the field that
  line reads. FALSE is the repository; TRUE is the copy the worker is written
  for, under which the rest of it can be examined at all. Where it is TRUE, a
  poll's copy carries the row's count (`CountOn`), as it does every other argument,
  and a handler's carries 0. Neither `main.py:88-96` nor `worker.py:14-22` passes a
  count: what is said of the numbers of attempts is said of that repair.
- `BackoffElapses`, `JobAges` are time; `WorkerFault`, `Crash`, `PollFault` a
  raised repository call, a process that stops and starts again, and a poll that
  raises (which ends the loop for good in `main.py`, the process in `worker.py`).

How long a claim is granted is left open here (`ClaimGranted`, `ClaimRefused`);
`IdempotencyClaims` looks into it.

`DeliveryPromise.tla` is the abstract specification: what a job accepted by an
API-only process is promised while it is younger than the cutoff. It knows a stage
and the tries of each job, and no tables, polls, queues, threads or processes. A
job is waiting, taken, tried with the next number as long as the tries so far leave
it open, given back or ended by its last try, or abandoned by a crash; of any other
job nothing is promised. `Delivery` implements it under the mapping `StageOf`,
`TriesOf`, which read the stage off the row's status and off who holds a copy. An
abandoned job is taken again only past the cutoff, hence outside the promise.

### MappingRules

`MappingRules.tla`: the revisions of one source field of one bridge. Rows are
numbered in the order of their uuids, which is the order in which a flush writes
them. A request goes through its SELECT FOR UPDATEs lock by lock: the rows a
statement matches are those committed when it began (`SelectActive`), each is
locked when free and looked at again then (`LockActive`), the flush is checked
against both unique indexes row by row (`Conflict`, `Taken`), and the
transaction's end frees its locks (`End`). `ApplyActive` is a webhook, which
locks nothing and stores the revision number with its event. A row that is no longer
active when its lock is granted is not read, but its lock is kept (`LockActive`), as
PostgreSQL keeps it. Other fields have rows of their own and do not interact.

`MappingPromise.tla` is the abstract specification: the tables alone, which each
request changes in one step or not at all. A proposal gets the number after the
highest; what becomes active replaces what was active at that moment; locks,
statements and indexes are not mentioned. `MappingRules` implements it with the same
variables (`RequestsAreAtomic`).

### Triage

`Triage.tla`: an event from the webhook to the insertion of its job. `web`, `ai`
and `op` say what the webhook request, the background task and each
resolve-triage request still have to do; `parked` holds the low-confidence
fields of the payload. How a payload comes to its verdict is `PayloadMapping`'s
subject and an input of `Receive`. `BeginPatch` and `WritePatch` are PATCH and DELETE of the bridge: both
look for an active bridge in one transaction and write in another. `lost` records
the events that had a handler cut short or turned away, so that the properties
can say "but for these". An operator maps one field of the payload, not always one
that was parked (`PayloadMapping` says which).

`TriagePromise.tla` is the abstract specification: an event is absent, rejected,
uncertain, dropped, decided, queued or forgotten, and moves from one stage to the next
at one moment, whoever moves it. It is forgotten by a fault, one event for each, or
while its bridge is off. `Stage` reads this off the event's status, its jobs and
whether a handler still holds it.

### IdempotencyClaims

`IdempotencyClaims.tla`: one business key, the rows of the claims table (`claim`,
`live`), the in-memory claims (`local`: of which event a copy put the key there),
and the jobs that carry the key, each in any number of copies. A handler in a process
of role `all` queues a copy of its own and leaves the row `queued`, so that a poll may
add another one (`Accept`, `Replay`, `Poll`). Who queued a copy is its `kind`: a
webhook's own has no key and claims nothing, a replay's passes over the claim in
memory, a poll's has the key and does not know of replays. `posted`, `blocker` (the
event in whose favour a job was blocked) and `lost` (events of which a copy past a
claim was cut short) are history.

### PayloadMapping

`PayloadMapping.tla`: the top-level keys of one payload. A dict is a function from
names to values or `Absent`, a value is known by the key it arrived under and by
whether it has been normalised, and dict order is kept in `moved` and `turn`: keys
that a rule has renamed come after those that arrived. `ApplyRule` and `MatchKey`
are one iteration each of the loops in `apply_persisted_mappings` and
`map_payload_keys`; the order in which the database returns rules and a sender sends
keys is open. `Match` is `best_key_match`, with `similarity` as a table of scores;
`Verdict` is what `receive_webhook` makes of the result; `ModelMaps` and
`OperatorMaps` are the renames of triage. Values inside a value, letter case of keys
and the confidence of the model are left out.

### Lifespan

`Lifespan.tla`: processes that start, run, stop and crash, their worker threads and
their digest schedulers. While a process is `joining`, its event loop runs nothing,
so `EndJob` waits; `Joined` is `join(timeout=10)`, which comes back when the thread
has ended or is one that only something else could wake. A scheduler claims a bridge
for the week, queries its events and mails them in three actions. The query goes by the
status of the moment: `Valid` is an event that has become `validated` or `healed`
(`Heal`) and has not since been overwritten with `delivery_failed` or
`idempotency_blocked` (`Fail`, `repository.py:688-721`). Between any two of the three
`EndScheduler` (a shutdown, an exception, a crash) may come; `lost` records the
claims of which no mail came. Servers (`main.py`) and worker processes (`worker.py`)
differ in what happens when the scheduler fails: a server goes on without it, a
worker process stops.

### How they fit together

A job inserted by `Triage` is what `Delivery`'s `InsertJob` brings into being;
`Delivery`'s two claim actions are `IdempotencyClaims`' three; the rule a webhook
applies is `MappingRules`' `ApplyActive`, and the proposal that triage adds is
its `ReadRevision` and `InsertRule`; the rules `PayloadMapping` is given are the
active ones, and its verdict is what `Triage`'s `Receive` is given; a copy that
`Lifespan` queues and a thread in its `job` state are a copy and a `WorkerStep` of
`Delivery`. They are checked apart: what one tells the
other is a row inserted once, or an answer that may go either way, and the
receiving module allows every case the sending one can produce. `Delivery`,
`MappingRules` and `Triage` are each checked and proved against a promise, an abstract
specification that a reader of the other modules can use in their place: an event that
is `queued` in `TriagePromise` is a job that is accepted in `DeliveryPromise`.

`MCxxx.tla` instantiate the modules for TLC; `xxxProofs.tla` and
`DeliveryEvidence.tla` hold the theorems. A definition marked "Mutant" is a plausible
bug, kept next to what it would replace; no specification uses it.

## Runs

| run | question | bounds | result |
|---|---|---|---|
| `delivery_split` | one row polled by two delivering processes, with faults: one pair of hands, attempts in order, end final, ledger and event as attempts imply; replays of replays: lineage flat | 2 processes with a worker each, retry budget 2, 2 faults, 1 refetch of a row in hand; up to 3 rows once there is a replay (see below) | holds |
| `delivery_live` | with faults, stale copies and rows past the cutoff, is every job attempted, and settled for good; is the row what an attempt implies; is the abstract promise implemented | 1 job without a key, 2 processes, retry budget 2, 1 fault, 1 refetch of a row in hand | holds |
| `delivery_attempted` | the worker as committed: is a job attempted | the same, no fault | **violated** |
| `mapping_race` | two requests at once on three revisions: one active, numbers that identify, each request atomic and ended | 3 revisions, 2 requests | holds |
| `mapping_alone` | does an undisturbed approval succeed | 2 revisions, 1 request | **violated** |
| `triage_race` | webhook, model, operators and bridge switch race for one event; is the abstract promise implemented | 3 operators, 2 fields, 2 faults | holds |
| `triage_inactive` | does every decided event get its job | 1 operator, no fault | **violated** |
| `triage_fields` | is every parked field decided before the payload goes out | 2 fields, no fault | **violated** |
| `claims_race` | one key, claims under crashes, expiries, replays and several copies of a row: is one event posted to a bridge, and in whose favour is a job blocked | 3 jobs, 2 bridges, 2 processes, 2 copies at once, 1 fault or expiry (see below) | holds |
| `claims_inline` | two webhooks with one key in a process of role `all` | 2 jobs, 1 process | **violated** |
| `payload` | do the renaming loops compute what is declared, in every order; what is lost, what goes out, is it explained | payloads of at most 4 of 6 real names, 2 rules, 3 lists of expected fields | holds |
| `lifespan` | does a shutdown end, and does no thread wait in vain; is a digest mailed once at most and every claimed week accounted for | a server with 2 threads, a worker process without, 2 starts, 1 copy, 1 bridge, 1 event, 2 weeks, 1 fault | holds |

Why the bounds are enough to be interesting. Double handling of a job needs two
processes and one row; overtaking writes need two copies; the budget needs one
retry and one attempt beyond it; a replay of a replay needs three rows; an end
that is not final shows with one fault after it. Two competing keys for a field, its own
key and an unknown one make four; a chain of two rules and two rules with one target
need two; six names hold an exact field, an alias, a similar and an unknown one. A
shutdown that blocks needs one thread with a job and one without; a digest claimed
twice needs two schedulers; a lost one one fault. The conflict of two approvals
needs the revision each of them replaces, hence three. One event suffices in
`Triage`, since no action touches two; three operators let two collide after a
third has decided. In `claims_race` a third job is the replay of one of two
rivals, the second bridge shows that the in-memory claim does not know of bridges.
Every property of a passing run is broken by a mutant of a definition under the
same bounds (`PROJECT.json`, "mutants"). Symmetry is used in `claims_race`,
which checks invariants only, over sets of model values whose
members appear nowhere by name.

`CHECK_DEADLOCK FALSE`: the instances really stop, when the last identity is used
up and the last fault spent.

Six bounds deserve a word.

- `Focus`, the constraint of `delivery_split`: one row meets every interleaving
  and two faults; if a delivering process accepted it, so that a second copy is
  about from the start, then one fault, two attempts and no key. Once a replay is
  asked for, which makes a second and third row, one process works without faults
  and on one row at a time. Rows share nothing
  but queues and threads, so two rows at once would add interleavings of steps that
  do not see each other. The theorems have no such bound.
- `CanAge = FALSE` in `delivery_split`: the cutoff compares `created_at`, not the
  moment of marking (`repository.py:665`), so a job older than five minutes, any
  late retry for one, is fetched at every poll even while a worker has it. Then
  several workers post it at once and the last to write the row wins. The
  properties named `Fresh...` therefore speak of jobs younger than the cutoff and
  accepted by an API-only process; those accepted by a delivering process have a
  second copy from the start, the handler's and a poll's. The row of either kind
  is still what a recorded attempt implies (`OutcomeIsEvidenced`, `delivery_live`):
  proved without this bound.
- `MaxRefetches`: how often polls may take a row of which copies are about. A copy
  that a poll takes of a held row can outlive the other copy's end, and then sets the
  settled row back to `delivering` and posts once more. The model contains this: a
  row may be settled, revived and settled again. Without a bound every revival could
  be followed by another one, and the job would be posted for ever and never stay
  settled; `QueuedIsSettled` therefore says that after the last such
  refetch every job ends and stays ended. It does not say that stale copies are
  harmless. The theorems have no such bound.
- `Unkeyed` and `FaultsComeEarly` in `delivery_live`: the row has no key (a claim
  may only end a job sooner), and no fault happens once the row has been posted
  twice (`delivery_split` has those). Neither cuts a fair action off, since keys and faults are never due; and
  `CanAge` is TRUE here.
- `TwoJobsOrFewSteps` in `claims_race`: two jobs do whatever they do; the third is
  followed until the second POST, or the first after a fault. `NoCopyOnceFailed` in
  `lifespan`: an event fails while no copy has been queued, since the digest and the
  queue share nothing but the process.
- `FreshAttemptsInOrder` and `OutcomeIsEvidenced` hold of the worker the code is
  written for, `JobHasAttemptCount = TRUE`; as committed no attempt is made.

## Fairness

Weak fairness of the handlers, the workers, the loops and time: a request that
has begun runs on, threads are scheduled, `asyncio.sleep(5)` returns. Strong
fairness where an action is enabled again and again but may be missed each time:
fetching a row (locked, or another process was quicker) and requests that wait
for row locks (PostgreSQL serves waiters in order). Nothing is assumed about
requests being made, faults happening or claims being granted. A crashed process
starts again as part of `Crash`; `docker-compose.yml` sets no restart policy, so
this is an assumption on the operator, and `MaxFaults` makes crashes finitely
many. So are polls that take a row in hand (`MaxRefetches`, see above). The
background task is not durable: what it holds when its process dies is in `lost`.
In `Lifespan` a shutdown that has begun goes on, threads are scheduled, and a join comes back; no thread is assumed to finish the job it has in hand.

## Proofs

All for any number of jobs, events, processes, workers, revisions, requests, keys,
rules, bridges, weeks and faults; the assumptions are the `ASSUME`s of the modules (identities are distinct,
worker threads belong to processes, budgets are natural numbers).

| module | theorem | of |
|---|---|---|
| `DeliveryProofs` | `TypeCorrect`, `HeldOnce`, `SettledIsFinal` | `TypeOK`, `FreshJobHeldOnce`, `FreshSettledIsFinal` |
| `DeliveryEvidence` | `RowsAreEvidenced`, `LedgerIsEvidenced` | `OutcomeIsEvidenced`, `ClaimsAreEvidenced` |
| `DeliveryPromiseProofs` | `AttemptsAreInOrder`, `KeepsPromise`, `LineageIsFlat` | `FreshAttemptsInOrder`, `ImplementsPromise`, `ReplayLineageIsFlat` |
| `MappingRulesProofs` | `TypeCorrect`, `AtMostOneActive`, `EventsStayExplainable`, `OnlyRollbackReactivates`, `TakesEffectAtOnce`; `SwitchingIsAtomic`, `NoDeadlock` | `TypeOK`, `OneActive`, `RevisionIdentifiesRule`, `InactiveReturnsByRollback`, `RequestsAreAtomic`; no run's |
| `TriageProofs` | `TypeCorrect`, `AtMostOneJob`, `NoneForgotten`, `LedgerIsBacked`, `StagesAreKept`; `FailsClosed` | `TypeOK`, `OneJobPerEvent`, `DecidedIsInHand`, `QueuedIsBacked`, `EventsKeepPromise`; no run's |
| `IdempotencyClaimsProofs` | `TypeCorrect`, `OneEventUnderClaims`, `NoneBlockedInVain` | `TypeOK`, `ClaimedPostsAgree`, `BlockedInFavour` |
| `PayloadMappingProofs` | `TypeCorrect`, `RulesAreConfluent`, `FieldsAreDeclared`, `OnlyRivalsAreLeftOver`, `RequiredFieldsGoOut`, `NothingElseIsLost`, `MappingsLeadThere`, `OperatorDecides` | `TypeOK`, `RulesAsDeclared`, `FieldsAsDeclared`, `LeftoverIsRival`, `RequiredIsForwarded`, `LostOnlyToOwnKey`, `MappingsExplain`, `OperatorDecidesParked` |
| `LifespanProofs` | `TypeCorrect`, `DigestsAreAccountedFor`, `OneDigest`, `DigestsHoldLastWeek`, `SentinelsSuffice`; `OnlyJobsAreGivenUp`, `FatesAreFinal` | `TypeOK`, `ClaimsAreAccountedFor`, `OneDigestAWeek`, `LastWeekIsMailed`, `NobodyWaitsInVain`; no run's |

The inductive invariants, and why they are needed:

- `HoldInv`: that a fresh job is held once does not carry over a poll by itself.
  A poll takes a row that is `queued` or `retrying`, so one needs that while
  anyone holds the job its row says `delivering` (`FreshHeldIsDelivering`), and
  that nobody refers to a row before it is inserted (`RowsExist`). Each step
  then moves the one copy from loop to queue to worker, or lets go of it.
- `EvidenceInv`: a worker past its POST has its attempt on record
  (`PostedIsRecorded`). Attempts are only ever appended to, so it does not matter
  how many copies write: each writes what its own attempt implies.
- `CountInv`: of the worker as committed, that none gets past its first line and
  every count is 0; so what a poll's copy carries is the row's count with and without
  the field.
- `TriesInv`: what a copy of a fresh job knows agrees with the attempts table. A row
  that waits, and every copy not yet posted, carry the number of attempts made, all
  of which could be retried; a worker past its POST has made the last one. It needs
  `HoldInv`, since a second copy would post with the number of the first. With it
  every step of `Delivery` is shown to be a step of `DeliveryPromise` or to leave
  stages and tries alone (`StepKeeps`), and the initial state maps to the initial
  state (`StartKeeps`), so `KeepsPromise` is `Spec => Promise!Spec`.
- `RulesInv` (of `MappingRules`): a request between its locks and its commit has the lock of the row
  it is going to change, and the row still has a status the request accepts
  (`LocksInv`); who holds an active row's lock is alone in deactivating it. The
  unique index does the rest of `OneActive`; `RevisionsUnique` rests on its own
  index, and makes a stored number lead to one row.
- `AsksInv` (of `MappingRules`): since one revision is active at most, a request asks
  for one lock beyond its target's, and once it has that lock it asks for nothing more.
  So whoever comes to wait for somebody new waits for one that waits for nobody, and
  such waits close no circle (`NewWaitsEnd`): an active row is locked by a disable, or
  by a request that has its second lock, never by an approval that still asks for one
  (`ActiveTarget`).
- `GaplessInv` (of `MappingRules`): the revision numbers run from one without a gap,
  and a number a proposal has read is the next or taken by now; what the index lets
  through is therefore the next (`NumberIsNext`). At a commit the rows a request found
  active are those that are active then, because it holds their locks
  (`CommitIsAtomic`), and every other step leaves the tables alone: that is
  `RequestsAreAtomic`.
- `HoldersInv`: an event is decided in the same step that gives it to one handler
  (`OneHolder`), since all three look at the status under the row's lock; a
  handler lets go of it in the step that inserts the job. It is also what
  `StagesAreKept` rests on: a step concerns one event (`OneEventMoves`), and who lets
  go of that one without a job leaves it forgotten, since it cannot be decided again
  (`LettingGo`).
- `OwnersInv`: past its claim a keyed copy's event owns the row of the claims
  table, and a row of that table never changes owner, not by expiry either. It does
  not matter how many copies there are, or which of them claims.
- `FavourInv`: the owner of a row has a copy past its claims, has been posted under
  them, or was cut short (`PastItsClaims`); an event that has put the key in memory
  is on its way there, or its bridge's row has an owner (`Justified`). Neither is
  undone: a copy that leaves a claim leaves by a POST, by a fault, or because it is
  refused by a row. So whoever is blocked gave way to such an event.
- `LoopsInv`, `RulesInv`, `FieldsInv`, `VerdictInv` (of `PayloadMapping`): every
  value that arrived is under one key of the dict; the rules done so far have had
  their effect and the others none; each field in use holds the value of its own key
  or of the first key matched with it. What the loops compute follows when nothing
  is left to do, whatever order they ran in.
- `RulesRecorded`, `PlacedInv`, `VerdictInv` (of `PayloadMapping`): a rule that did what
  it declares is on record; what is under a name kept its own or was matched with
  it, and is there once; while an event is uncertain, what is parked is what the
  verdict called uncertain. The first attempt at `MappingsExplain` failed for a good
  reason: if a key has been matched while a key that is allowed, but not expected by
  the request, is parked, an operator's mapping takes the matched key again. Its value
  goes out twice, and the entry of its first rename in `key_mappings` is overwritten.
  The property's hypothesis now says so, a run's list of expected fields makes the
  case occur, and it is listed as a hazard.
- `HandsInv`, `DigestInv`, `PastInv`, `PickInv` (of `Lifespan`): a claim is in one
  of four places; no scheduler works on a week to come, and what it has picked, or
  mailed, holds every event that was on time and is valid still; an event that fails
  only leaves the claim. With them `FatesAreFinal`: once a week
  is mailed, found empty or lost, it stays so and nobody works on it again.
- `StoppedInv`, `WaitInv` (of `Lifespan`): a pool that is stopped is not running, so
  no thread goes to the queue any more, and the queue holds at least as many `None`s as
  threads wait at it. A thread that takes one lowers both numbers by one
  (`TakingCounts`). A thread at an empty queue would be one without a `None`; so a join
  is given up only on a thread with a job (`OnlyJobsAreGivenUp`).

Only model-checked: the liveness properties (liveness under fairness and ENABLED are
beyond TLAPS: `QueuedIsAttempted`, `QueuedIsSettled`, `RequestsEnd`,
`DecidedIsQueuedOrLost`, `ShutdownEnds`). Every other property of a passing run is
proved. The theorems marked "no run's" state what the runs imply or do not ask:
`FailsClosed` and `SwitchingIsAtomic` follow from the promises, `NoDeadlock`,
`OnlyJobsAreGivenUp` and `FatesAreFinal` say by which argument a request, a join and a
digest end as they do. The violated properties have
counterexamples and no theorem. The scores `PayloadMapping` is given are not checked
against `levenshtein_distance`, `SequenceMatcher` and the shared tokens they come
from: the theorems hold for every table of scores.

## Findings

1. **No delivery is ever attempted** (`queue_worker.py:65`,
   `delivery_attempted`). The worker reads `job.attempt_count`, which the queued
   dataclass does not have; the error is swallowed and the job polled and dropped
   for ever. README.md:95 says the worker performs one HTTP attempt.
2. **Half of all switches of a mapping revision fail** (`repository.py:439`,
   `mapping_alone`). Deactivating the old and activating the new row happen in one
   flush, in the order of random uuids; the partial unique index refuses the
   activation when it comes first.
3. **A mapped event is lost when its bridge is inactive** (`main.py:608`,
   `triage_inactive`). The mapping commits before the bridge is looked at.
4. **Of several uncertain fields one is decided** (`main.py:748`,
   `triage_fields`), and the payload goes out as healed.
5. **Duplicate keys are not seen by the process that accepts them**
   (`main.py:792`, `claims_inline`). The copy is queued without the key.

Smaller observations, stated in comments and hazards: a key that is similar to a
field loses its value in silence when the field's own key comes later in the payload
(`algorithms.py:104`; README.md:141 says "Duplicate destination assignments are not
overwritten.", and `LostOnlyToOwnKey` that this is the only exception); an event
parked over the turn of a week is in no digest (`scheduler.py:33`); a digest whose
mail fails is never sent, since its week is claimed; the digest scheduler sleeps a
whole interval before its first digest, so a process restarted more often than that
sends none; a shutdown with a job in hand takes ten seconds for each such
thread; every failed attempt is logged as `retrying`, also a permanent one; an expired claim keeps its row and
blocks its key for good; a retried copy finds its key claimed in memory by its own first attempt and is blocked
as its own duplicate, and so is a job of another bridge with the same key
(`queue_worker.py:53`; README.md:209-233 promises retries, 268 says that a claim is
reusable for the same event, 276 "Claims are scoped by bridge and business key":
`BlockedInFavour` says what a blocked job did give way to); a switched-off bridge
cannot be switched on again (`main.py:516` looks for an active one), although PATCH
takes `is_active` and the dashboard's toggle sends it as true
(`BridgesManager.jsx:126-133, 156`); an event that is dead-lettered or blocked before
the digest's query is not in the digest (`scheduler.py:34`); the ledger has no entry
of a drop or of what triage healed.

## Not modelled

- Data: what values are (only whether they are normalised), urls, reasons, messages
  and mail templates; a batch replay's overrides of payload and url, which the row
  does not keep (`main.py:569`, listed as a hazard).
- Accounts, keys and sessions: each request is taken to be one of the owning account.
  Google login is one transaction; its one race, two first logins, ends in a unique
  index and an error for one of them. Scopes, roles and signatures are straight-line
  checks.
- The model's prompt and parsing: an answer is valid, uncertain or a failure.
- Read-only queries: reconciliation counters, event audit, statistics, exports. The
  counters are read in separate statements while deliveries go on, and `pending` is
  what is left over, so no two of them need be from one moment; no document says
  from when they are.
- Alerts in background tasks, whose failure is logged and swallowed, and the audit
  log, appended to after the fact.
- Start-up DDL (its constraints are modelled where they matter), the dashboard,
  `async_session is None` (the mode without a database).

`PROJECT.json` says of each component why.

## Plan

Done, in this order: `Delivery`, `MappingRules`, `Triage`, `IdempotencyClaims`,
`DeliveryPromise` and the refinement, `PayloadMapping`, `Lifespan`, `MappingPromise`
and `TriagePromise`, each with its proofs. What would be worth adding:

1. `TriagePromise` composed with `DeliveryPromise`, now that both are implemented, so
   that "a decided event ends delivered, dead-lettered, blocked or forgotten" is one
   property of two small modules; and the reconciliation counters over it, should a
   document come to say what they promise.
2. Accounts: rows of other accounts, the default account of triage's proposals
   (`repository.py:1121`), two first logins.
3. Batch replay with overrides, with payloads told apart in `Delivery`.

New questions go into existing runs where one instance can answer both, so that the
whole suite stays quick enough to be run with every change.
