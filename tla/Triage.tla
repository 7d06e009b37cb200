------------------------------- MODULE Triage -------------------------------
(***************************************************************************)
(* An event from its webhook to its delivery job: the webhook request, the *)
(* background task that asks the model, operators resolving what is parked,*)
(* and the switch of the bridge.  Each transaction is one step; the guard  *)
(* "status is uncertain" is evaluated under the event's row lock, in the   *)
(* transaction that changes the status.  Delivery takes over where a job   *)
(* row is inserted.                                                        *)
(***************************************************************************)
EXTENDS Naturals, FiniteSets

CONSTANTS
  Events,
  NoEvent,
  Fields,     \* low-confidence fields a payload may have
  Operators,  \* resolve-triage requests that may run at once
  FaultCap    \* bound: how often a handler is cut short

ASSUME TriageAssumption == NoEvent \notin Events /\ FaultCap \in Nat

VARIABLES
  status,       \* healing_events.status, "absent" before the row exists
  ledger,       \* event_lifecycle, as pairs <<event, state>>
  parked,       \* low-confidence fields in its payload
  jobs,         \* how many job rows an event has, replays apart
  bridgeActive,
  patching,     \* is_active values of PATCH and DELETE requests that have
                \* found the bridge active and not yet written it
  web,          \* what the webhook request of an event still has to do
  verdict,      \* what that request found the payload to be
  ai,           \* where the background task of an event is
  op, opEvent,  \* where a resolve-triage request is, and its event
  lost,         \* events with a handler cut short or turned away (history)
  faults

eventVars  == <<status, ledger, parked, jobs>>
bridgeVars == <<bridgeActive, patching>>
webVars    == <<web, verdict>>
opVars     == <<op, opEvent>>
vars == <<eventVars, bridgeVars, webVars, ai, opVars, lost, faults>>

Decided  == {"validated", "healed"}
Verdicts == Decided \cup {"rejected", "uncertain"}
States   == Verdicts \cup {"received", "queued"}

TypeOK ==
  /\ status \in [Events -> Verdicts \cup {"absent", "dropped"}]
  /\ ledger \subseteq Events \X States
  /\ parked \in [Events -> SUBSET Fields]
  /\ jobs \in [Events -> Nat]
  /\ bridgeActive \in BOOLEAN
  /\ patching \subseteq BOOLEAN
  /\ web \in [Events -> {"none", "persist", "logState", "insertJob", "logQueued"}]
  /\ verdict \in [Events -> Verdicts]
  /\ ai \in [Events -> {"none", "asking", "promote", "insertJob", "failed"}]
  /\ op \in [Operators -> {"idle", "resolve", "checkBridge", "insertJob"}]
  /\ opEvent \in [Operators -> Events \cup {NoEvent}]
  /\ \A o \in Operators : op[o] # "idle" => opEvent[o] \in Events
  /\ lost \subseteq Events
  /\ faults \in Nat

Init ==
  /\ status = [e \in Events |-> "absent"]
  /\ ledger = {}
  /\ parked = [e \in Events |-> {}]
  /\ jobs = [e \in Events |-> 0]
  /\ bridgeActive = TRUE
  /\ patching = {}
  /\ web = [e \in Events |-> "none"]
  /\ verdict = [e \in Events |-> "rejected"]
  /\ ai = [e \in Events |-> "none"]
  /\ op = [o \in Operators |-> "idle"]
  /\ opEvent = [o \in Operators |-> NoEvent]
  /\ lost = {}
  /\ faults = 0

Log(e, state) == ledger' = ledger \cup {<<e, state>>}
AddJob(e) == jobs' = [jobs EXCEPT ![e] = @ + 1]

-----------------------------------------------------------------------------
(* The webhook request *)

(* The bridge is looked up first and not again.  Each request brings an     *)
(* event of its own: one cut short is not received again.                   *)
Receive(e, v, fs) ==
  /\ status[e] = "absent" /\ web[e] = "none" /\ e \notin lost
  /\ bridgeActive
  /\ v = "uncertain" <=> fs # {}
  /\ verdict' = [verdict EXCEPT ![e] = v]
  /\ parked' = [parked EXCEPT ![e] = fs]
  /\ web' = [web EXCEPT ![e] = "persist"]
  /\ UNCHANGED <<status, ledger, jobs, bridgeVars, ai, opVars, lost, faults>>

(* Mutant: the row gets the ledger's first state.                           *)
PersistReceived(e) ==
  /\ web[e] = "persist"
  /\ status' = [status EXCEPT ![e] = "received"]
  /\ Log(e, "received")
  /\ web' = [web EXCEPT ![e] = "logState"]
  /\ UNCHANGED <<parked, jobs, bridgeVars, verdict, ai, opVars, lost, faults>>

(* Mutant: the ledger entry is not part of the transaction.                 *)
PersistUnlogged(e) ==
  /\ web[e] = "persist"
  /\ status' = [status EXCEPT ![e] = verdict[e]]
  /\ web' = [web EXCEPT ![e] = "logState"]
  /\ UNCHANGED <<ledger, parked, jobs, bridgeVars, verdict, ai, opVars, lost,
                 faults>>

(* The row and its first ledger entry are one transaction.                  *)
Persist(e) ==
  /\ web[e] = "persist"
  /\ status' = [status EXCEPT ![e] = verdict[e]]
  /\ Log(e, "received")
  /\ web' = [web EXCEPT ![e] = "logState"]
  /\ UNCHANGED <<parked, jobs, bridgeVars, verdict, ai, opVars, lost, faults>>

(* A rejected or parked payload is answered here; the answer to a parked    *)
(* one starts the background task.                                          *)
LogState(e) ==
  /\ web[e] = "logState"
  /\ Log(e, verdict[e])
  /\ web' = [web EXCEPT ![e] = IF verdict[e] \in Decided THEN "insertJob"
                                                        ELSE "none"]
  /\ ai' = [ai EXCEPT ![e] = IF verdict[e] = "uncertain" THEN "asking" ELSE @]
  /\ UNCHANGED <<status, parked, jobs, bridgeVars, verdict, opVars, lost, faults>>

(* Mutant: the request looks at the bridge again.                           *)
InsertJobIfActive(e) ==
  /\ web[e] = "insertJob"
  /\ bridgeActive
  /\ AddJob(e)
  /\ web' = [web EXCEPT ![e] = "logQueued"]
  /\ UNCHANGED <<status, ledger, parked, bridgeVars, verdict, ai, opVars, lost,
                 faults>>

InsertJob(e) ==
  /\ web[e] = "insertJob"
  /\ AddJob(e)
  /\ web' = [web EXCEPT ![e] = "logQueued"]
  /\ UNCHANGED <<status, ledger, parked, bridgeVars, verdict, ai, opVars, lost,
                 faults>>

LogQueued(e) ==
  /\ web[e] = "logQueued"
  /\ Log(e, "queued")
  /\ web' = [web EXCEPT ![e] = "none"]
  /\ UNCHANGED <<status, parked, jobs, bridgeVars, verdict, ai, opVars, lost,
                 faults>>

-----------------------------------------------------------------------------
(* resolve_and_forward_uncertain, the background task *)

(* The model answers with confidence, or without or with a field that is    *)
(* already there, or not at all.                                            *)
Answered(e, next) ==
  /\ ai[e] = "asking"
  /\ next \in {"promote", "none", "failed"}
  /\ ai' = [ai EXCEPT ![e] = next]
  /\ UNCHANGED <<eventVars, bridgeVars, webVars, opVars, lost, faults>>

(* Mutant: the status is not looked at again.                               *)
PromoteUnchecked(e) ==
  /\ ai[e] = "promote"
  /\ status' = [status EXCEPT ![e] = "healed"]
  /\ parked' = [parked EXCEPT ![e] = {}]
  /\ ai' = [ai EXCEPT ![e] = "insertJob"]
  /\ UNCHANGED <<ledger, jobs, bridgeVars, webVars, opVars, lost, faults>>

(* The status is looked at again.  The model was asked for one field, the   *)
(* first that is parked, and that one is renamed.                           *)
Promote(e) ==
  /\ ai[e] = "promote"
  /\ IF status[e] = "uncertain"
       THEN /\ status' = [status EXCEPT ![e] = "healed"]
            /\ \E f \in parked[e] : parked' = [parked EXCEPT ![e] = @ \ {f}]
            /\ ai' = [ai EXCEPT ![e] = "insertJob"]
       ELSE /\ ai' = [ai EXCEPT ![e] = "failed"]
            /\ UNCHANGED <<status, parked>>
  /\ UNCHANGED <<ledger, jobs, bridgeVars, webVars, opVars, lost, faults>>

(* The job goes to the target the webhook request read.                     *)
InsertHealedJob(e) ==
  /\ ai[e] = "insertJob"
  /\ AddJob(e)
  /\ ai' = [ai EXCEPT ![e] = "none"]
  /\ UNCHANGED <<status, ledger, parked, bridgeVars, webVars, opVars, lost, faults>>

(* Whatever raised, only the event's reason is rewritten.                   *)
GiveUp(e) ==
  /\ ai[e] = "failed"
  /\ ai' = [ai EXCEPT ![e] = "none"]
  /\ UNCHANGED <<eventVars, bridgeVars, webVars, opVars, lost, faults>>

-----------------------------------------------------------------------------
(* resolve_triage *)

Resolve(o, e) ==
  /\ op[o] = "idle"
  /\ status[e] # "absent"
  /\ op' = [op EXCEPT ![o] = "resolve"]
  /\ opEvent' = [opEvent EXCEPT ![o] = e]
  /\ UNCHANGED <<eventVars, bridgeVars, webVars, ai, lost, faults>>

Done(o) ==
  /\ op' = [op EXCEPT ![o] = "idle"]
  /\ opEvent' = [opEvent EXCEPT ![o] = NoEvent]

(* Not parked any more, nothing the operator may map, or a proposal of the  *)
(* same revision committed first: rolled back, and answered.                *)
ResolveRefused(o) ==
  /\ op[o] = "resolve"
  /\ Done(o)
  /\ UNCHANGED <<eventVars, bridgeVars, webVars, ai, lost, faults>>

(* Mutant: any event may be dropped.                                        *)
DropUnchecked(o) ==
  /\ op[o] = "resolve"
  /\ status' = [status EXCEPT ![opEvent[o]] = "dropped"]
  /\ Done(o)
  /\ UNCHANGED <<ledger, parked, jobs, bridgeVars, webVars, ai, lost, faults>>

DropEvent(o) ==
  /\ op[o] = "resolve"
  /\ status[opEvent[o]] = "uncertain"
  /\ status' = [status EXCEPT ![opEvent[o]] = "dropped"]
  /\ Done(o)
  /\ UNCHANGED <<ledger, parked, jobs, bridgeVars, webVars, ai, lost, faults>>

(* Mutant: the caller is left to deliver.                                   *)
MapAndReturn(o) ==
  /\ op[o] = "resolve"
  /\ status[opEvent[o]] = "uncertain"
  /\ status' = [status EXCEPT ![opEvent[o]] = "healed"]
  /\ Done(o)
  /\ UNCHANGED <<ledger, parked, jobs, bridgeVars, webVars, ai, lost, faults>>

(* An operator maps the one field of the raw payload that is no destination,*)
(* parked or not.  The mapping commits before the bridge is looked at.      *)
MapEvent(o) ==
  /\ op[o] = "resolve"
  /\ status[opEvent[o]] = "uncertain"
  /\ status' = [status EXCEPT ![opEvent[o]] = "healed"]
  /\ \E f \in Fields : parked' = [parked EXCEPT ![opEvent[o]] = @ \ {f}]
  /\ op' = [op EXCEPT ![o] = "checkBridge"]
  /\ UNCHANGED <<ledger, jobs, bridgeVars, webVars, ai, opEvent, lost, faults>>

CheckBridge(o) ==
  /\ op[o] = "checkBridge"
  /\ bridgeActive
  /\ op' = [op EXCEPT ![o] = "insertJob"]
  /\ UNCHANGED <<eventVars, bridgeVars, webVars, ai, opEvent, lost, faults>>

(* 404: nothing undoes the mapping.                                         *)
TurnedAway(o) ==
  /\ op[o] = "checkBridge"
  /\ ~bridgeActive
  /\ lost' = lost \cup {opEvent[o]}
  /\ Done(o)
  /\ UNCHANGED <<eventVars, bridgeVars, webVars, ai, faults>>

InsertMappedJob(o) ==
  /\ op[o] = "insertJob"
  /\ AddJob(opEvent[o])
  /\ Done(o)
  /\ UNCHANGED <<status, ledger, parked, bridgeVars, webVars, ai, lost, faults>>

-----------------------------------------------------------------------------
(* The bridge switch: both routes need the bridge to be active at first, so *)
(* a PATCH that would switch it on again is answered 404, or writes after   *)
(* another request that has switched it off meanwhile.                      *)
BeginPatch(v) ==
  /\ bridgeActive
  /\ v \notin patching
  /\ patching' = patching \cup {v}
  /\ UNCHANGED <<eventVars, bridgeActive, webVars, ai, opVars, lost, faults>>

WritePatch(v) ==
  /\ v \in patching
  /\ patching' = patching \ {v}
  /\ bridgeActive' = v
  /\ UNCHANGED <<eventVars, webVars, ai, opVars, lost, faults>>

-----------------------------------------------------------------------------
(* Faults: a repository call raises, or the process stops.  The background  *)
(* task catches the first and does not survive the second.                  *)
Fault(e) ==
  /\ faults < FaultCap
  /\ faults' = faults + 1
  /\ lost' = lost \cup {e}

WebFault(e) ==
  /\ web[e] # "none"
  /\ Fault(e)
  /\ web' = [web EXCEPT ![e] = "none"]
  /\ UNCHANGED <<eventVars, bridgeVars, verdict, ai, opVars>>

AiFault(e, next) ==
  /\ ai[e] # "none"
  /\ next \in {"none"} \cup IF ai[e] = "failed" THEN {} ELSE {"failed"}
  /\ Fault(e)
  /\ ai' = [ai EXCEPT ![e] = next]
  /\ UNCHANGED <<eventVars, bridgeVars, webVars, opVars>>

OpFault(o) ==
  /\ op[o] # "idle"
  /\ Fault(opEvent[o])
  /\ Done(o)
  /\ UNCHANGED <<eventVars, bridgeVars, webVars, ai>>

-----------------------------------------------------------------------------
WebStep(e) == Persist(e) \/ LogState(e) \/ InsertJob(e) \/ LogQueued(e)

AiStep(e) ==
  \/ \E next \in {"promote", "none", "failed"} : Answered(e, next)
  \/ Promote(e) \/ InsertHealedJob(e) \/ GiveUp(e)

OpStep(o) ==
  \/ ResolveRefused(o) \/ DropEvent(o) \/ MapEvent(o)
  \/ CheckBridge(o) \/ TurnedAway(o) \/ InsertMappedJob(o)

Next ==
  \/ \E e \in Events :
       \/ \E v \in Verdicts, fs \in SUBSET Fields : Receive(e, v, fs)
       \/ WebStep(e) \/ AiStep(e) \/ WebFault(e)
       \/ \E next \in {"none", "failed"} : AiFault(e, next)
  \/ \E o \in Operators :
       \/ \E e \in Events : Resolve(o, e)
       \/ OpStep(o) \/ OpFault(o)
  \/ \E v \in BOOLEAN : BeginPatch(v) \/ WritePatch(v)

Spec == Init /\ [][Next]_vars

(* What has begun runs on: requests, background tasks.                      *)
Fairness ==
  /\ \A e \in Events : WF_vars(WebStep(e)) /\ WF_vars(AiStep(e))
  /\ \A o \in Operators : WF_vars(OpStep(o))

FairSpec == Spec /\ Fairness

-----------------------------------------------------------------------------
(* Safety *)

(* The request, the background task and any number of operators together    *)
(* insert one job for an event at most.                                     *)
OneJobPerEvent == \A e \in Events : jobs[e] <= 1

(* Nothing is handed to delivery that is rejected or still uncertain, or    *)
(* that an operator dropped while the model was asked.                      *)
JobIsDecided == \A e \in Events : jobs[e] > 0 => status[e] \in Decided


(* Some handler is going to insert the event's job.                         *)
WebHolds(e) == web[e] \in {"logState", "insertJob"} /\ verdict[e] \in Decided
AiHolds(e)  == ai[e] = "insertJob"
OpHolds(o, e) == op[o] \in {"checkBridge", "insertJob"} /\ opEvent[o] = e

InHand(e) == WebHolds(e) \/ AiHolds(e) \/ \E o \in Operators : OpHolds(o, e)

(* An event is decided in the same step that puts it into the hands of the  *)
(* one handler that inserts its job; only a fault or an inactive bridge     *)
(* takes it away.                                                           *)
DecidedIsInHand ==
  \A e \in Events :
    status[e] \in Decided => jobs[e] > 0 \/ InHand(e) \/ e \in lost

(* The ledger says "queued" only of an event of which it has told before    *)
(* that it was received and decided, and which has a job.                   *)
QueuedIsBacked ==
  \A e \in Events : <<e, "queued">> \in ledger =>
    /\ <<e, "received">> \in ledger
    /\ \E v \in Decided : <<e, v>> \in ledger
    /\ jobs[e] > 0

(* What these rest on: a handler that holds an event has found it decided,  *)
(* nobody else holds it, and who holds it has not yet inserted the job.     *)
HeldIsDecided(e) ==
  /\ web[e] # "none" => (web[e] = "persist" <=> status[e] = "absent")
  /\ web[e] \in {"insertJob", "logQueued"} => verdict[e] \in Decided
  /\ ai[e] # "none" => web[e] = "none" /\ status[e] # "absent"
  /\ InHand(e) \/ jobs[e] > 0 => status[e] \in Decided

OneHolder(e) ==
  /\ jobs[e] <= 1
  /\ jobs[e] > 0 => ~InHand(e)
  /\ \A o \in Operators : OpHolds(o, e) =>
       /\ ~WebHolds(e) /\ ~AiHolds(e)
       /\ \A p \in Operators : OpHolds(p, e) => p = o

LoggedInOrder(e) ==
  /\ web[e] \in {"logState", "insertJob", "logQueued"} => <<e, "received">> \in ledger
  /\ web[e] \in {"insertJob", "logQueued"} => <<e, verdict[e]>> \in ledger
  /\ web[e] = "logQueued" => jobs[e] > 0

HoldersInv ==
  /\ \A e \in Events : HeldIsDecided(e) /\ OneHolder(e) /\ LoggedInOrder(e)
  /\ DecidedIsInHand
  /\ QueuedIsBacked

-----------------------------------------------------------------------------
(* The promise: how far an event has come is in its row, its jobs and who   *)
(* holds it.                                                                *)
Stage(e) ==
  IF status[e] \notin Decided THEN status[e]
  ELSE IF jobs[e] > 0 THEN "queued"
  ELSE IF InHand(e) THEN "decided" ELSE "forgotten"

Promise == INSTANCE TriagePromise WITH stage <- [e \in Events |-> Stage(e)]

(* However the request, the model's answer, operators, the bridge's switch  *)
(* and faults interleave, an event goes through the stages of               *)
(* TriagePromise: decided once, handed over once, and forgotten only by a   *)
(* fault of its own or because its bridge is off (main.py:180-234, 584-629).*)
EventsKeepPromise == Promise!Spec

-----------------------------------------------------------------------------
(* Liveness, of FairSpec *)

(* A decided event comes to have a job, but for the two ways to lose one.   *)
DecidedIsQueuedOrLost ==
  \A e \in Events : status[e] \in Decided ~> jobs[e] > 0 \/ e \in lost

(* README.md:94: "Validated or healed payloads create a durable delivery    *)
(* job before queueing."                                                    *)
DecidedIsQueued == \A e \in Events : status[e] \in Decided ~> jobs[e] > 0

=============================================================================
