---------------------------- MODULE TriageProofs ----------------------------
(***************************************************************************)
(* Theorems about Triage, for any number of events, operators and faults.  *)
(***************************************************************************)
EXTENDS Triage, TLAPS

USE TriageAssumption

(* A step keeps the types.                                                  *)
LEMMA TypeStep == TypeOK /\ [Next]_vars => TypeOK'
<1> SUFFICES ASSUME TypeOK, [Next]_vars PROVE TypeOK'
  OBVIOUS
<1> USE DEF TypeOK, Decided, Verdicts, States, eventVars, bridgeVars, webVars,
            opVars, Log, AddJob, Done, Fault
<1>1. ASSUME NEW e \in Events, NEW v \in Verdicts,
             NEW fs \in SUBSET Fields, Receive(e, v, fs) PROVE TypeOK'
  BY <1>1 DEF Receive
<1>2. ASSUME NEW e \in Events, WebStep(e) PROVE TypeOK'
  <2>1. CASE Persist(e)
    BY <2>1 DEF Persist
  <2>2. CASE LogState(e)
    BY <2>2 DEF LogState
  <2>3. CASE InsertJob(e)
    BY <2>3 DEF InsertJob
  <2>4. CASE LogQueued(e)
    BY <2>4 DEF LogQueued
  <2> QED BY <1>2, <2>1, <2>2, <2>3, <2>4 DEF WebStep
<1>3. ASSUME NEW e \in Events, AiStep(e) PROVE TypeOK'
  <2>1. ASSUME NEW next \in {"promote", "none", "failed"}, Answered(e, next)
        PROVE  TypeOK'
    BY <2>1 DEF Answered
  <2>2. CASE Promote(e)
    BY <2>2 DEF Promote
  <2>3. CASE InsertHealedJob(e)
    BY <2>3 DEF InsertHealedJob
  <2>4. CASE GiveUp(e)
    BY <2>4 DEF GiveUp
  <2> QED BY <1>3, <2>1, <2>2, <2>3, <2>4 DEF AiStep
<1>4. ASSUME NEW e \in Events, WebFault(e) PROVE TypeOK'
  BY <1>4 DEF WebFault
<1>5. ASSUME NEW e \in Events, NEW next \in {"none", "failed"}, AiFault(e, next)
      PROVE  TypeOK'
  BY <1>5 DEF AiFault
<1>6. ASSUME NEW o \in Operators, NEW e \in Events, Resolve(o, e) PROVE TypeOK'
  BY <1>6 DEF Resolve
<1>7. ASSUME NEW o \in Operators, OpStep(o) PROVE TypeOK'
  <2>1. CASE ResolveRefused(o)
    BY <2>1 DEF ResolveRefused
  <2>2. CASE DropEvent(o)
    BY <2>2 DEF DropEvent
  <2>3. CASE MapEvent(o)
    BY <2>3 DEF MapEvent
  <2>4. CASE CheckBridge(o)
    BY <2>4 DEF CheckBridge
  <2>5. CASE TurnedAway(o)
    BY <2>5 DEF TurnedAway
  <2>6. CASE InsertMappedJob(o)
    BY <2>6 DEF InsertMappedJob
  <2> QED BY <1>7, <2>1, <2>2, <2>3, <2>4, <2>5, <2>6 DEF OpStep
<1>8. ASSUME NEW o \in Operators, OpFault(o) PROVE TypeOK'
  BY <1>8 DEF OpFault
<1>9. ASSUME NEW v \in BOOLEAN, BeginPatch(v) \/ WritePatch(v) PROVE TypeOK'
  BY <1>9 DEF BeginPatch, WritePatch
<1>10. CASE UNCHANGED vars
  BY <1>10 DEF vars
<1> HIDE DEF TypeOK
<1> QED BY <1>1, <1>2, <1>3, <1>4, <1>5, <1>6, <1>7, <1>8, <1>9, <1>10 DEF Next

(* The type invariant.                                                      *)
THEOREM TypeCorrect == Spec => []TypeOK
<1>1. Init => TypeOK
  BY DEF Init, TypeOK, Decided, Verdicts
<1> QED BY <1>1, TypeStep, PTL DEF Spec

-----------------------------------------------------------------------------
(* What HoldersInv says of one event.                                       *)
EventInv(e) ==
  /\ HeldIsDecided(e)
  /\ OneHolder(e)
  /\ LoggedInOrder(e)
  /\ status[e] \in Decided => jobs[e] > 0 \/ InHand(e) \/ e \in lost
  /\ <<e, "queued">> \in ledger =>
       /\ <<e, "received">> \in ledger
       /\ \E v \in Decided : <<e, v>> \in ledger
       /\ jobs[e] > 0

LEMMA HoldersInvIsLocal == HoldersInv <=> \A e \in Events : EventInv(e)
BY DEF HoldersInv, EventInv, DecidedIsInHand, QueuedIsBacked

(* A step does not concern event e, except that it may come to be lost.     *)
Untouched(e) ==
  /\ status'[e] = status[e] /\ jobs'[e] = jobs[e]
  /\ web'[e] = web[e] /\ verdict'[e] = verdict[e] /\ ai'[e] = ai[e]
  /\ \A state \in States : <<e, state>> \in ledger' <=> <<e, state>> \in ledger
  /\ \A o \in Operators : OpHolds(o, e)' <=> OpHolds(o, e)
  /\ e \in lost => e \in lost'

LEMMA UntouchedKept ==
  ASSUME TypeOK, NEW e \in Events, EventInv(e), Untouched(e)
  PROVE  EventInv(e)'
<1>1. /\ WebHolds(e)' <=> WebHolds(e)
      /\ AiHolds(e)' <=> AiHolds(e)
  BY DEF Untouched, WebHolds, AiHolds
<1>2. InHand(e)' <=> InHand(e)
  BY <1>1 DEF Untouched, InHand
<1>3. HeldIsDecided(e)'
  BY <1>2 DEF EventInv, HeldIsDecided, Untouched
<1>4. OneHolder(e)'
  BY <1>1, <1>2 DEF EventInv, OneHolder, Untouched
<1>5. LoggedInOrder(e)'
  BY DEF EventInv, LoggedInOrder, Untouched, TypeOK, Verdicts, States, Decided
<1>6. (status[e] \in Decided => jobs[e] > 0 \/ InHand(e) \/ e \in lost)'
  BY <1>2 DEF EventInv, Untouched
<1>7. (<<e, "queued">> \in ledger =>
         /\ <<e, "received">> \in ledger
         /\ \E v \in Decided : <<e, v>> \in ledger
         /\ jobs[e] > 0)'
  BY DEF EventInv, Untouched, States, Verdicts, Decided
<1> QED BY <1>3, <1>4, <1>5, <1>6, <1>7 DEF EventInv

(* The same of a step that concerns event e alone.                          *)
LEMMA OneEventSteps ==
  ASSUME TypeOK, HoldersInv, NEW e \in Events, EventInv(e)',
         \A f \in Events \ {e} : Untouched(f)
  PROVE  HoldersInv'
<1>1. ASSUME NEW f \in Events PROVE EventInv(f)'
  <2>1. CASE f = e
    BY <2>1
  <2>2. CASE f # e
    BY <2>2, UntouchedKept, HoldersInvIsLocal
  <2> QED BY <2>1, <2>2
<1> QED BY <1>1 DEF HoldersInv, EventInv, DecidedIsInHand, QueuedIsBacked

-----------------------------------------------------------------------------
(* The webhook request and the background task concern their own event.     *)
LEMMA WebTouchesOne ==
  ASSUME TypeOK, NEW e \in Events,
         Persist(e) \/ LogState(e) \/ InsertJob(e) \/ LogQueued(e) \/ WebFault(e)
  PROVE  \A f \in Events \ {e} : Untouched(f)
BY DEF Untouched, OpHolds, Persist, LogState, InsertJob, LogQueued, WebFault,
  TypeOK, eventVars, bridgeVars, opVars, Log, AddJob, Fault

LEMMA AiTouchesOne ==
  ASSUME TypeOK, NEW e \in Events,
         \/ AiStep(e)
         \/ \E next \in {"none", "failed"} : AiFault(e, next)
  PROVE  \A f \in Events \ {e} : Untouched(f)
BY DEF Untouched, OpHolds, AiStep, Answered, Promote, InsertHealedJob, GiveUp,
  AiFault, TypeOK, eventVars, bridgeVars, webVars, opVars, AddJob, Fault

(* A resolve-triage request concerns the event it has been asked about.     *)
LEMMA OpTouchesOne ==
  ASSUME TypeOK, NEW o \in Operators, OpStep(o) \/ OpFault(o),
         NEW e \in Events, opEvent[o] = e
  PROVE  /\ op[o] # "idle"
         /\ \A p \in Operators \ {o}, f \in Events :
              OpHolds(p, f)' <=> OpHolds(p, f)
         /\ \A f \in Events \ {e} : Untouched(f)
<1> USE DEF OpStep, OpFault, ResolveRefused, DropEvent, MapEvent, CheckBridge,
            TurnedAway, InsertMappedJob, TypeOK,
            eventVars, bridgeVars, webVars, opVars, AddJob, Done, Fault
<1>1. op[o] # "idle"
  OBVIOUS
<1>2. \A p \in Operators \ {o}, f \in Events : OpHolds(p, f)' <=> OpHolds(p, f)
  BY DEF OpHolds
<1>3. \A f \in Events \ {e} : ~OpHolds(o, f) /\ ~OpHolds(o, f)'
  BY DEF OpHolds
<1>4. \A f \in Events \ {e} : Untouched(f)
  BY <1>2, <1>3 DEF Untouched
<1> QED BY <1>1, <1>2, <1>4

(* The webhook request.                                                     *)
LEMMA WebHolding ==
  ASSUME TypeOK, HoldersInv, NEW e \in Events,
         Persist(e) \/ LogState(e) \/ InsertJob(e) \/ LogQueued(e) \/ WebFault(e)
  PROVE  HoldersInv'
<1> USE DEF eventVars, bridgeVars, webVars, opVars, Log, AddJob, Fault
<1>0. EventInv(e)
  BY HoldersInvIsLocal
<1>1. \A f \in Events \ {e} : Untouched(f)
  BY WebTouchesOne
<1>2. \A o \in Operators, f \in Events : OpHolds(o, f)' <=> OpHolds(o, f)
  BY DEF OpHolds, Persist, LogState, InsertJob, LogQueued, WebFault
<1> USE DEF EventInv, HeldIsDecided, OneHolder, LoggedInOrder, InHand,
            WebHolds, AiHolds
<1>3. CASE Persist(e)
  <2>1. /\ status[e] = "absent" /\ jobs[e] = 0 /\ ai[e] = "none"
        /\ ~InHand(e)
    BY <1>0, <1>3 DEF Persist, TypeOK, Decided
  <2>2. /\ status'[e] = verdict[e] /\ web'[e] = "logState"
        /\ verdict' = verdict /\ ai' = ai /\ jobs' = jobs /\ lost' = lost
        /\ ledger' = ledger \cup {<<e, "received">>}
    BY <1>3 DEF Persist, TypeOK
  <2>3. /\ InHand(e)' <=> verdict[e] \in Decided
        /\ ~AiHolds(e)' /\ \A o \in Operators : ~OpHolds(o, e)'
    BY <1>2, <2>1, <2>2
  <2>4. HeldIsDecided(e)'
    BY <2>1, <2>2, <2>3 DEF TypeOK, Verdicts, Decided
  <2>5. OneHolder(e)'
    BY <2>1, <2>2, <2>3
  <2>6. LoggedInOrder(e)'
    BY <2>2
  <2>7. <<e, "queued">> \notin ledger'
    BY <1>0, <2>1, <2>2 DEF TypeOK
  <2>8. EventInv(e)'
    <3> HIDE DEF HeldIsDecided, OneHolder, LoggedInOrder, InHand
    <3> QED BY <2>2, <2>3, <2>4, <2>5, <2>6, <2>7
  <2> QED BY <1>1, <2>8, OneEventSteps
<1>4. CASE LogState(e)
  <2>1. ASSUME verdict[e] \in Decided PROVE EventInv(e)'
    <3>1. /\ web[e] = "logState" /\ web'[e] = "insertJob" /\ ai'[e] = ai[e]
          /\ status' = status /\ verdict' = verdict /\ jobs' = jobs /\ lost' = lost
          /\ ledger' = ledger \cup {<<e, verdict[e]>>}
      BY <1>4, <2>1 DEF LogState, TypeOK, Decided
    <3>2. <<e, "queued">> \in ledger' => <<e, "queued">> \in ledger
      BY <2>1, <3>1 DEF Decided
    <3> QED BY <1>0, <1>2, <2>1, <3>1, <3>2
  <2>2. ASSUME verdict[e] \notin Decided PROVE EventInv(e)'
    <3>1. /\ web[e] = "logState" /\ web'[e] = "none"
          /\ ai[e] = "none" /\ ai'[e] \in {"none", "asking"}
          /\ status' = status /\ verdict' = verdict /\ jobs' = jobs /\ lost' = lost
          /\ ledger' = ledger \cup {<<e, verdict[e]>>}
      BY <1>0, <1>4, <2>2 DEF LogState, TypeOK
    <3>2. <<e, "queued">> \in ledger' => <<e, "queued">> \in ledger
      BY <3>1 DEF TypeOK, Verdicts, Decided
    <3> QED BY <1>0, <1>2, <2>2, <3>1, <3>2
  <2> QED BY <1>1, <2>1, <2>2, OneEventSteps
<1>5. CASE InsertJob(e)
  <2>1. EventInv(e)'
    BY <1>0, <1>2, <1>5 DEF InsertJob, TypeOK, Decided, Verdicts
  <2> QED BY <1>1, <2>1, OneEventSteps
<1>6. CASE LogQueued(e)
  <2>1. EventInv(e)'
    BY <1>0, <1>2, <1>6 DEF LogQueued, TypeOK, Decided, Verdicts
  <2> QED BY <1>1, <2>1, OneEventSteps
<1>7. CASE WebFault(e)
  <2>1. EventInv(e)'
    BY <1>0, <1>2, <1>7 DEF WebFault, TypeOK, Decided, Verdicts
  <2> QED BY <1>1, <2>1, OneEventSteps
<1> QED BY <1>3, <1>4, <1>5, <1>6, <1>7

LEMMA ReceiveHolding ==
  ASSUME TypeOK, HoldersInv, NEW e \in Events, NEW v \in Verdicts,
             NEW fs \in SUBSET Fields, Receive(e, v, fs)
  PROVE  HoldersInv'
<1> USE DEF eventVars, bridgeVars, webVars, opVars
<1>0. EventInv(e)
  BY HoldersInvIsLocal
<1>1. \A f \in Events \ {e} : Untouched(f)
  BY DEF Untouched, OpHolds, Receive, TypeOK
<1>2. \A o \in Operators, f \in Events : OpHolds(o, f)' <=> OpHolds(o, f)
  BY DEF OpHolds, Receive
<1>3. EventInv(e)'
  BY <1>0, <1>2 DEF Receive, TypeOK, Decided, Verdicts, EventInv, HeldIsDecided,
    OneHolder, LoggedInOrder, InHand, WebHolds, AiHolds
<1> QED BY <1>1, <1>3, OneEventSteps

(* The background task.                                                     *)
LEMMA AiHolding ==
  ASSUME TypeOK, HoldersInv, NEW e \in Events,
         \/ AiStep(e)
         \/ \E next \in {"none", "failed"} : AiFault(e, next)
  PROVE  HoldersInv'
<1> USE DEF eventVars, bridgeVars, webVars, opVars, AddJob, Fault
<1>0. EventInv(e)
  BY HoldersInvIsLocal
<1>1. \A f \in Events \ {e} : Untouched(f)
  BY AiTouchesOne
<1>2. \A o \in Operators, f \in Events : OpHolds(o, f)' <=> OpHolds(o, f)
  BY DEF OpHolds, AiStep, Answered, Promote, InsertHealedJob, GiveUp, AiFault
<1> USE DEF EventInv, HeldIsDecided, OneHolder, LoggedInOrder, InHand,
            WebHolds, AiHolds
<1>3. ASSUME NEW next \in {"promote", "none", "failed"}, Answered(e, next)
      PROVE  EventInv(e)'
  BY <1>0, <1>2, <1>3 DEF Answered, TypeOK, Decided, Verdicts
<1>4. CASE Promote(e)
  <2>1. ASSUME status[e] = "uncertain" PROVE EventInv(e)'
    <3>1. ~InHand(e) /\ jobs[e] = 0 /\ web[e] = "none"
      BY <1>0, <1>4, <2>1 DEF Promote, TypeOK, Decided
    <3>2. /\ status'[e] = "healed" /\ ai'[e] = "insertJob"
          /\ web' = web /\ verdict' = verdict /\ jobs' = jobs
          /\ ledger' = ledger /\ lost' = lost
      BY <1>4, <2>1 DEF Promote, TypeOK
    <3>3. /\ InHand(e)' /\ AiHolds(e)' /\ ~WebHolds(e)'
          /\ \A o \in Operators : ~OpHolds(o, e)'
      BY <1>2, <3>1, <3>2
    <3>4. HeldIsDecided(e)'
      BY <3>1, <3>2, <3>3 DEF Decided
    <3>5. OneHolder(e)'
      BY <3>1, <3>2, <3>3
    <3>6. LoggedInOrder(e)'
      BY <3>1, <3>2
    <3> HIDE DEF HeldIsDecided, OneHolder, LoggedInOrder, InHand
    <3> QED BY <1>0, <3>2, <3>3, <3>4, <3>5, <3>6
  <2>2. ASSUME status[e] # "uncertain" PROVE EventInv(e)'
    <3>1. /\ status' = status /\ ai'[e] = "failed" /\ ai[e] = "promote"
          /\ web' = web /\ verdict' = verdict /\ jobs' = jobs
          /\ ledger' = ledger /\ lost' = lost
      BY <1>4, <2>2 DEF Promote, TypeOK
    <3>2. /\ WebHolds(e)' <=> WebHolds(e)
          /\ ~AiHolds(e) /\ ~AiHolds(e)'
      BY <3>1
    <3>3. InHand(e)' <=> InHand(e)
      BY <1>2, <3>2
    <3>4. HeldIsDecided(e)'
      BY <1>0, <3>1, <3>3
    <3>5. OneHolder(e)'
      BY <1>0, <1>2, <3>1, <3>2, <3>3
    <3>6. LoggedInOrder(e)'
      BY <1>0, <3>1
    <3> HIDE DEF HeldIsDecided, OneHolder, LoggedInOrder, InHand
    <3> QED BY <1>0, <3>1, <3>3, <3>4, <3>5, <3>6
  <2> QED BY <1>1, <2>1, <2>2, OneEventSteps
<1>5. CASE InsertHealedJob(e)
  <2>1. EventInv(e)'
    BY <1>0, <1>2, <1>5 DEF InsertHealedJob, TypeOK, Decided, Verdicts
  <2> QED BY <1>1, <2>1, OneEventSteps
<1>6. CASE GiveUp(e)
  <2>1. EventInv(e)'
    BY <1>0, <1>2, <1>6 DEF GiveUp, TypeOK, Decided, Verdicts
  <2> QED BY <1>1, <2>1, OneEventSteps
<1>7. ASSUME NEW next \in {"none", "failed"}, AiFault(e, next)
      PROVE  EventInv(e)'
  BY <1>0, <1>2, <1>7 DEF AiFault, TypeOK, Decided, Verdicts
<1> QED BY <1>1, <1>3, <1>4, <1>5, <1>6, <1>7, OneEventSteps DEF AiStep

(* A resolve-triage request.  No other request holds its event before it,   *)
(* and none after it but itself.                                            *)
LEMMA OpHolding ==
  ASSUME TypeOK, HoldersInv, NEW o \in Operators, OpStep(o) \/ OpFault(o)
  PROVE  HoldersInv'
<1> USE DEF eventVars, bridgeVars, webVars, opVars, AddJob, Done, Fault
<1>1. PICK e \in Events : op[o] # "idle" /\ opEvent[o] = e
  BY DEF OpStep, OpFault, ResolveRefused, DropEvent, MapEvent, CheckBridge,
    TurnedAway, InsertMappedJob, TypeOK
<1>2. EventInv(e)
  BY <1>1, HoldersInvIsLocal
<1>3. \A p \in Operators \ {o} : OpHolds(p, e)' <=> OpHolds(p, e)
  BY <1>1, OpTouchesOne
<1>5. \A f \in Events \ {e} : Untouched(f)
  BY <1>1, OpTouchesOne
<1>6. web' = web /\ verdict' = verdict /\ ai' = ai /\ ledger' = ledger
  BY DEF OpStep, OpFault, ResolveRefused, DropEvent, MapEvent, CheckBridge,
    TurnedAway, InsertMappedJob
<1>7. (WebHolds(e)' <=> WebHolds(e)) /\ (AiHolds(e)' <=> AiHolds(e))
  BY <1>6 DEF WebHolds, AiHolds
<1> USE DEF EventInv, HeldIsDecided, OneHolder, LoggedInOrder, InHand
<1>8. CASE ResolveRefused(o)
  <2>1. /\ ~OpHolds(o, e) /\ ~OpHolds(o, e)'
        /\ status' = status /\ jobs' = jobs /\ lost' = lost
    BY <1>1, <1>8 DEF ResolveRefused, OpHolds, TypeOK
  <2>2. EventInv(e)'
    BY <1>2, <1>3, <1>6, <1>7, <2>1
  <2> QED BY <1>1, <1>5, <2>2, OneEventSteps
<1>9. CASE DropEvent(o)
  <2>1. /\ ~OpHolds(o, e) /\ ~OpHolds(o, e)'
        /\ status[e] = "uncertain" /\ status'[e] = "dropped"
        /\ jobs' = jobs /\ lost' = lost
    BY <1>1, <1>9 DEF DropEvent, OpHolds, TypeOK
  <2>2. ~InHand(e) /\ jobs[e] = 0
    BY <1>2, <2>1 DEF TypeOK, Decided
  <2>3. EventInv(e)'
    BY <1>2, <1>3, <1>6, <1>7, <2>1, <2>2 DEF Decided
  <2> QED BY <1>1, <1>5, <2>3, OneEventSteps
<1>10. CASE MapEvent(o)
  <2>1. /\ OpHolds(o, e)'
        /\ status[e] = "uncertain" /\ status'[e] = "healed"
        /\ jobs' = jobs /\ lost' = lost
    BY <1>1, <1>10 DEF MapEvent, OpHolds, TypeOK
  <2>2. ~InHand(e) /\ jobs[e] = 0
    BY <1>2, <2>1 DEF TypeOK, Decided
  <2>3. EventInv(e)'
    BY <1>2, <1>3, <1>6, <1>7, <2>1, <2>2 DEF Decided
  <2> QED BY <1>1, <1>5, <2>3, OneEventSteps
<1>11. CASE CheckBridge(o)
  <2>1. /\ OpHolds(o, e) /\ OpHolds(o, e)'
        /\ status' = status /\ jobs' = jobs /\ lost' = lost
    BY <1>1, <1>11 DEF CheckBridge, OpHolds, TypeOK
  <2>2. EventInv(e)'
    BY <1>2, <1>3, <1>6, <1>7, <2>1
  <2> QED BY <1>1, <1>5, <2>2, OneEventSteps
<1>12. ASSUME TurnedAway(o) \/ OpFault(o) PROVE HoldersInv'
  <2>1. /\ ~OpHolds(o, e)'
        /\ status' = status /\ jobs' = jobs /\ e \in lost'
    BY <1>1, <1>12 DEF TurnedAway, OpFault, OpHolds, TypeOK
  <2>2. EventInv(e)'
    BY <1>2, <1>3, <1>6, <1>7, <2>1
  <2> QED BY <1>1, <1>5, <2>2, OneEventSteps
<1>13. CASE InsertMappedJob(o)
  <2>1. /\ OpHolds(o, e) /\ ~OpHolds(o, e)'
        /\ status' = status /\ jobs'[e] = jobs[e] + 1 /\ lost' = lost
    BY <1>1, <1>13 DEF InsertMappedJob, OpHolds, TypeOK
  <2>2. jobs[e] = 0 /\ jobs'[e] = 1 /\ ~InHand(e)'
    BY <1>2, <1>3, <1>7, <2>1 DEF TypeOK
  <2>3. EventInv(e)'
    BY <1>2, <1>3, <1>6, <1>7, <2>1, <2>2
  <2> QED BY <1>1, <1>5, <2>3, OneEventSteps
<1> QED BY <1>8, <1>9, <1>10, <1>11, <1>12, <1>13 DEF OpStep

(* Steps that concern no event.                                             *)
LEMMA NoEventSteps ==
  ASSUME TypeOK, HoldersInv, \A f \in Events : Untouched(f)
  PROVE  HoldersInv'
<1>1. ASSUME NEW f \in Events PROVE EventInv(f)'
  BY UntouchedKept, HoldersInvIsLocal
<1> QED BY <1>1 DEF HoldersInv, EventInv, DecidedIsInHand, QueuedIsBacked

LEMMA HoldersStep == TypeOK /\ HoldersInv /\ [Next]_vars => HoldersInv'
<1> SUFFICES ASSUME TypeOK, HoldersInv, [Next]_vars PROVE HoldersInv'
  OBVIOUS
<1>1. ASSUME NEW e \in Events, NEW v \in Verdicts,
             NEW fs \in SUBSET Fields, Receive(e, v, fs) PROVE HoldersInv'
  BY <1>1, ReceiveHolding
<1>2. ASSUME NEW e \in Events, WebStep(e) \/ WebFault(e) PROVE HoldersInv'
  BY <1>2, WebHolding DEF WebStep
<1>3. ASSUME NEW e \in Events,
             \/ AiStep(e)
             \/ \E next \in {"none", "failed"} : AiFault(e, next)
      PROVE  HoldersInv'
  BY <1>3, AiHolding
<1>4. ASSUME NEW o \in Operators, NEW e \in Events, Resolve(o, e) PROVE HoldersInv'
  <2>1. \A p \in Operators, f \in Events : OpHolds(p, f)' <=> OpHolds(p, f)
    BY <1>4 DEF Resolve, OpHolds, TypeOK
  <2> QED BY <1>4, <2>1, NoEventSteps
          DEF Resolve, Untouched, eventVars, bridgeVars, webVars
<1>5. ASSUME NEW o \in Operators, OpStep(o) \/ OpFault(o) PROVE HoldersInv'
  BY <1>5, OpHolding
<1>6. ASSUME \/ \E v \in BOOLEAN : BeginPatch(v) \/ WritePatch(v)
             \/ UNCHANGED vars
      PROVE  HoldersInv'
  BY <1>6, NoEventSteps DEF BeginPatch, WritePatch, vars, Untouched, OpHolds,
    eventVars, bridgeVars, webVars, opVars
<1> QED BY <1>1, <1>2, <1>3, <1>4, <1>5, <1>6 DEF Next

(* Every decided event is in one pair of hands until its job is inserted.   *)
THEOREM HoldersInvariant == Spec => [](TypeOK /\ HoldersInv)
<1>1. Init => TypeOK /\ HoldersInv
  <2> SUFFICES ASSUME Init PROVE TypeOK /\ HoldersInv
    OBVIOUS
  <2>1. TypeOK
    BY DEF Init, TypeOK, Decided, Verdicts
  <2>2. \A e \in Events : EventInv(e)
    BY DEF Init, EventInv, HeldIsDecided, OneHolder, LoggedInOrder, InHand,
      WebHolds, AiHolds, OpHolds, Decided
  <2> QED BY <2>1, <2>2, HoldersInvIsLocal
<1> QED BY <1>1, TypeStep, HoldersStep, PTL DEF Spec

-----------------------------------------------------------------------------
(* The webhook request, the background task and any number of operators     *)
(* insert one job for an event at most.                                     *)
THEOREM AtMostOneJob == Spec => []OneJobPerEvent
<1>1. HoldersInv => OneJobPerEvent
  BY DEF HoldersInv, OneHolder, OneJobPerEvent
<1> QED BY <1>1, HoldersInvariant, PTL

(* Uncertain, rejected and dropped data is never handed to delivery.        *)
THEOREM FailsClosed == Spec => []JobIsDecided
<1>1. HoldersInv => JobIsDecided
  BY DEF HoldersInv, HeldIsDecided, JobIsDecided
<1> QED BY <1>1, HoldersInvariant, PTL

(* A decision and the duty to insert the job are one step.                  *)
THEOREM NoneForgotten == Spec => []DecidedIsInHand
<1>1. HoldersInv => DecidedIsInHand
  BY DEF HoldersInv
<1> QED BY <1>1, HoldersInvariant, PTL

(* The ledger's "queued" has a receipt, a decision and a job behind it.     *)
THEOREM LedgerIsBacked == Spec => []QueuedIsBacked
<1>1. HoldersInv => QueuedIsBacked
  BY DEF HoldersInv
<1> QED BY <1>1, HoldersInvariant, PTL

-----------------------------------------------------------------------------
(* Triage implements TriagePromise.                                         *)
Stages == [e \in Events |-> Stage(e)]

LEMMA UntouchedStays ==
  ASSUME NEW e \in Events, Untouched(e)
  PROVE  (InHand(e)' <=> InHand(e)) /\ Stage(e)' = Stage(e)
<1>1. /\ WebHolds(e)' <=> WebHolds(e)
      /\ AiHolds(e)' <=> AiHolds(e)
  BY DEF Untouched, WebHolds, AiHolds
<1>2. InHand(e)' <=> InHand(e)
  BY <1>1 DEF Untouched, InHand
<1> QED BY <1>2 DEF Untouched, Stage

(* A step that concerns one event moves that one.                           *)
LEMMA OneEventMoves ==
  ASSUME NEW e \in Events, \A f \in Events \ {e} : Untouched(f),
         NEW from, NEW to, Stage(e) = from, Stage(e)' = to
  PROVE  Promise!Move(e, from, to)
<1>1. \A f \in Events \ {e} : Stage(f)' = Stage(f)
  BY UntouchedStays
<1>2. Stages' = [Stages EXCEPT ![e] = to]
  BY <1>1 DEF Stages
<1> QED BY <1>2 DEF Promise!Move, Stages

LEMMA SameStages ==
  ASSUME NEW e \in Events, \A f \in Events \ {e} : Untouched(f),
         status'[e] = status[e], jobs'[e] = jobs[e], InHand(e)' <=> InHand(e)
  PROVE  Stages' = Stages
<1>1. Stage(e)' = Stage(e)
  BY DEF Stage
<1>2. \A f \in Events : Stage(f)' = Stage(f)
  BY <1>1, UntouchedStays
<1> QED BY <1>2 DEF Stages

(* Who lets go of an event leaves it where it is, or decided with nobody to *)
(* insert its job.                                                          *)
LEMMA LettingGo ==
  ASSUME TypeOK, HoldersInv, NEW e \in Events,
         \A f \in Events \ {e} : Untouched(f),
         status'[e] = status[e], jobs'[e] = jobs[e], InHand(e)' => InHand(e)
  PROVE  Stages' = Stages \/ Promise!Move(e, "decided", "forgotten")
<1>1. CASE InHand(e) /\ ~InHand(e)'
  <2>1. status[e] \in Decided /\ jobs[e] = 0
    BY <1>1 DEF HoldersInv, HeldIsDecided, OneHolder, TypeOK
  <2>2. Stage(e) = "decided" /\ Stage(e)' = "forgotten"
    BY <1>1, <2>1 DEF Stage, Decided
  <2> QED BY <2>2, OneEventMoves
<1>2. CASE InHand(e)' <=> InHand(e)
  BY <1>2, SameStages
<1> QED BY <1>1, <1>2

LEMMA FaultKeepsPromise ==
  ASSUME TypeOK, HoldersInv, NEW e \in Events,
         \A f \in Events \ {e} : Untouched(f),
         status' = status, jobs' = jobs, InHand(e)' => InHand(e),
         bridgeActive' = bridgeActive, faults' = faults + 1
  PROVE  Promise!Next
<1>1. CASE Stages' = Stages
  <2>1. Promise!Surroundings
    BY <1>1 DEF Promise!Surroundings, Stages, TypeOK
  <2> QED BY <2>1 DEF Promise!Next
<1>2. CASE Promise!Move(e, "decided", "forgotten")
  <2>1. Promise!Forget(e)
    BY <1>2 DEF Promise!Forget
  <2> QED BY <2>1 DEF Promise!Next
<1> QED BY <1>1, <1>2, LettingGo

(* Who inserts the job of an event in hand hands it over.                   *)
LEMMA InsertingHandsOver ==
  ASSUME TypeOK, HoldersInv, NEW e \in Events, InHand(e), AddJob(e),
         \A f \in Events \ {e} : Untouched(f),
         status'[e] = status[e], UNCHANGED <<bridgeActive, faults>>
  PROVE  Promise!HandOver(e)
<1>1. status[e] \in Decided /\ jobs[e] = 0
  BY DEF HoldersInv, HeldIsDecided, OneHolder, TypeOK
<1>2. jobs'[e] = 1
  BY <1>1 DEF AddJob, TypeOK
<1>3. Stage(e) = "decided" /\ Stage(e)' = "queued"
  BY <1>1, <1>2 DEF Stage, Decided
<1> QED BY <1>3, OneEventMoves DEF AddJob, Promise!HandOver

(* Who decides what is parked resolves it.                                  *)
LEMMA DecidingResolves ==
  ASSUME TypeOK, HoldersInv, NEW e \in Events, status[e] = "uncertain",
         \A f \in Events \ {e} : Untouched(f),
         \/ status'[e] = "healed" /\ InHand(e)'
         \/ status'[e] = "dropped",
         UNCHANGED <<jobs, bridgeActive, faults>>
  PROVE  Promise!Resolve(e)
<1>1. jobs[e] = 0
  BY DEF HoldersInv, HeldIsDecided, OneHolder, TypeOK, Decided
<1>2. Stage(e) = "uncertain" /\ Stage(e)' \in {"decided", "dropped"}
  BY <1>1 DEF Stage, Decided
<1> QED BY <1>2, OneEventMoves DEF Promise!Resolve

-----------------------------------------------------------------------------
(* Steps of the promise, from one actor each.                               *)
LEMMA ReceiveKeepsPromise ==
  ASSUME TypeOK, HoldersInv, NEW e \in Events, NEW v \in Verdicts,
         NEW fs \in SUBSET Fields, Receive(e, v, fs)
  PROVE  Stages' = Stages
<1>1. \A f \in Events : status'[f] = status[f] /\ status[e] \notin Decided
  BY DEF Receive, Decided
<1>2. \A f \in Events \ {e} : Untouched(f)
  BY DEF Untouched, OpHolds, Receive, TypeOK, bridgeVars, opVars
<1>3. \A f \in Events : Stage(f)' = Stage(f)
  BY <1>1, <1>2, UntouchedStays DEF Stage
<1> QED BY <1>3 DEF Stages

LEMMA WebKeepsPromise ==
  ASSUME TypeOK, HoldersInv, NEW e \in Events, WebStep(e) \/ WebFault(e)
  PROVE  [Promise!Next]_(Promise!vars)
<1> USE DEF bridgeVars, opVars
<1>1. \A f \in Events \ {e} : Untouched(f)
  BY WebTouchesOne DEF WebStep
<1>2. EventInv(e)
  BY HoldersInvIsLocal
<1>3. \A o \in Operators : OpHolds(o, e)' <=> OpHolds(o, e)
  BY DEF WebStep, Persist, LogState, InsertJob, LogQueued, WebFault, OpHolds
<1>4. CASE Persist(e)
  <2>1. /\ status[e] = "absent" /\ jobs[e] = 0 /\ ai[e] = "none"
        /\ status'[e] = verdict[e] /\ jobs' = jobs
        /\ web'[e] = "logState" /\ verdict' = verdict
    BY <1>2, <1>4 DEF Persist, EventInv, HeldIsDecided, OneHolder, TypeOK, Decided
  <2>2. verdict[e] \in Decided => InHand(e)'
    BY <2>1 DEF InHand, WebHolds
  <2>3. /\ Stage(e) = "absent"
        /\ Stage(e)' \in {"decided", "uncertain", "rejected"}
    BY <2>1, <2>2 DEF Stage, TypeOK, Verdicts, Decided
  <2>4. Promise!Judge(e)
    BY <1>1, <1>4, <2>1, <2>3, OneEventMoves DEF Promise!Judge, Persist
  <2> QED BY <2>4 DEF Promise!Next
<1>5. CASE LogState(e)
  <2>1. InHand(e)' <=> InHand(e)
    BY <1>2, <1>3, <1>5
    DEF LogState, InHand, WebHolds, AiHolds, TypeOK, EventInv, HeldIsDecided
  <2>2. Stages' = Stages
    BY <1>1, <1>5, <2>1, SameStages DEF LogState
  <2> QED BY <1>5, <2>2 DEF LogState, Promise!vars, Stages
<1>6. CASE InsertJob(e)
  <2>1. InHand(e)
    BY <1>2, <1>6 DEF InsertJob, InHand, WebHolds, EventInv, HeldIsDecided
  <2>2. Promise!HandOver(e)
    BY <1>1, <1>6, <2>1, InsertingHandsOver DEF InsertJob
  <2> QED BY <2>2 DEF Promise!Next
<1>7. CASE LogQueued(e)
  <2>1. InHand(e)' <=> InHand(e)
    BY <1>3, <1>7 DEF LogQueued, InHand, WebHolds, AiHolds, TypeOK
  <2>2. Stages' = Stages
    BY <1>1, <1>7, <2>1, SameStages DEF LogQueued
  <2> QED BY <1>7, <2>2 DEF LogQueued, Promise!vars, Stages
<1>8. CASE WebFault(e)
  <2>1. InHand(e)' => InHand(e)
    BY <1>3, <1>8 DEF WebFault, InHand, WebHolds, AiHolds, TypeOK
  <2>2. /\ status' = status /\ jobs' = jobs /\ bridgeActive' = bridgeActive
        /\ faults' = faults + 1
    BY <1>8 DEF WebFault, Fault, eventVars
  <2> QED BY <1>1, <2>1, <2>2, FaultKeepsPromise
<1> QED BY <1>4, <1>5, <1>6, <1>7, <1>8 DEF WebStep

LEMMA AiKeepsPromise ==
  ASSUME TypeOK, HoldersInv, NEW e \in Events,
         \/ AiStep(e)
         \/ \E next \in {"none", "failed"} : AiFault(e, next)
  PROVE  [Promise!Next]_(Promise!vars)
<1> USE DEF eventVars, bridgeVars, webVars, opVars
<1>1. \A f \in Events \ {e} : Untouched(f)
  BY AiTouchesOne
<1>2. /\ \A o \in Operators : OpHolds(o, e)' <=> OpHolds(o, e)
      /\ WebHolds(e)' <=> WebHolds(e)
  BY DEF AiStep, Answered, Promote, InsertHealedJob, GiveUp, AiFault, OpHolds,
         WebHolds
<1>3. ASSUME \/ \E next \in {"promote", "none", "failed"} : Answered(e, next)
             \/ GiveUp(e)
             \/ Promote(e) /\ status[e] # "uncertain"
      PROVE  UNCHANGED Promise!vars
  <2>1. /\ status' = status /\ jobs' = jobs
        /\ UNCHANGED <<bridgeActive, faults>>
    BY <1>3 DEF Answered, GiveUp, Promote
  <2>2. InHand(e)' <=> InHand(e)
    BY <1>2, <1>3 DEF Answered, GiveUp, Promote, InHand, AiHolds, TypeOK
  <2>3. Stages' = Stages
    BY <1>1, <2>1, <2>2, SameStages
  <2> QED BY <2>1, <2>3 DEF Promise!vars, Stages
<1>4. CASE Promote(e) /\ status[e] = "uncertain"
  <2>1. /\ status'[e] = "healed" /\ jobs' = jobs
        /\ UNCHANGED <<bridgeActive, faults>> /\ ai'[e] = "insertJob"
    BY <1>4 DEF Promote, TypeOK
  <2>2. InHand(e)'
    BY <2>1 DEF InHand, AiHolds
  <2>3. Promise!Resolve(e)
    BY <1>1, <1>4, <2>1, <2>2, DecidingResolves
  <2> QED BY <2>3 DEF Promise!Next
<1>5. CASE InsertHealedJob(e)
  <2>1. InHand(e)
    BY <1>5 DEF InsertHealedJob, InHand, AiHolds
  <2>2. Promise!HandOver(e)
    BY <1>1, <1>5, <2>1, InsertingHandsOver DEF InsertHealedJob
  <2> QED BY <2>2 DEF Promise!Next
<1>6. ASSUME NEW next \in {"none", "failed"}, AiFault(e, next)
      PROVE  Promise!Next
  <2>1. InHand(e)' => InHand(e)
    BY <1>2, <1>6 DEF AiFault, InHand, AiHolds, TypeOK
  <2>2. /\ status' = status /\ jobs' = jobs /\ bridgeActive' = bridgeActive
        /\ faults' = faults + 1
    BY <1>6 DEF AiFault, Fault
  <2> QED BY <1>1, <2>1, <2>2, FaultKeepsPromise
<1> QED BY <1>3, <1>4, <1>5, <1>6 DEF AiStep

LEMMA OpKeepsPromise ==
  ASSUME TypeOK, HoldersInv, NEW o \in Operators, OpStep(o) \/ OpFault(o)
  PROVE  [Promise!Next]_(Promise!vars)
<1> USE DEF eventVars, bridgeVars, webVars, opVars
<1>1. PICK e \in Events : op[o] # "idle" /\ opEvent[o] = e
  BY DEF OpStep, OpFault, ResolveRefused, DropEvent, MapEvent, CheckBridge,
    TurnedAway, InsertMappedJob, TypeOK
<1>2. /\ \A p \in Operators \ {o} : OpHolds(p, e)' <=> OpHolds(p, e)
      /\ \A f \in Events \ {e} : Untouched(f)
  BY <1>1, OpTouchesOne
<1>3. /\ WebHolds(e)' <=> WebHolds(e)
      /\ AiHolds(e)' <=> AiHolds(e)
  BY DEF OpStep, OpFault, ResolveRefused, DropEvent, MapEvent, CheckBridge,
    TurnedAway, InsertMappedJob, WebHolds, AiHolds
<1>4. ASSUME OpHolds(o, e)' => OpHolds(o, e) PROVE InHand(e)' => InHand(e)
  BY <1>2, <1>3, <1>4 DEF InHand
<1>5. CASE ResolveRefused(o) \/ CheckBridge(o)
  <2>1. /\ status' = status /\ jobs' = jobs
        /\ UNCHANGED <<bridgeActive, faults>>
    BY <1>5 DEF ResolveRefused, CheckBridge
  <2>2. OpHolds(o, e)' <=> OpHolds(o, e)
    BY <1>1, <1>5 DEF ResolveRefused, CheckBridge, Done, OpHolds, TypeOK
  <2>3. InHand(e)' <=> InHand(e)
    BY <1>2, <1>3, <2>2 DEF InHand
  <2>4. Stages' = Stages
    BY <1>2, <2>1, <2>3, SameStages
  <2> QED BY <2>1, <2>4 DEF Promise!vars, Stages
<1>6. CASE DropEvent(o) \/ MapEvent(o)
  <2>1. /\ status[e] = "uncertain" /\ UNCHANGED <<jobs, bridgeActive, faults>>
        /\ \/ status'[e] = "healed" /\ OpHolds(o, e)'
           \/ status'[e] = "dropped"
    BY <1>1, <1>6 DEF DropEvent, MapEvent, OpHolds, TypeOK
  <2>2. OpHolds(o, e)' => InHand(e)'
    BY DEF InHand
  <2>3. Promise!Resolve(e)
    BY <1>2, <2>1, <2>2, DecidingResolves
  <2> QED BY <2>3 DEF Promise!Next
<1>7. CASE TurnedAway(o)
  <2>1. /\ status' = status /\ jobs' = jobs /\ ~bridgeActive
        /\ UNCHANGED <<bridgeActive, faults>> /\ ~OpHolds(o, e)'
    BY <1>1, <1>7 DEF TurnedAway, Done, OpHolds, TypeOK
  <2>2. CASE Stages' = Stages
    BY <2>1, <2>2 DEF Promise!vars, Stages
  <2>3. CASE Promise!Move(e, "decided", "forgotten")
    <3>1. Promise!Forget(e)
      BY <2>1, <2>3 DEF Promise!Forget
    <3> QED BY <3>1 DEF Promise!Next
  <2> QED BY <1>2, <1>4, <2>1, <2>2, <2>3, LettingGo
<1>8. CASE InsertMappedJob(o)
  <2>1. InHand(e)
    BY <1>1, <1>8 DEF InsertMappedJob, InHand, OpHolds
  <2>2. Promise!HandOver(e)
    BY <1>1, <1>2, <1>8, <2>1, InsertingHandsOver DEF InsertMappedJob
  <2> QED BY <2>2 DEF Promise!Next
<1>9. CASE OpFault(o)
  <2>1. /\ status' = status /\ jobs' = jobs /\ bridgeActive' = bridgeActive
        /\ faults' = faults + 1 /\ ~OpHolds(o, e)'
    BY <1>1, <1>9 DEF OpFault, Fault, Done, OpHolds, TypeOK
  <2> QED BY <1>2, <1>4, <2>1, FaultKeepsPromise
<1> QED BY <1>5, <1>6, <1>7, <1>8, <1>9 DEF OpStep

(* The request is answered, or the switch written: no event moves.          *)
LEMMA OtherStepsKeepPromise ==
  ASSUME TypeOK,
         \/ \E o \in Operators, e \in Events : Resolve(o, e)
         \/ \E v \in BOOLEAN : BeginPatch(v) \/ WritePatch(v)
         \/ UNCHANGED vars
  PROVE  [Promise!Next]_(Promise!vars)
<1> USE DEF eventVars, bridgeVars, webVars, opVars
<1>1. \A o \in Operators, f \in Events : OpHolds(o, f)' <=> OpHolds(o, f)
  BY DEF Resolve, BeginPatch, WritePatch, vars, OpHolds, TypeOK
<1>2. \A f \in Events : Untouched(f)
  BY <1>1 DEF Resolve, BeginPatch, WritePatch, vars, Untouched
<1>3. \A f \in Events : Stage(f)' = Stage(f)
  BY <1>2, UntouchedStays
<1>4. Stages' = Stages
  BY <1>3 DEF Stages
<1>5. /\ jobs' = jobs /\ faults' = faults
      /\ bridgeActive' \in BOOLEAN
  BY DEF Resolve, BeginPatch, WritePatch, vars, TypeOK
<1>6. Promise!Surroundings
  BY <1>4, <1>5 DEF Promise!Surroundings, Stages
<1> QED BY <1>6 DEF Promise!Next

(* The webhook request, the model's answer, any number of operators, the    *)
(* bridge's switch and faults take an event through the stages of           *)
(* TriagePromise only.                                                      *)
THEOREM StagesAreKept == Spec => EventsKeepPromise
<1>1. Init => Promise!Init
  <2> SUFFICES ASSUME Init PROVE Promise!Init
    OBVIOUS
  <2>1. \A e \in Events : Stage(e) = "absent"
    BY DEF Init, Stage, Decided
  <2>2. [e \in Events |-> Stage(e)] = [e \in Events |-> "absent"]
    BY <2>1
  <2> QED BY <2>2 DEF Init, Promise!Init
<1>2. TypeOK /\ HoldersInv /\ [Next]_vars => [Promise!Next]_(Promise!vars)
  <2> SUFFICES ASSUME TypeOK, HoldersInv, [Next]_vars
               PROVE  [Promise!Next]_(Promise!vars)
    OBVIOUS
  <2>1. ASSUME NEW e \in Events, NEW v \in Verdicts, NEW fs \in SUBSET Fields,
               Receive(e, v, fs)
        PROVE  [Promise!Next]_(Promise!vars)
    <3>1. Stages' = Stages
      BY <2>1, ReceiveKeepsPromise
    <3> QED BY <2>1, <3>1 DEF Receive, bridgeVars, Promise!vars, Stages
  <2> QED BY <2>1, WebKeepsPromise, AiKeepsPromise, OpKeepsPromise,
             OtherStepsKeepPromise DEF Next
<1> QED BY <1>1, <1>2, HoldersInvariant, PTL
        DEF Spec, EventsKeepPromise, Promise!Spec

=============================================================================
