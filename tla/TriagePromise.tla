---------------------------- MODULE TriagePromise ----------------------------
(***************************************************************************)
(* What an event is promised between its webhook and its delivery job: it  *)
(* is judged once, and once more if it is uncertain; what may go out is    *)
(* handed to delivery once and stays so; what is rejected or dropped never *)
(* is.  Between a decision and its job an event may be forgotten, by a     *)
(* fault, which costs one event at most, or because its bridge is off; a   *)
(* forgotten event stays forgotten.                                        *)
(*                                                                         *)
(* Requests, tasks, operators and tables are not mentioned; module Triage  *)
(* implements this one.                                                    *)
(***************************************************************************)
EXTENDS Naturals

CONSTANT Events

VARIABLES
  stage,   \* of each event
  jobs,    \* what delivery has been handed for it
  bridgeActive, faults   \* the surroundings

vars == <<stage, jobs, bridgeActive, faults>>

Init ==
  /\ stage = [e \in Events |-> "absent"]
  /\ jobs = [e \in Events |-> 0]
  /\ bridgeActive = TRUE
  /\ faults = 0

Move(e, from, to) ==
  /\ stage[e] = from
  /\ stage' = [stage EXCEPT ![e] = to]

(* What the webhook request finds, and what the model or an operator makes  *)
(* of an uncertain event.                                                   *)
Judge(e) ==
  /\ \E to \in {"decided", "uncertain", "rejected"} : Move(e, "absent", to)
  /\ UNCHANGED <<jobs, bridgeActive, faults>>

Resolve(e) ==
  /\ \E to \in {"decided", "dropped"} : Move(e, "uncertain", to)
  /\ UNCHANGED <<jobs, bridgeActive, faults>>

HandOver(e) ==
  /\ Move(e, "decided", "queued")
  /\ jobs' = [jobs EXCEPT ![e] = @ + 1]
  /\ UNCHANGED <<bridgeActive, faults>>

Forget(e) ==
  /\ Move(e, "decided", "forgotten")
  /\ faults' = faults + 1 \/ (~bridgeActive /\ faults' = faults)
  /\ UNCHANGED <<jobs, bridgeActive>>

(* The switch of the bridge, and faults that cost no event its job.         *)
Surroundings ==
  /\ bridgeActive' \in BOOLEAN
  /\ faults' \in {faults, faults + 1}
  /\ UNCHANGED <<stage, jobs>>

Next ==
  \/ \E e \in Events : Judge(e) \/ Resolve(e) \/ HandOver(e) \/ Forget(e)
  \/ Surroundings

Spec == Init /\ [][Next]_vars

==============================================================================
