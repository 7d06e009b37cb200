--------------------------- MODULE MappingPromise ---------------------------
(***************************************************************************)
(* What the routes for mapping revisions promise: a proposal, an approval, *)
(* a rollback or a disable takes effect at one moment, on the revisions as *)
(* they are at that moment, or not at all.  A proposal gets the number     *)
(* after the highest; what becomes active replaces what was active.        *)
(*                                                                         *)
(* Requests, statements, locks and indexes are not mentioned; module       *)
(* MappingRules implements this one.                                       *)
(***************************************************************************)
EXTENDS Naturals

CONSTANT Rules

VARIABLES status, revision, applied

vars == <<status, revision, applied>>

Init ==
  /\ status = [r \in Rules |-> "absent"]
  /\ revision = [r \in Rules |-> 0]
  /\ applied = {}

Numbers == {revision[r] : r \in {q \in Rules : status[q] # "absent"}}

(* The number after the highest: each was the next in its turn.             *)
IsNext(n) ==
  /\ n = 1 \/ \E m \in Numbers : n = m + 1
  /\ \A m \in Numbers : m < n

Propose(r) ==
  /\ status[r] = "absent"
  /\ status' = [status EXCEPT ![r] = "proposed"]
  /\ IsNext(revision'[r])
  /\ revision' = [revision EXCEPT ![r] = revision'[r]]
  /\ UNCHANGED applied

(* r is active from now on, and nothing else.                               *)
Activate(r, S) ==
  /\ status[r] \in S
  /\ status' = [q \in Rules |-> IF q = r THEN "active"
                                ELSE IF status[q] = "active" THEN "inactive"
                                ELSE status[q]]
  /\ UNCHANGED <<revision, applied>>

Approve(r)  == Activate(r, {"proposed", "approved"})
Rollback(r) == Activate(r, {"inactive", "approved"})

Disable(r) ==
  /\ status[r] = "active"
  /\ status' = [status EXCEPT ![r] = "inactive"]
  /\ UNCHANGED <<revision, applied>>

(* A webhook.                                                               *)
Apply(r) ==
  /\ status[r] = "active"
  /\ applied' = applied \cup {[rule |-> r, revision |-> revision[r]]}
  /\ UNCHANGED <<status, revision>>

Next ==
  \E r \in Rules :
    Propose(r) \/ Approve(r) \/ Rollback(r) \/ Disable(r) \/ Apply(r)

Spec == Init /\ [][Next]_vars

=============================================================================
