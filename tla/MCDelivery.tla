---------------------------- MODULE MCDelivery ----------------------------
(***************************************************************************)
(* Small instances of Delivery for TLC: two delivering processes with one  *)
(* worker thread each.                                                     *)
(***************************************************************************)
EXTENDS Delivery, TLC

CONSTANTS j1, j2, j3, p1, p2, w1, w2

TwoHomes == w1 :> p1 @@ w2 :> p2

Rows == {j \in Jobs : status[j] # "absent"}

(* One row meets everything that can happen to it; where several copies of  *)
(* it may be about from the start, for two attempts, with one fault and     *)
(* without a key (claims are IdempotencyClaims').  Once a replay is asked   *)
(* for, which makes up to three rows, one process works without faults on   *)
(* one row after the other, and attempts each once.                         *)
Busy(j) ==
  \/ Held(j) \/ handler[j] # "none" \/ j \in replaying
  \/ status[j] \in Unsettled /\ due[j]

Calm ==
  /\ faults = 0
  /\ queue[p2] = <<>> /\ fetched[p2] = {} /\ pc[w2] = "idle"
  /\ \A j \in Rows : host[j] = ApiRole /\ Len(attempts[j]) <= 1
  /\ Cardinality({j \in Rows : Busy(j)}) <= 1

Focus ==
  /\ j2 \in Rows => j1 \in Rows
  /\ j3 \in Rows => j2 \in Rows
  /\ \A j \in Rows : host[j] # ApiRole =>
       faults <= 1 /\ ~keyed[j] /\ Len(attempts[j]) <= 2
  /\ j2 \in Rows \/ replaying # {} => Calm

(* For liveness: a row without a key, and no fault once it has been posted  *)
(* twice.  Neither cuts a fair action off: a row is keyed when it is        *)
(* inserted, and no fault has to happen.                                    *)
Unkeyed == \A j \in Jobs : ~keyed[j]

FaultsComeEarly ==
  \/ faults' = faults
  \/ \A j \in Jobs : Len(attempts[j]) <= 1
=============================================================================
