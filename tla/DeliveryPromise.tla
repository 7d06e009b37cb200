--------------------------- MODULE DeliveryPromise ---------------------------
(***************************************************************************)
(* What the delivery pipeline promises of a job that a request handler has *)
(* accepted for other processes to deliver, while it is younger than the   *)
(* staleness cutoff: one holder at a time, attempts numbered from one up   *)
(* to the retry budget, none after a success or a permanent failure, and   *)
(* an end that stays.  Of any other job it promises nothing ("outside").   *)
(*                                                                         *)
(* Tables, polls, queues, threads and processes are not mentioned; module  *)
(* Delivery implements this one.                                           *)
(***************************************************************************)
EXTENDS Naturals, Sequences

CONSTANTS Jobs, MaxAttempts

VARIABLES
  stage,   \* of each job
  tries    \* its attempts so far

vars == <<stage, tries>>

Ends == {"delivered", "dead_lettered", "idempotency_blocked"}
Stages == Ends \cup {"absent", "waiting", "inHand", "abandoned", "outside"}

Init ==
  /\ stage = [j \in Jobs |-> "absent"]
  /\ tries = [j \in Jobs |-> <<>>]

Move(S, from, to) ==
  /\ \A j \in S : stage[j] = from
  /\ stage' = [j \in Jobs |-> IF j \in S THEN to ELSE stage[j]]

Accept(j) == Move({j}, "absent", "waiting") /\ UNCHANGED tries

(* Some process takes what is waiting.                                      *)
Take(S) == Move(S, "waiting", "inHand") /\ UNCHANGED tries

(* Another try is allowed: every earlier one could be retried.              *)
Open(j) ==
  /\ Len(tries[j]) < MaxAttempts
  /\ \A i \in DOMAIN tries[j] : tries[j][i].outcome = "retryable"

Try(j, o) ==
  /\ stage[j] = "inHand"
  /\ Open(j)
  /\ tries' = [tries EXCEPT ![j] =
                 Append(@, [number |-> Len(@) + 1, outcome |-> o])]
  /\ UNCHANGED stage

LastTry(j) == tries[j][Len(tries[j])].outcome

(* After a try that can be retried the job waits again.                     *)
Return(j) ==
  /\ tries[j] # <<>>
  /\ Open(j)
  /\ Move({j}, "inHand", "waiting")
  /\ UNCHANGED tries

Allows(j, end) ==
  CASE end = "delivered"           -> tries[j] # <<>> /\ LastTry(j) = "delivered"
    [] end = "dead_lettered"       -> /\ tries[j] # <<>>
                                      /\ LastTry(j) # "delivered"
                                      /\ ~Open(j)
    [] end = "idempotency_blocked" -> Open(j)

End(j, end) == Allows(j, end) /\ Move({j}, "inHand", end) /\ UNCHANGED tries

(* The holder crashes, or drops the copy when a call raises.                *)
Abandon(S) == Move(S, "inHand", "abandoned") /\ UNCHANGED tries

(* The job grows too old, or was never covered.                             *)
Leave(j) ==
  /\ stage' = [stage EXCEPT ![j] = "outside"]
  /\ tries' = [tries EXCEPT ![j] = <<>>]

Next ==
  \/ \E j \in Jobs : Accept(j) \/ Return(j) \/ Leave(j)
  \/ \E j \in Jobs, o \in {"delivered", "retryable", "permanent"} : Try(j, o)
  \/ \E j \in Jobs, end \in Ends : End(j, end)
  \/ \E S \in SUBSET Jobs : Take(S) \/ Abandon(S)

Spec == Init /\ [][Next]_vars

=============================================================================
