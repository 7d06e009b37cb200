---------------------- MODULE IdempotencyClaimsProofs ----------------------
(***************************************************************************)
(* Theorems about IdempotencyClaims, for any number of jobs, bridges,      *)
(* processes and copies, and any number of crashes and expiries.           *)
(***************************************************************************)
EXTENDS IdempotencyClaims, TLAPS

USE ClaimsAssumption

(* The type invariant in four parts, which the provers take one by one.     *)
RowsTyped ==
  /\ status \in [Jobs -> Statuses]
  /\ event \in [Jobs -> Jobs \cup {NoJob}]
  /\ bridge \in [Jobs -> Bridges]
  /\ blocker \in [Jobs -> Jobs \cup {NoJob}]

CopiesTyped ==
  /\ job \in [Copies -> Jobs \cup {NoJob}]
  /\ proc \in [Copies -> Procs \cup {NoProc}]
  /\ pc \in [Copies -> {"none", "mark", "local", "select", "insert", "post"}]
  /\ kind \in [Copies -> Kinds]

ClaimsTyped ==
  /\ claim \in [Bridges -> Jobs \cup {NoJob}]
  /\ live \subseteq Bridges
  /\ local \in [Procs -> Jobs \cup {NoJob}]
  /\ posted \subseteq [job: Jobs, claimed: BOOLEAN]
  /\ lost \subseteq Jobs
  /\ faults \in Nat

PlacesTyped ==
  /\ \A c \in Copies : pc[c] # "none" => /\ job[c] \in Jobs
                                         /\ proc[c] \in Procs
                                         /\ status[job[c]] # "absent"
  /\ \A j \in Jobs : status[j] # "absent" => event[j] \in Jobs

Typed == RowsTyped /\ CopiesTyped /\ ClaimsTyped /\ PlacesTyped

LEMMA TypeParts == TypeOK <=> Typed
BY DEF TypeOK, Typed, RowsTyped, CopiesTyped, ClaimsTyped, PlacesTyped

(* What a copy at one of the worker's steps has in hand.                    *)
LEMMA AtWork ==
  ASSUME Typed, NEW c \in Copies, pc[c] # "none"
  PROVE  /\ job[c] \in Jobs /\ proc[c] \in Procs
         /\ status[job[c]] # "absent" /\ event[job[c]] \in Jobs
         /\ bridge[job[c]] \in Bridges /\ Row(c) \in Jobs \cup {NoJob}
BY DEF Typed, RowsTyped, ClaimsTyped, PlacesTyped, Row

(* The three ways a step moves copies.                                      *)
LEMMA QueueTypes ==
  ASSUME Typed, NEW c \in Copies, NEW j \in Jobs, NEW p \in Procs \cup {NoProc},
         NEW k \in Kinds, QueueOwn(c, j, p, k)
  PROVE  /\ CopiesTyped'
         /\ \A d \in Copies : pc'[d] # "none" =>
              \/ pc[d] # "none" /\ job'[d] = job[d] /\ proc'[d] = proc[d]
              \/ job'[d] = j /\ proc'[d] \in Procs
<1>1. CASE p = NoProc
  BY <1>1 DEF QueueOwn, copyVars, Typed, CopiesTyped
<1>2. CASE p # NoProc
  BY <1>2 DEF QueueOwn, Queue, Typed, CopiesTyped
<1> QED BY <1>1, <1>2

LEMMA GotoTypes ==
  ASSUME Typed, NEW c \in Copies, NEW next \in {"local", "select", "insert", "post"},
         pc[c] # "none", Goto(c, next)
  PROVE  /\ CopiesTyped'
         /\ \A d \in Copies : pc'[d] # "none" =>
              pc[d] # "none" /\ job'[d] = job[d] /\ proc'[d] = proc[d]
BY DEF Goto, Typed, CopiesTyped

LEMMA LeaveTypes ==
  ASSUME Typed, NEW c \in Copies, Leave(c)
  PROVE  /\ CopiesTyped'
         /\ \A d \in Copies : pc'[d] # "none" =>
              pc[d] # "none" /\ job'[d] = job[d] /\ proc'[d] = proc[d]
BY DEF Leave, Typed, CopiesTyped, Kinds

LEMMA SetStatusTypes ==
  ASSUME Typed, NEW j \in Jobs, NEW s \in Statuses \ {"absent"}, SetStatus(j, s)
  PROVE  /\ status' \in [Jobs -> Statuses]
         /\ event' = event /\ bridge' = bridge
         /\ status[j] # "absent" =>
              \A i \in Jobs : status'[i] # "absent" <=> status[i] # "absent"
BY DEF SetStatus, Typed, RowsTyped

LEMMA BlockTypes ==
  ASSUME Typed, NEW c \in Copies, pc[c] # "none", NEW e \in Jobs \cup {NoJob},
         Block(c, e)
  PROVE  RowsTyped' /\ CopiesTyped' /\ PlacesTyped'
<1>1. /\ status' \in [Jobs -> Statuses] /\ event' = event /\ bridge' = bridge
      /\ \A i \in Jobs : status'[i] # "absent" <=> status[i] # "absent"
  BY AtWork, SetStatusTypes DEF Block, Statuses
<1>2. blocker' \in [Jobs -> Jobs \cup {NoJob}]
  BY DEF Block, Typed, RowsTyped
<1>3. RowsTyped'
  BY <1>1, <1>2 DEF Typed, RowsTyped
<1>4. /\ CopiesTyped'
      /\ \A d \in Copies : pc'[d] # "none" =>
           pc[d] # "none" /\ job'[d] = job[d] /\ proc'[d] = proc[d]
  BY LeaveTypes DEF Block
<1>5. PlacesTyped'
  BY <1>1, <1>4 DEF Typed, PlacesTyped
<1> QED BY <1>3, <1>4, <1>5

(* A step keeps the types.                                                  *)
LEMMA TypedStep == Typed /\ [Next]_vars => Typed'
<1> SUFFICES ASSUME Typed, [Next]_vars PROVE Typed'
  OBVIOUS
<1>1. ASSUME NEW j \in Jobs, NEW p \in Procs \cup {NoProc}, NEW c \in Copies,
             Accept(j, p, c)
      PROVE  Typed'
  <2>1. /\ CopiesTyped'
        /\ \A d \in Copies : pc'[d] # "none" =>
             \/ pc[d] # "none" /\ job'[d] = job[d] /\ proc'[d] = proc[d]
             \/ job'[d] = j /\ proc'[d] \in Procs
    BY <1>1, QueueTypes DEF Accept, Kinds
  <2>2. /\ status' = [status EXCEPT ![j] = "queued"]
        /\ event' = [event EXCEPT ![j] = j]
    BY <1>1 DEF Accept
  <2>3. RowsTyped' /\ ClaimsTyped'
    BY <1>1, <2>2
    DEF Accept, claimVars, Typed, RowsTyped, ClaimsTyped, Statuses
  <2>4. PlacesTyped'
    BY <2>1, <2>2 DEF Typed, RowsTyped, PlacesTyped
  <2> QED BY <2>1, <2>3, <2>4 DEF Typed
<1>2. ASSUME NEW j \in Jobs, NEW r \in Jobs, NEW p \in Procs \cup {NoProc},
             NEW c \in Copies, Replay(j, r, p, c)
      PROVE  Typed'
  <2>1. /\ CopiesTyped'
        /\ \A d \in Copies : pc'[d] # "none" =>
             \/ pc[d] # "none" /\ job'[d] = job[d] /\ proc'[d] = proc[d]
             \/ job'[d] = r /\ proc'[d] \in Procs
    BY <1>2, QueueTypes DEF Replay, Kinds
  <2>2. /\ status' = [status EXCEPT ![r] = "queued"]
        /\ event' = [event EXCEPT ![r] = event[j]]
        /\ event[j] \in Jobs
    BY <1>2 DEF Replay, Typed, PlacesTyped
  <2>3. RowsTyped' /\ ClaimsTyped'
    BY <1>2, <2>2
    DEF Replay, claimVars, Typed, RowsTyped, ClaimsTyped, Statuses
  <2>4. PlacesTyped'
    BY <2>1, <2>2 DEF Typed, RowsTyped, PlacesTyped
  <2> QED BY <2>1, <2>3, <2>4 DEF Typed
<1>3. ASSUME NEW j \in Jobs, NEW p \in Procs, NEW c \in Copies, Poll(j, p, c)
      PROVE  Typed'
  <2>1. /\ CopiesTyped'
        /\ \A d \in Copies : pc'[d] # "none" =>
             \/ pc[d] # "none" /\ job'[d] = job[d] /\ proc'[d] = proc[d]
             \/ job'[d] = j /\ proc'[d] \in Procs
    BY <1>3 DEF Poll, Queue, Typed, CopiesTyped, Kinds
  <2>2. status' = [status EXCEPT ![j] = "delivering"] /\ status[j] # "absent"
    BY <1>3 DEF Poll
  <2>3. RowsTyped' /\ ClaimsTyped' /\ event' = event
    BY <1>3, <2>2 DEF Poll, claimVars, Typed, RowsTyped, ClaimsTyped, Statuses
  <2>4. PlacesTyped'
    BY <2>1, <2>2, <2>3 DEF Typed, RowsTyped, PlacesTyped
  <2> QED BY <2>1, <2>3, <2>4 DEF Typed
<1>4. ASSUME NEW c \in Copies, MarkDelivering(c) PROVE Typed'
  <2>1. job[c] \in Jobs /\ status[job[c]] # "absent" /\ pc[c] # "none"
    BY <1>4, AtWork DEF MarkDelivering
  <2>2. /\ status' \in [Jobs -> Statuses] /\ event' = event /\ bridge' = bridge
        /\ \A i \in Jobs : status'[i] # "absent" <=> status[i] # "absent"
    BY <1>4, <2>1, SetStatusTypes DEF MarkDelivering, Statuses
  <2>3. PICK next \in {"local", "select", "insert", "post"} : Goto(c, next)
    BY <1>4 DEF MarkDelivering, Typed, CopiesTyped, Kinds
  <2>4. /\ CopiesTyped'
        /\ \A d \in Copies : pc'[d] # "none" =>
             pc[d] # "none" /\ job'[d] = job[d] /\ proc'[d] = proc[d]
    BY <2>1, <2>3, GotoTypes
  <2>5. RowsTyped' /\ ClaimsTyped'
    BY <1>4, <2>2 DEF MarkDelivering, claimVars, Typed, RowsTyped, ClaimsTyped
  <2>6. PlacesTyped'
    BY <2>2, <2>4 DEF Typed, PlacesTyped
  <2> QED BY <2>4, <2>5, <2>6 DEF Typed
<1>5. ASSUME NEW c \in Copies, ClaimLocally(c) PROVE Typed'
  <2>1. /\ job[c] \in Jobs /\ proc[c] \in Procs /\ event[job[c]] \in Jobs
        /\ pc[c] # "none"
    BY <1>5, AtWork DEF ClaimLocally
  <2>2. CASE local[proc[c]] # NoJob
    <3>1. Block(c, local[proc[c]]) /\ local[proc[c]] \in Jobs \cup {NoJob}
      BY <1>5, <2>1, <2>2 DEF ClaimLocally, Typed, ClaimsTyped
    <3>2. ClaimsTyped'
      BY <1>5, <2>2 DEF ClaimLocally, Typed, ClaimsTyped
    <3> QED BY <2>1, <3>1, <3>2, BlockTypes DEF Typed
  <2>3. CASE local[proc[c]] = NoJob
    <3>1. Goto(c, "select") /\ UNCHANGED <<rowVars, blocker>>
      BY <1>5, <2>3 DEF ClaimLocally
    <3>2. /\ CopiesTyped'
          /\ \A d \in Copies : pc'[d] # "none" =>
               pc[d] # "none" /\ job'[d] = job[d] /\ proc'[d] = proc[d]
      BY <2>1, <3>1, GotoTypes
    <3>3. ClaimsTyped'
      BY <1>5, <2>1, <2>3 DEF ClaimLocally, Typed, ClaimsTyped
    <3>4. RowsTyped' /\ PlacesTyped'
      BY <3>1, <3>2 DEF rowVars, Typed, RowsTyped, PlacesTyped
    <3> QED BY <3>2, <3>3, <3>4 DEF Typed
  <2> QED BY <2>2, <2>3
<1>6. ASSUME NEW c \in Copies, SelectClaim(c) PROVE Typed'
  <2>1. pc[c] # "none" /\ Row(c) \in Jobs \cup {NoJob}
    BY <1>6, AtWork DEF SelectClaim
  <2>2. ClaimsTyped'
    BY <1>6 DEF SelectClaim, claimVars, Typed, ClaimsTyped
  <2>3. CASE Block(c, Row(c))
    BY <2>1, <2>2, <2>3, BlockTypes DEF Typed
  <2>4. CASE /\ Goto(c, "insert") \/ Goto(c, "post")
             /\ UNCHANGED <<rowVars, blocker>>
    <3>1. /\ CopiesTyped'
          /\ \A d \in Copies : pc'[d] # "none" =>
               pc[d] # "none" /\ job'[d] = job[d] /\ proc'[d] = proc[d]
      BY <2>1, <2>4, GotoTypes
    <3>2. RowsTyped' /\ PlacesTyped'
      BY <2>4, <3>1 DEF rowVars, Typed, RowsTyped, PlacesTyped
    <3> QED BY <2>2, <3>1, <3>2 DEF Typed
  <2> QED BY <1>6, <2>3, <2>4 DEF SelectClaim
<1>7. ASSUME NEW c \in Copies, InsertClaim(c) PROVE Typed'
  <2>1. /\ pc[c] # "none" /\ Row(c) \in Jobs \cup {NoJob}
        /\ event[job[c]] \in Jobs /\ bridge[job[c]] \in Bridges
    BY <1>7, AtWork DEF InsertClaim
  <2>2. CASE Row(c) = NoJob
    <3>1. TakeRow(c) /\ Goto(c, "post") /\ UNCHANGED <<rowVars, blocker>>
      BY <1>7, <2>2 DEF InsertClaim
    <3>2. /\ CopiesTyped'
          /\ \A d \in Copies : pc'[d] # "none" =>
               pc[d] # "none" /\ job'[d] = job[d] /\ proc'[d] = proc[d]
      BY <2>1, <3>1, GotoTypes
    <3>3. ClaimsTyped'
      BY <1>7, <2>1, <3>1 DEF InsertClaim, TakeRow, Typed, ClaimsTyped
    <3>4. RowsTyped' /\ PlacesTyped'
      BY <3>1, <3>2 DEF rowVars, Typed, RowsTyped, PlacesTyped
    <3> QED BY <3>2, <3>3, <3>4 DEF Typed
  <2>3. CASE Row(c) # NoJob
    <3>1. Block(c, Row(c)) /\ ClaimsTyped'
      BY <1>7, <2>3 DEF InsertClaim, Typed, ClaimsTyped
    <3> QED BY <2>1, <3>1, BlockTypes DEF Typed
  <2> QED BY <2>2, <2>3
<1>8. ASSUME NEW c \in Copies, NEW next \in {"delivered", "retrying", "dead_lettered"},
             Post(c, next)
      PROVE  Typed'
  <2>1. job[c] \in Jobs /\ status[job[c]] # "absent" /\ pc[c] # "none"
    BY <1>8, AtWork DEF Post
  <2>2. /\ status' \in [Jobs -> Statuses] /\ event' = event /\ bridge' = bridge
        /\ \A i \in Jobs : status'[i] # "absent" <=> status[i] # "absent"
    BY <1>8, <2>1, SetStatusTypes DEF Post, Statuses
  <2>3. /\ CopiesTyped'
        /\ \A d \in Copies : pc'[d] # "none" =>
             pc[d] # "none" /\ job'[d] = job[d] /\ proc'[d] = proc[d]
    BY <1>8, LeaveTypes DEF Post
  <2>4. RowsTyped' /\ ClaimsTyped'
    <3>1. Keyed(c) \in BOOLEAN
      BY DEF Keyed
    <3>2. posted' = posted \cup {[job |-> job[c], claimed |-> Keyed(c)]}
      BY <1>8 DEF Post
    <3> QED
      BY <1>8, <2>1, <2>2, <3>1, <3>2
      DEF Post, claimVars, Typed, RowsTyped, ClaimsTyped
  <2>5. PlacesTyped'
    BY <2>2, <2>3 DEF Typed, PlacesTyped
  <2> QED BY <2>3, <2>4, <2>5 DEF Typed
<1>9. ASSUME NEW c \in Copies, WorkerFault(c) PROVE Typed'
  <2>1. /\ CopiesTyped'
        /\ \A d \in Copies : pc'[d] # "none" =>
             pc[d] # "none" /\ job'[d] = job[d] /\ proc'[d] = proc[d]
    BY <1>9, LeaveTypes DEF WorkerFault
  <2>2. event[job[c]] \in Jobs
    BY <1>9, AtWork DEF WorkerFault
  <2>3. RowsTyped' /\ ClaimsTyped' /\ PlacesTyped'
    BY <1>9, <2>1, <2>2
    DEF WorkerFault, Count, rowVars, claimVars, Typed, RowsTyped, ClaimsTyped,
        PlacesTyped
  <2> QED BY <2>1, <2>3 DEF Typed
<1>10. ASSUME NEW p \in Procs, Crash(p) PROVE Typed'
  <2>1. CopiesTyped'
    BY <1>10 DEF Crash, Typed, CopiesTyped, Kinds
  <2>2. \A d \in Copies : pc'[d] # "none" =>
             pc[d] # "none" /\ job'[d] = job[d] /\ proc'[d] = proc[d]
    BY <1>10 DEF Crash, Typed, CopiesTyped
  <2>3. \A c \in Copies : Holding(c) => event[job[c]] \in Jobs
    BY AtWork DEF Holding
  <2>4. RowsTyped' /\ ClaimsTyped'
    BY <1>10, <2>3 DEF Crash, Count, rowVars, Typed, RowsTyped, ClaimsTyped
  <2>5. PlacesTyped'
    BY <1>10, <2>2 DEF Crash, rowVars, Typed, PlacesTyped
  <2> QED BY <2>1, <2>4, <2>5 DEF Typed
<1>11. ASSUME \/ \E b \in Bridges : RowExpires(b)
              \/ \E p \in Procs : LocalExpires(p)
              \/ UNCHANGED vars
       PROVE  Typed'
  BY <1>11
  DEF RowExpires, LocalExpires, Count, vars, rowVars, copyVars, claimVars, Typed,
      RowsTyped, CopiesTyped, ClaimsTyped, PlacesTyped
<1> QED
  BY <1>1, <1>2, <1>3, <1>4, <1>5, <1>6, <1>7, <1>8, <1>9, <1>10, <1>11 DEF Next

LEMMA InitTyped == Init => Typed
BY DEF Init, Typed, RowsTyped, CopiesTyped, ClaimsTyped, PlacesTyped, Statuses, Kinds

(* The type invariant.                                                      *)
THEOREM TypeCorrect == Spec => []TypeOK
BY InitTyped, TypedStep, TypeParts, PTL DEF Spec

-----------------------------------------------------------------------------
(* Nothing forgets: jobs keep their bridge and event, a claim row its owner,*)
(* and what was posted or lost stays so.                                    *)
Lasting ==
  /\ bridge' = bridge
  /\ \A j \in Jobs : status[j] # "absent" =>
       status'[j] # "absent" /\ event'[j] = event[j]
  /\ \A b \in Bridges : claim[b] # NoJob => claim'[b] = claim[b]
  /\ posted \subseteq posted' /\ lost \subseteq lost'

LEMMA NothingForgotten == Typed /\ [Next]_vars => Lasting
<1> SUFFICES ASSUME Typed, [Next]_vars PROVE Lasting
  OBVIOUS
<1> USE DEF rowVars, claimVars, Typed, RowsTyped, Lasting
<1>1. ASSUME NEW j \in Jobs, NEW p \in Procs \cup {NoProc}, NEW c \in Copies,
             Accept(j, p, c)
      PROVE  Lasting
  BY <1>1 DEF Accept
<1>2. ASSUME NEW j \in Jobs, NEW r \in Jobs, NEW p \in Procs \cup {NoProc},
             NEW c \in Copies, Replay(j, r, p, c)
      PROVE  Lasting
  BY <1>2 DEF Replay
<1>3. ASSUME NEW j \in Jobs, NEW p \in Procs, NEW c \in Copies, Poll(j, p, c)
      PROVE  Lasting
  BY <1>3 DEF Poll
<1>4. ASSUME NEW c \in Copies, MarkDelivering(c) PROVE Lasting
  BY <1>4 DEF MarkDelivering, SetStatus
<1>5. ASSUME NEW c \in Copies, ClaimLocally(c) PROVE Lasting
  BY <1>5 DEF ClaimLocally, Block, SetStatus
<1>6. ASSUME NEW c \in Copies, SelectClaim(c) PROVE Lasting
  BY <1>6 DEF SelectClaim, Block, SetStatus
<1>7. ASSUME NEW c \in Copies, InsertClaim(c) PROVE Lasting
  BY <1>7 DEF InsertClaim, TakeRow, Row, Block, SetStatus, ClaimsTyped
<1>8. ASSUME NEW c \in Copies, NEW next \in {"delivered", "retrying", "dead_lettered"},
             Post(c, next)
      PROVE  Lasting
  BY <1>8 DEF Post, SetStatus
<1>9. ASSUME NEW c \in Copies, WorkerFault(c) PROVE Lasting
  BY <1>9 DEF WorkerFault
<1>10. ASSUME NEW p \in Procs, Crash(p) PROVE Lasting
  BY <1>10 DEF Crash
<1>11. ASSUME \/ \E b \in Bridges : RowExpires(b)
              \/ \E p \in Procs : LocalExpires(p)
              \/ UNCHANGED vars
       PROVE  Lasting
  BY <1>11 DEF RowExpires, LocalExpires, vars
<1> QED
  BY <1>1, <1>2, <1>3, <1>4, <1>5, <1>6, <1>7, <1>8, <1>9, <1>10, <1>11 DEF Next

(* A copy about to be posted with a key was so before, or has just found or *)
(* taken the row; a job posted under a claim was in the hands of such a copy.*)
LEMMA PostsAreClaimed ==
  ASSUME Typed, [Next]_vars
  PROVE  /\ \A c \in Copies : pc'[c] = "post" /\ kind'[c] # "own" =>
              /\ job'[c] = job[c] /\ pc[c] # "none"
              /\ \/ pc[c] = "post" /\ Keyed(c)
                 \/ claim'[bridge[job[c]]] = event[job[c]]
         /\ \A x \in posted' \ posted :
              /\ x.job \in Jobs /\ status[x.job] # "absent"
              /\ x.claimed => \E c \in Copies :
                   job[c] = x.job /\ pc[c] = "post" /\ Keyed(c)
<1> DEFINE Claimed ==
      \A c \in Copies : pc'[c] = "post" /\ kind'[c] # "own" =>
        /\ job'[c] = job[c] /\ pc[c] # "none"
        /\ \/ pc[c] = "post" /\ Keyed(c)
           \/ claim'[bridge[job[c]]] = event[job[c]]
<1>1. ASSUME NEW j \in Jobs, NEW p \in Procs \cup {NoProc}, NEW c \in Copies,
             NEW k \in Kinds, QueueOwn(c, j, p, k)
      PROVE  Claimed
  <2>1. CASE p = NoProc
    BY <1>1, <2>1 DEF QueueOwn, copyVars, Keyed
  <2>2. CASE p # NoProc
    BY <1>1, <2>2 DEF QueueOwn, Queue, Keyed, Typed, CopiesTyped
  <2> QED BY <2>1, <2>2
<1>2. ASSUME NEW j \in Jobs, NEW p \in Procs, NEW c \in Copies, Queue(c, j, p, "polled")
      PROVE  Claimed
  BY <1>2 DEF Queue, Keyed, Typed, CopiesTyped
<1>3. ASSUME NEW c \in Copies, Leave(c) PROVE Claimed
  BY <1>3 DEF Leave, Keyed, Typed, CopiesTyped
<1>4. ASSUME NEW c \in Copies, MarkDelivering(c) PROVE Claimed
  BY <1>4 DEF MarkDelivering, Goto, Keyed, Typed, CopiesTyped, Kinds
<1>5. ASSUME NEW c \in Copies, NEW next \in {"select", "insert"}, Goto(c, next)
      PROVE  Claimed
  BY <1>5 DEF Goto, Keyed, Typed, CopiesTyped
<1>6. ASSUME NEW c \in Copies, Goto(c, "post"), pc[c] # "none",
             claim'[bridge[job[c]]] = event[job[c]]
      PROVE  Claimed
  BY <1>6 DEF Goto, Keyed, Typed, CopiesTyped
<1>7. ASSUME NEW c \in Copies, SelectClaim(c) PROVE Claimed
  <2>1. \/ Goto(c, "insert") \/ Leave(c)
        \/ Goto(c, "post") /\ Row(c) = event[job[c]] /\ claim' = claim
    BY <1>7 DEF SelectClaim, Block, claimVars
  <2> QED BY <1>3, <1>5, <1>6, <1>7, <2>1 DEF SelectClaim, Row
<1>8. ASSUME NEW c \in Copies, InsertClaim(c) PROVE Claimed
  <2>1. CASE Row(c) = NoJob
    <3>1. bridge[job[c]] \in Bridges
      BY <1>8, AtWork DEF InsertClaim
    <3>2. claim'[bridge[job[c]]] = event[job[c]] /\ Goto(c, "post")
      BY <1>8, <2>1, <3>1 DEF InsertClaim, TakeRow, Typed, ClaimsTyped
    <3> QED BY <1>6, <1>8, <3>2 DEF InsertClaim
  <2>2. CASE Row(c) # NoJob
    BY <1>3, <1>8, <2>2 DEF InsertClaim, Block
  <2> QED BY <2>1, <2>2
<1>9. ASSUME NEW p \in Procs, Crash(p) PROVE Claimed
  BY <1>9 DEF Crash, Keyed, Typed, CopiesTyped
<1>10. ASSUME UNCHANGED copyVars PROVE Claimed
  BY <1>10 DEF copyVars, Keyed
<1>11. Claimed
  <2>1. ASSUME NEW c \in Copies, ClaimLocally(c) PROVE Claimed
    <3>1. Goto(c, "select") \/ Leave(c)
      BY <2>1 DEF ClaimLocally, Block
    <3> QED BY <1>3, <1>5, <3>1
  <2>2. ASSUME NEW c \in Copies,
               \/ \E next \in {"delivered", "retrying", "dead_lettered"} : Post(c, next)
               \/ WorkerFault(c)
        PROVE  Claimed
    BY <1>3, <2>2 DEF Post, WorkerFault
  <2>3. ASSUME NEW j \in Jobs, NEW c \in Copies, NEW p \in Procs \cup {NoProc},
               Accept(j, p, c) \/ \E r \in Jobs : Replay(j, r, p, c)
        PROVE  Claimed
    BY <1>1, <2>3 DEF Accept, Replay, Kinds
  <2>4. ASSUME NEW j \in Jobs, NEW c \in Copies, NEW p \in Procs, Poll(j, p, c)
        PROVE  Claimed
    BY <1>2, <2>4 DEF Poll
  <2>5. ASSUME \/ \E b \in Bridges : RowExpires(b)
               \/ \E p \in Procs : LocalExpires(p)
               \/ UNCHANGED vars
        PROVE  Claimed
    BY <1>10, <2>5 DEF RowExpires, LocalExpires, vars
  <2> HIDE DEF Claimed
  <2> QED BY <1>4, <1>7, <1>8, <1>9, <2>1, <2>2, <2>3, <2>4, <2>5 DEF Next
<1>12. ASSUME NEW x \in posted' \ posted
       PROVE  /\ x.job \in Jobs /\ status[x.job] # "absent"
              /\ x.claimed => \E c \in Copies :
                   job[c] = x.job /\ pc[c] = "post" /\ Keyed(c)
  <2>1. PICK c \in Copies :
          \E next \in {"delivered", "retrying", "dead_lettered"} : Post(c, next)
    BY <1>12
    DEF Next, vars, claimVars, Accept, Replay, Poll, MarkDelivering, ClaimLocally,
        SelectClaim, InsertClaim, WorkerFault, RowExpires, LocalExpires, Crash
  <2>2. x = [job |-> job[c], claimed |-> Keyed(c)] /\ pc[c] = "post"
    BY <1>12, <2>1 DEF Post
  <2> QED BY <2>2, AtWork
<1> HIDE DEF Claimed
<1>13. Claimed /\ \A x \in posted' \ posted :
              /\ x.job \in Jobs /\ status[x.job] # "absent"
              /\ x.claimed => \E c \in Copies :
                   job[c] = x.job /\ pc[c] = "post" /\ Keyed(c)
  BY <1>11, <1>12
<1> QED BY <1>13 DEF Claimed

(* A step keeps owners: a claim row, once there, is never given to another. *)
LEMMA OwnersStep == Typed /\ OwnersInv /\ [Next]_vars => OwnersInv'
<1> SUFFICES ASSUME Typed, OwnersInv, [Next]_vars PROVE OwnersInv'
  OBVIOUS
<1>0. Lasting
  BY NothingForgotten
<1>1. ASSUME NEW c \in Copies, pc'[c] = "post", kind'[c] # "own"
      PROVE  claim'[bridge'[job'[c]]] = event'[job'[c]]
  <2>1. /\ job'[c] = job[c] /\ pc[c] # "none"
        /\ \/ pc[c] = "post" /\ Keyed(c)
           \/ claim'[bridge[job[c]]] = event[job[c]]
    BY <1>1, PostsAreClaimed
  <2>2. /\ job[c] \in Jobs /\ status[job[c]] # "absent"
        /\ event[job[c]] \in Jobs /\ bridge[job[c]] \in Bridges
    BY <2>1, AtWork
  <2>3. event'[job[c]] = event[job[c]] /\ bridge' = bridge
    BY <1>0, <2>2 DEF Lasting
  <2>4. CASE pc[c] = "post" /\ Keyed(c)
    <3>1. claim[bridge[job[c]]] = event[job[c]]
      BY <2>4 DEF OwnersInv
    <3>2. claim[bridge[job[c]]] # NoJob
      BY <2>2, <3>1
    <3>3. claim'[bridge[job[c]]] = claim[bridge[job[c]]]
      BY <1>0, <2>2, <3>2 DEF Lasting
    <3> QED BY <2>1, <2>3, <3>1, <3>3
  <2> QED BY <2>1, <2>3, <2>4
<1>2. ASSUME NEW x \in posted'
      PROVE  /\ status'[x.job] # "absent"
             /\ x.claimed => claim'[bridge'[x.job]] = event'[x.job]
  <2>1. /\ x.job \in Jobs /\ status[x.job] # "absent"
        /\ x.claimed => claim[bridge[x.job]] = event[x.job]
    <3>1. CASE x \in posted
      BY <3>1 DEF OwnersInv, Typed, ClaimsTyped
    <3>2. CASE x \notin posted
      BY <1>2, <3>2, PostsAreClaimed DEF OwnersInv
    <3> QED BY <3>1, <3>2
  <2>2. event[x.job] \in Jobs /\ bridge[x.job] \in Bridges
    BY <2>1 DEF Typed, PlacesTyped, RowsTyped
  <2>3. status'[x.job] # "absent" /\ event'[x.job] = event[x.job] /\ bridge' = bridge
    BY <1>0, <2>1 DEF Lasting
  <2>4. ASSUME x.claimed PROVE claim'[bridge[x.job]] = event[x.job]
    BY <1>0, <2>1, <2>2, <2>4 DEF Lasting
  <2> QED BY <2>3, <2>4
<1> QED BY <1>1, <1>2 DEF OwnersInv, Keyed

(* Under a claim, one event of a key is posted to a bridge, ever.           *)
THEOREM OneEventUnderClaims == Spec => []ClaimedPostsAgree
<1>1. Init => Typed /\ OwnersInv
  BY InitTyped DEF Init, OwnersInv
<1>2. OwnersInv => ClaimedPostsAgree
  BY DEF OwnersInv, ClaimedPostsAgree
<1> QED BY <1>1, <1>2, TypedStep, OwnersStep, PTL DEF Spec

-----------------------------------------------------------------------------
(* A copy past its claims stays where it is until it is posted or cut short.*)
LEMMA PostingGoesOn ==
  ASSUME Typed, [Next]_vars, NEW c \in Copies, pc[c] = "post", Keyed(c)
  PROVE  \/ pc'[c] = "post" /\ job'[c] = job[c] /\ kind'[c] = kind[c]
         \/ [job |-> job[c], claimed |-> TRUE] \in posted'
         \/ event[job[c]] \in lost'
<1> DEFINE Stays == pc'[c] = "post" /\ job'[c] = job[c] /\ kind'[c] = kind[c]
<1>1. ASSUME NEW d \in Copies, d # c, Leave(d) \/ \E next : Goto(d, next)
      PROVE  Stays
  BY <1>1 DEF Leave, Goto, Typed, CopiesTyped
<1>2. ASSUME NEW d \in Copies, NEW j \in Jobs, NEW p \in Procs \cup {NoProc},
             NEW k \in Kinds, QueueOwn(d, j, p, k) \/ Queue(d, j, p, k)
      PROVE  Stays
  <2>1. CASE Queue(d, j, p, k)
    BY <2>1 DEF Queue, Typed, CopiesTyped
  <2>2. CASE UNCHANGED copyVars
    BY <2>2 DEF copyVars
  <2> QED BY <1>2, <2>1, <2>2 DEF QueueOwn
<1>3. ASSUME NEW d \in Copies,
             MarkDelivering(d) \/ ClaimLocally(d) \/ SelectClaim(d) \/ InsertClaim(d)
      PROVE  Stays
  <2>1. d # c
    BY <1>3 DEF MarkDelivering, ClaimLocally, SelectClaim, InsertClaim
  <2>2. Leave(d) \/ \E next : Goto(d, next)
    BY <1>3 DEF MarkDelivering, ClaimLocally, SelectClaim, InsertClaim, Block
  <2> QED BY <1>1, <2>1, <2>2
<1>4. ASSUME NEW d \in Copies, NEW next \in {"delivered", "retrying", "dead_lettered"},
             Post(d, next)
      PROVE  Stays \/ [job |-> job[c], claimed |-> TRUE] \in posted'
  <2>1. CASE d = c
    <3>1. posted' = posted \cup {[job |-> job[c], claimed |-> Keyed(c)]}
      BY <1>4, <2>1 DEF Post
    <3>2. Keyed(c) = TRUE
      BY DEF Keyed
    <3> QED BY <3>1, <3>2
  <2>2. CASE d # c
    BY <1>1, <1>4, <2>2 DEF Post
  <2> QED BY <2>1, <2>2
<1>5. Holding(c)
  BY DEF Holding, Keyed, Typed, CopiesTyped, Kinds
<1>6. ASSUME NEW d \in Copies, WorkerFault(d)
      PROVE  Stays \/ event[job[c]] \in lost'
  <2>1. CASE d = c
    BY <1>5, <1>6, <2>1 DEF WorkerFault
  <2>2. CASE d # c
    BY <1>1, <1>6, <2>2 DEF WorkerFault
  <2> QED BY <2>1, <2>2
<1>7. ASSUME NEW p \in Procs, Crash(p)
      PROVE  Stays \/ event[job[c]] \in lost'
  <2>1. CASE proc[c] = p
    BY <1>5, <1>7, <2>1 DEF Crash
  <2>2. CASE proc[c] # p
    BY <1>7, <2>2 DEF Crash, Typed, CopiesTyped
  <2> QED BY <2>1, <2>2
<1>8. ASSUME \/ \E b \in Bridges : RowExpires(b)
             \/ \E p \in Procs : LocalExpires(p)
             \/ UNCHANGED vars
      PROVE  Stays
  BY <1>8 DEF RowExpires, LocalExpires, vars, copyVars
<1>9. ASSUME NEW j \in Jobs, NEW d \in Copies,
             \/ \E p \in Procs \cup {NoProc} :
                  Accept(j, p, d) \/ \E r \in Jobs : Replay(j, r, p, d)
             \/ \E p \in Procs : Poll(j, p, d)
      PROVE  Stays
  BY <1>2, <1>9 DEF Accept, Replay, Poll, Kinds
<1> HIDE DEF Stays
<1>10. Stays \/ [job |-> job[c], claimed |-> TRUE] \in posted' \/ event[job[c]] \in lost'
  BY <1>3, <1>4, <1>6, <1>7, <1>8, <1>9 DEF Next
<1> QED BY <1>10 DEF Stays

(* A copy between its claims goes on, or is refused by the row of its       *)
(* bridge, or is cut short.                                                 *)
LEMMA ClaimingGoesOn ==
  ASSUME Typed, FavourInv, [Next]_vars, NEW c \in Copies,
         pc[c] \in {"select", "insert"}, kind[c] = "polled"
  PROVE  \/ /\ pc'[c] \in {"select", "insert", "post"}
            /\ job'[c] = job[c] /\ kind'[c] = "polled"
         \/ claim[bridge[job[c]]] # NoJob
         \/ event[job[c]] \in lost'
<1> DEFINE Stays == /\ pc'[c] \in {"select", "insert", "post"}
                    /\ job'[c] = job[c] /\ kind'[c] = "polled"
<1>1. ASSUME NEW d \in Copies, d # c, Leave(d) \/ \E next : Goto(d, next)
      PROVE  Stays
  BY <1>1 DEF Leave, Goto, Typed, CopiesTyped
<1>2. ASSUME NEW d \in Copies, NEW j \in Jobs, NEW p \in Procs \cup {NoProc},
             NEW k \in Kinds, QueueOwn(d, j, p, k) \/ Queue(d, j, p, k)
      PROVE  Stays
  <2>1. CASE Queue(d, j, p, k)
    BY <2>1 DEF Queue, Typed, CopiesTyped
  <2>2. CASE UNCHANGED copyVars
    BY <2>2 DEF copyVars
  <2> QED BY <1>2, <2>1, <2>2 DEF QueueOwn
<1>3. ASSUME NEW d \in Copies,
             \/ MarkDelivering(d) \/ ClaimLocally(d)
             \/ \E next \in {"delivered", "retrying", "dead_lettered"} : Post(d, next)
      PROVE  Stays
  <2>1. d # c
    BY <1>3 DEF MarkDelivering, ClaimLocally, Post
  <2>2. Leave(d) \/ \E next : Goto(d, next)
    BY <1>3 DEF MarkDelivering, ClaimLocally, Block, Post
  <2> QED BY <1>1, <2>1, <2>2
<1>4. ASSUME NEW next \in {"insert", "post"}, Goto(c, next) PROVE Stays
  BY <1>4 DEF Goto, Typed, CopiesTyped
<1>5. ASSUME NEW d \in Copies, SelectClaim(d)
      PROVE  Stays \/ claim[bridge[job[c]]] # NoJob
  <2>1. CASE d = c
    BY <1>4, <1>5, <2>1, AtWork DEF SelectClaim, FavourInv
  <2>2. CASE d # c
    BY <1>1, <1>5, <2>2 DEF SelectClaim, Block
  <2> QED BY <2>1, <2>2
<1>6. ASSUME NEW d \in Copies, InsertClaim(d)
      PROVE  Stays \/ claim[bridge[job[c]]] # NoJob
  <2>1. CASE d = c
    BY <1>4, <1>6, <2>1 DEF InsertClaim, Row
  <2>2. CASE d # c
    BY <1>1, <1>6, <2>2 DEF InsertClaim, Block
  <2> QED BY <2>1, <2>2
<1>7. ASSUME NEW d \in Copies, WorkerFault(d)
      PROVE  Stays \/ event[job[c]] \in lost'
  <2>1. CASE d = c
    BY <1>7, <2>1 DEF WorkerFault, Holding
  <2>2. CASE d # c
    BY <1>1, <1>7, <2>2 DEF WorkerFault
  <2> QED BY <2>1, <2>2
<1>8. ASSUME NEW p \in Procs, Crash(p)
      PROVE  Stays \/ event[job[c]] \in lost'
  <2>1. CASE proc[c] = p
    BY <1>8, <2>1 DEF Crash, Holding
  <2>2. CASE proc[c] # p
    BY <1>8, <2>2 DEF Crash, Typed, CopiesTyped
  <2> QED BY <2>1, <2>2
<1>9. ASSUME \/ \E b \in Bridges : RowExpires(b)
             \/ \E p \in Procs : LocalExpires(p)
             \/ UNCHANGED vars
      PROVE  Stays
  BY <1>9 DEF RowExpires, LocalExpires, vars, copyVars
<1>10. ASSUME NEW j \in Jobs, NEW d \in Copies,
              \/ \E p \in Procs \cup {NoProc} :
                   Accept(j, p, d) \/ \E r \in Jobs : Replay(j, r, p, d)
              \/ \E p \in Procs : Poll(j, p, d)
       PROVE  Stays
  BY <1>2, <1>10 DEF Accept, Replay, Poll, Kinds
<1> HIDE DEF Stays
<1>11. Stays \/ claim[bridge[job[c]]] # NoJob \/ event[job[c]] \in lost'
  BY <1>3, <1>5, <1>6, <1>7, <1>8, <1>9, <1>10 DEF Next
<1> QED BY <1>11 DEF Stays

(* An event that got past its claims, or was given way to with reason, does *)
(* not become one that was not.                                             *)
LEMMA PastClaimsStay ==
  ASSUME Typed, OwnersInv, [Next]_vars, NEW e \in Jobs, PastItsClaims(e)
  PROVE  PastItsClaims(e)'
<1>0. Lasting
  BY NothingForgotten
<1>1. CASE PostedUnderClaim(e)
  <2>1. PICK x \in posted : x.claimed /\ event[x.job] = e
    BY <1>1 DEF PostedUnderClaim
  <2>2. x \in posted' /\ event'[x.job] = e
    BY <1>0, <2>1 DEF Lasting, OwnersInv, Typed, ClaimsTyped
  <2> QED BY <2>1, <2>2 DEF PastItsClaims, PostedUnderClaim
<1>2. ASSUME NEW c \in Copies, pc[c] = "post", Keyed(c), event[job[c]] = e
      PROVE  PastItsClaims(e)'
  <2>1. event'[job[c]] = e
    BY <1>0, <1>2, AtWork DEF Lasting
  <2>2. CASE pc'[c] = "post" /\ job'[c] = job[c] /\ kind'[c] = kind[c]
    BY <1>2, <2>1, <2>2 DEF PastItsClaims, Keyed
  <2>3. CASE [job |-> job[c], claimed |-> TRUE] \in posted'
    <3> DEFINE x == [job |-> job[c], claimed |-> TRUE]
    <3>1. x \in posted' /\ x.claimed /\ event'[x.job] = e
      BY <2>1, <2>3
    <3> HIDE DEF x
    <3> QED BY <3>1 DEF PastItsClaims, PostedUnderClaim
  <2>4. CASE event[job[c]] \in lost'
    BY <1>2, <2>4 DEF PastItsClaims
  <2> QED BY <1>2, <2>2, <2>3, <2>4, PostingGoesOn
<1>3. CASE e \in lost
  BY <1>0, <1>3 DEF Lasting, PastItsClaims
<1> QED BY <1>1, <1>2, <1>3 DEF PastItsClaims

LEMMA PastClaimsFavoured ==
  ASSUME Typed, NEW e, PastItsClaims(e)
  PROVE  Favoured(e)
<1>1. \A c \in Copies : pc[c] = "post" /\ Keyed(c) => Holding(c)
  BY DEF Holding, Keyed, Typed, CopiesTyped, Kinds
<1> QED BY <1>1 DEF PastItsClaims, Favoured, InHand

LEMMA JustifiedStays ==
  ASSUME Typed, OwnersInv, FavourInv, [Next]_vars, Typed', NEW e, Justified(e)
  PROVE  Justified(e)'
<1>0. Lasting /\ e \in Jobs /\ bridge[e] \in Bridges
  BY NothingForgotten DEF Justified, Typed, RowsTyped
<1>1. CASE claim[bridge[e]] # NoJob
  BY <1>0, <1>1 DEF Justified, Lasting
<1>2. CASE PostedUnderClaim(e) \/ e \in lost
  <2>1. PastItsClaims(e)'
    BY <1>0, <1>2, PastClaimsStay DEF PastItsClaims
  <2> QED BY <1>0, <2>1 DEF Justified, Favoured, PastItsClaims, InHand, Holding, Keyed,
             Typed, CopiesTyped, Kinds
<1>3. ASSUME NEW c \in Copies, Holding(c), event[job[c]] = e
      PROVE  Justified(e)'
  <2>1. /\ job[c] \in Jobs /\ status[job[c]] # "absent"
        /\ event'[job[c]] = e /\ bridge[e] = bridge[job[c]]
    BY <1>0, <1>3, AtWork DEF Holding, Lasting, FavourInv
  <2>2. CASE pc[c] = "post"
    <3>1. PastItsClaims(e)
      BY <1>3, <2>2 DEF Holding, Keyed, PastItsClaims
    <3>2. PastItsClaims(e)'
      BY <1>0, <3>1, PastClaimsStay
    <3> QED BY <1>0, <3>2 DEF Justified, Favoured, PastItsClaims, InHand, Holding, Keyed,
             Typed, CopiesTyped, Kinds
  <2>3. CASE pc[c] \in {"select", "insert"} /\ kind[c] = "polled"
    <3>1. CASE /\ pc'[c] \in {"select", "insert", "post"}
               /\ job'[c] = job[c] /\ kind'[c] = "polled"
      BY <1>0, <2>1, <3>1 DEF Justified, Favoured, InHand, Holding
    <3>2. CASE claim[bridge[job[c]]] # NoJob
      BY <1>1, <2>1, <3>2
    <3>3. CASE event[job[c]] \in lost'
      BY <1>0, <1>3, <3>3 DEF Justified, Favoured
    <3> QED BY <2>3, <3>1, <3>2, <3>3, ClaimingGoesOn
  <2> QED BY <1>3, <2>2, <2>3 DEF Holding
<1> QED BY <1>1, <1>2, <1>3 DEF Justified, Favoured, InHand

(* What a step may add to what FavourInv speaks of.                         *)
LEMMA NewRows ==
  ASSUME Typed, [Next]_vars, NEW j \in Jobs, status'[j] # "absent", FavourInv
  PROVE  bridge'[event'[j]] = bridge'[j]
<1>0. Lasting
  BY NothingForgotten
<1>1. CASE status[j] # "absent"
  BY <1>0, <1>1 DEF Lasting, FavourInv
<1>2. CASE status[j] = "absent"
  <2>1. ASSUME NEW i \in Jobs, NEW p \in Procs \cup {NoProc}, NEW c \in Copies,
               Accept(i, p, c)
        PROVE  bridge'[event'[j]] = bridge'[j]
    BY <1>2, <2>1 DEF Accept, Typed, RowsTyped
  <2>2. ASSUME NEW i \in Jobs, NEW r \in Jobs, NEW p \in Procs \cup {NoProc},
               NEW c \in Copies, Replay(i, r, p, c)
        PROVE  bridge'[event'[j]] = bridge'[j]
    BY <1>2, <2>2 DEF Replay, Typed, RowsTyped, FavourInv
  <2>3. ASSUME NEW i \in Jobs, NEW p \in Procs, NEW c \in Copies, Poll(i, p, c)
        PROVE  FALSE
    BY <1>2, <2>3 DEF Poll, Typed, RowsTyped
  <2>4. ASSUME NEW c \in Copies, NEW s, pc[c] # "none", SetStatus(job[c], s)
        PROVE  FALSE
    BY <1>2, <2>4, AtWork DEF SetStatus, Typed, RowsTyped
  <2>5. ASSUME NEW c \in Copies,
               MarkDelivering(c) \/ ClaimLocally(c) \/ SelectClaim(c) \/ InsertClaim(c)
               \/ \E next \in {"delivered", "retrying", "dead_lettered"} : Post(c, next)
        PROVE  FALSE
    <3>1. pc[c] # "none" /\ ((\E s : SetStatus(job[c], s)) \/ UNCHANGED status)
      BY <2>5
      DEF MarkDelivering, ClaimLocally, SelectClaim, InsertClaim, Post, Block, rowVars
    <3> QED BY <1>2, <2>4, <3>1
  <2>6. ASSUME \/ \E c \in Copies : WorkerFault(c)
               \/ \E b \in Bridges : RowExpires(b)
               \/ \E p \in Procs : LocalExpires(p) \/ Crash(p)
               \/ UNCHANGED vars
        PROVE  FALSE
    BY <1>2, <2>6 DEF WorkerFault, RowExpires, LocalExpires, Crash, vars, rowVars
  <2> QED BY <2>1, <2>2, <2>3, <2>5, <2>6 DEF Next
<1> QED BY <1>1, <1>2

LEMMA NewPlaces ==
  ASSUME Typed, [Next]_vars, FavourInv, NEW c \in Copies
  PROVE  /\ pc'[c] = "local" => kind'[c] = "polled"
         /\ pc'[c] \in {"select", "insert"} => kind'[c] # "own"
<1> DEFINE Sound(d) == /\ pc'[d] = "local" => kind'[d] = "polled"
                       /\ pc'[d] \in {"select", "insert"} => kind'[d] # "own"
<1>1. pc'[c] = pc[c] /\ kind'[c] = kind[c] => Sound(c)
  BY DEF FavourInv, Keyed
<1>2. pc'[c] \in {"none", "mark", "post"} => Sound(c)
  OBVIOUS
<1>3. ASSUME NEW d \in Copies, Leave(d) PROVE Sound(c)
  BY <1>1, <1>2, <1>3 DEF Leave, Typed, CopiesTyped
<1>4. ASSUME NEW d \in Copies, NEW j \in Jobs, NEW p \in Procs \cup {NoProc},
             NEW k \in Kinds, QueueOwn(d, j, p, k) \/ Queue(d, j, p, k)
      PROVE  Sound(c)
  <2>1. CASE Queue(d, j, p, k)
    BY <1>1, <1>2, <2>1 DEF Queue, Typed, CopiesTyped
  <2>2. CASE UNCHANGED copyVars
    BY <1>1, <2>2 DEF copyVars
  <2> QED BY <1>4, <2>1, <2>2 DEF QueueOwn
<1>5. ASSUME NEW d \in Copies, MarkDelivering(d) PROVE Sound(c)
  <2>1. CASE d = c
    BY <1>5, <2>1 DEF MarkDelivering, Goto, Typed, CopiesTyped, Kinds
  <2>2. CASE d # c
    BY <1>1, <1>5, <2>2 DEF MarkDelivering, Goto, Typed, CopiesTyped
  <2> QED BY <2>1, <2>2
<1>6. ASSUME NEW d \in Copies, pc[d] \in {"local", "select", "insert"},
             NEW next \in {"select", "insert", "post"}, Goto(d, next)
      PROVE  Sound(c)
  <2>1. kind[d] # "own"
    BY <1>6 DEF FavourInv, Keyed
  <2>2. kind' = kind /\ pc' = [pc EXCEPT ![d] = next]
    BY <1>6 DEF Goto
  <2>3. CASE d = c
    BY <2>1, <2>2, <2>3 DEF Typed, CopiesTyped
  <2>4. CASE d # c
    BY <1>1, <2>2, <2>4 DEF Typed, CopiesTyped
  <2> QED BY <2>3, <2>4
<1>7. ASSUME NEW d \in Copies, ClaimLocally(d) \/ SelectClaim(d) \/ InsertClaim(d)
      PROVE  Sound(c)
  <2>1. /\ pc[d] \in {"local", "select", "insert"}
        /\ Leave(d) \/ Goto(d, "select") \/ Goto(d, "insert") \/ Goto(d, "post")
    BY <1>7 DEF ClaimLocally, SelectClaim, InsertClaim, Block
  <2> QED BY <1>3, <1>6, <2>1
<1>8. ASSUME NEW p \in Procs, Crash(p) PROVE Sound(c)
  BY <1>1, <1>2, <1>8 DEF Crash, Typed, CopiesTyped
<1>9. ASSUME \/ \E b \in Bridges : RowExpires(b)
             \/ \E p \in Procs : LocalExpires(p)
             \/ UNCHANGED vars
      PROVE  Sound(c)
  BY <1>1, <1>9 DEF RowExpires, LocalExpires, vars, copyVars
<1>10. ASSUME NEW j \in Jobs, NEW d \in Copies,
              \/ \E p \in Procs \cup {NoProc} :
                   Accept(j, p, d) \/ \E r \in Jobs : Replay(j, r, p, d)
              \/ \E p \in Procs : Poll(j, p, d)
       PROVE  Sound(c)
  BY <1>4, <1>10 DEF Accept, Replay, Poll, Kinds
<1>11. ASSUME NEW d \in Copies,
              \/ \E next \in {"delivered", "retrying", "dead_lettered"} : Post(d, next)
              \/ WorkerFault(d)
       PROVE  Sound(c)
  BY <1>3, <1>11 DEF Post, WorkerFault
<1> HIDE DEF Sound
<1>12. Sound(c)
  BY <1>5, <1>7, <1>8, <1>9, <1>10, <1>11 DEF Next
<1> QED BY <1>12 DEF Sound

LEMMA NewClaims ==
  ASSUME Typed, FavourInv, [Next]_vars
  PROVE  /\ \A b \in live' : b \in live \/ claim'[b] # NoJob
         /\ \A b \in Bridges : claim[b] = NoJob /\ claim'[b] # NoJob =>
              \E c \in Copies : /\ bridge[job[c]] = b /\ event[job[c]] = claim'[b]
                                /\ pc[c] = "insert" /\ pc'[c] = "post"
                                /\ job'[c] = job[c] /\ kind'[c] = kind[c]
                                /\ event' = event
         /\ \A p \in Procs : local'[p] # NoJob => local'[p] = local[p] \/
              \E c \in Copies : /\ event[job[c]] = local'[p] /\ event' = event
                                /\ pc[c] = "local" /\ pc'[c] = "select"
                                /\ job'[c] = job[c] /\ kind'[c] = kind[c]
<1> USE DEF Typed, ClaimsTyped, claimVars
<1>1. ASSUME UNCHANGED claimVars
      PROVE  /\ live' = live /\ claim' = claim /\ local' = local
  BY <1>1
<1>2. ASSUME NEW c \in Copies, ClaimLocally(c)
      PROVE  /\ live' = live /\ claim' = claim
             /\ \A p \in Procs : local'[p] # local[p] =>
                  /\ event[job[c]] = local'[p] /\ event' = event
                  /\ pc[c] = "local" /\ pc'[c] = "select"
                  /\ job'[c] = job[c] /\ kind'[c] = kind[c]
  <2>1. live' = live /\ claim' = claim
    BY <1>2 DEF ClaimLocally
  <2>2. CASE local[proc[c]] # NoJob
    BY <1>2, <2>1, <2>2 DEF ClaimLocally
  <2>3. CASE local[proc[c]] = NoJob
    <3>1. /\ local' = [local EXCEPT ![proc[c]] = event[job[c]]]
          /\ Goto(c, "select") /\ event' = event /\ pc[c] = "local"
      BY <1>2, <2>3 DEF ClaimLocally, rowVars
    <3>2. pc'[c] = "select" /\ job' = job /\ kind' = kind
      BY <3>1 DEF Goto, CopiesTyped
    <3> QED BY <2>1, <3>1, <3>2
  <2> QED BY <2>2, <2>3
<1>3. ASSUME NEW c \in Copies, InsertClaim(c)
      PROVE  /\ local' = local
             /\ \A b \in live' : b \in live \/ claim'[b] # NoJob
             /\ \A b \in Bridges : claim'[b] # claim[b] =>
                  /\ bridge[job[c]] = b /\ event[job[c]] = claim'[b]
                  /\ pc[c] = "insert" /\ pc'[c] = "post"
                  /\ job'[c] = job[c] /\ kind'[c] = kind[c]
                  /\ event' = event
  <2>1. local' = local /\ bridge[job[c]] \in Bridges /\ event[job[c]] \in Jobs
    BY <1>3, AtWork DEF InsertClaim
  <2>2. CASE Row(c) # NoJob
    BY <1>3, <2>1, <2>2 DEF InsertClaim
  <2>3. CASE Row(c) = NoJob
    <3>1. /\ TakeRow(c) /\ Goto(c, "post") /\ event' = event /\ pc[c] = "insert"
      BY <1>3, <2>3 DEF InsertClaim, rowVars
    <3>2. pc'[c] = "post" /\ job' = job /\ kind' = kind
      BY <3>1 DEF Goto, CopiesTyped
    <3>3. /\ claim' = [claim EXCEPT ![bridge[job[c]]] = event[job[c]]]
          /\ live' = live \cup {bridge[job[c]]}
      BY <3>1 DEF TakeRow
    <3> QED BY <2>1, <3>1, <3>2, <3>3
  <2> QED BY <2>2, <2>3
<1>4. ASSUME \/ \E b \in Bridges : RowExpires(b)
             \/ \E p \in Procs : LocalExpires(p) \/ Crash(p)
      PROVE  /\ live' \subseteq live /\ claim' = claim
             /\ \A p \in Procs : local'[p] # NoJob => local'[p] = local[p]
  BY <1>4 DEF RowExpires, LocalExpires, Crash
<1>5. ASSUME NEW j \in Jobs, NEW c \in Copies,
             \/ \E p \in Procs \cup {NoProc} :
                  Accept(j, p, c) \/ \E r \in Jobs : Replay(j, r, p, c)
             \/ \E p \in Procs : Poll(j, p, c)
      PROVE  UNCHANGED claimVars
  BY <1>5 DEF Accept, Replay, Poll
<1>6. ASSUME NEW c \in Copies,
             \/ MarkDelivering(c) \/ SelectClaim(c)
             \/ \E next \in {"delivered", "retrying", "dead_lettered"} : Post(c, next)
             \/ WorkerFault(c)
      PROVE  UNCHANGED claimVars
  BY <1>6 DEF MarkDelivering, SelectClaim, Post, WorkerFault
<1>7. CASE UNCHANGED claimVars
  BY <1>1, <1>7
<1>8. CASE \E c \in Copies : ClaimLocally(c)
  BY <1>2, <1>8
<1>9. CASE \E c \in Copies : InsertClaim(c)
  BY <1>3, <1>9
<1>10. CASE UNCHANGED vars
  BY <1>7, <1>10 DEF vars
<1> QED BY <1>4, <1>5, <1>6, <1>7, <1>8, <1>9, <1>10 DEF Next

LEMMA NewBlocks ==
  ASSUME Typed, FavourInv, [Next]_vars, NEW j \in Jobs,
         status'[j] = "idempotency_blocked"
  PROVE  \/ status[j] = "idempotency_blocked" /\ blocker'[j] = blocker[j]
         \/ \E p \in Procs : local[p] # NoJob /\ blocker'[j] = local[p]
         \/ \E b \in Bridges : claim[b] # NoJob /\ blocker'[j] = claim[b]
<1> DEFINE Old == status[j] = "idempotency_blocked" /\ blocker'[j] = blocker[j]
           ByMemory == \E p \in Procs : local[p] # NoJob /\ blocker'[j] = local[p]
           ByRow == \E b \in Bridges : claim[b] # NoJob /\ blocker'[j] = claim[b]
<1> USE DEF Typed, RowsTyped
<1>1. ASSUME NEW i \in Jobs, NEW s \in Statuses \ {"idempotency_blocked"},
             status' = [status EXCEPT ![i] = s], blocker' = blocker
      PROVE  Old
  BY <1>1
<1>2. ASSUME UNCHANGED <<status, blocker>> PROVE Old
  BY <1>2
<1>3. ASSUME NEW c \in Copies, NEW e, Block(c, e) PROVE Old \/ blocker'[j] = e
  BY <1>3 DEF Block, SetStatus
<1>4. ASSUME NEW c \in Copies, ClaimLocally(c) PROVE Old \/ ByMemory
  <2>1. proc[c] \in Procs
    BY <1>4, AtWork DEF ClaimLocally
  <2>2. CASE local[proc[c]] # NoJob
    BY <1>3, <1>4, <2>1, <2>2 DEF ClaimLocally
  <2>3. CASE local[proc[c]] = NoJob
    BY <1>2, <1>4, <2>3 DEF ClaimLocally, rowVars
  <2> QED BY <2>2, <2>3
<1>5. ASSUME NEW c \in Copies, SelectClaim(c) \/ InsertClaim(c) PROVE Old \/ ByRow
  <2>1. bridge[job[c]] \in Bridges
    BY <1>5, AtWork DEF SelectClaim, InsertClaim
  <2>2. \/ Row(c) # NoJob /\ Block(c, Row(c))
       \/ UNCHANGED <<status, blocker>>
    BY <1>5, <2>1 DEF SelectClaim, InsertClaim, rowVars, FavourInv, Row
  <2> QED BY <1>2, <1>3, <2>1, <2>2 DEF Row
<1>6. ASSUME NEW i \in Jobs, NEW c \in Copies,
             \/ \E p \in Procs \cup {NoProc} :
                  Accept(i, p, c) \/ \E r \in Jobs : Replay(i, r, p, c)
             \/ \E p \in Procs : Poll(i, p, c)
      PROVE  Old
  BY <1>1, <1>6 DEF Accept, Replay, Poll, Statuses
<1>7. ASSUME NEW c \in Copies,
             \/ MarkDelivering(c)
             \/ \E next \in {"delivered", "retrying", "dead_lettered"} : Post(c, next)
      PROVE  Old
  <2>1. job[c] \in Jobs
    BY <1>7, AtWork DEF MarkDelivering, Post
  <2> QED BY <1>1, <1>7, <2>1 DEF MarkDelivering, Post, SetStatus, Statuses
<1>8. ASSUME \/ \E c \in Copies : WorkerFault(c)
             \/ \E b \in Bridges : RowExpires(b)
             \/ \E p \in Procs : LocalExpires(p) \/ Crash(p)
             \/ UNCHANGED vars
      PROVE  Old
  BY <1>2, <1>8 DEF WorkerFault, RowExpires, LocalExpires, Crash, vars, rowVars
<1> HIDE DEF Old, ByMemory, ByRow
<1>9. Old \/ ByMemory \/ ByRow
  BY <1>4, <1>5, <1>6, <1>7, <1>8 DEF Next
<1> QED BY <1>9 DEF Old, ByMemory, ByRow

(* A step keeps somebody in whose favour duplicates are suppressed: a copy  *)
(* that has claimed is posted, or loses to a row whose owner got past its   *)
(* claims, or is cut short.                                                 *)
LEMMA FavourStep ==
  Typed /\ OwnersInv /\ FavourInv /\ [Next]_vars => FavourInv'
<1> SUFFICES ASSUME Typed, OwnersInv, FavourInv, [Next]_vars PROVE FavourInv'
  OBVIOUS
<1>0. Lasting /\ Typed'
  BY NothingForgotten, TypedStep
<1>1. \A b \in live' : claim'[b] # NoJob
  BY <1>0, NewClaims DEF FavourInv, Lasting, Typed, ClaimsTyped
<1>2. ASSUME NEW b \in Bridges, claim'[b] # NoJob
      PROVE  bridge'[claim'[b]] = b /\ PastItsClaims(claim[b])'
  <2>1. CASE claim[b] # NoJob
    <3>1. claim'[b] = claim[b] /\ claim[b] \in Jobs
      BY <1>0, <2>1 DEF Lasting, Typed, ClaimsTyped
    <3>2. bridge[claim[b]] = b /\ PastItsClaims(claim[b])
      BY <2>1 DEF FavourInv
    <3>3. PICK e \in Jobs : e = claim[b] /\ PastItsClaims(e)
      BY <3>1, <3>2
    <3>4. bridge'[claim'[b]] = b
      BY <1>0, <3>1, <3>2 DEF Lasting
    <3>5. PastItsClaims(e)' /\ claim'[b] = e
      BY <3>1, <3>3, PastClaimsStay
    <3>6. PastItsClaims(claim[b])'
      BY <3>5 DEF PastItsClaims, PostedUnderClaim, Keyed
    <3> QED BY <3>4, <3>6
  <2>2. CASE claim[b] = NoJob
    <3>1. PICK c \in Copies :
            /\ bridge[job[c]] = b /\ event[job[c]] = claim'[b]
            /\ pc[c] = "insert" /\ pc'[c] = "post"
            /\ job'[c] = job[c] /\ kind'[c] = kind[c]
            /\ event' = event
      BY <1>2, <2>2, NewClaims
    <3>2. bridge'[claim'[b]] = b
      BY <1>0, <3>1, AtWork DEF FavourInv, Lasting
    <3>3. kind[c] # "own"
      BY <3>1 DEF FavourInv, Keyed
    <3>4. PastItsClaims(claim[b])'
      BY <3>1, <3>3 DEF PastItsClaims, Keyed
    <3> QED BY <3>2, <3>4
  <2> QED BY <2>1, <2>2
<1>3. \A e : Justified(e) => Justified(e)'
  BY <1>0, JustifiedStays
<1>4. ASSUME NEW p \in Procs, local'[p] # NoJob
      PROVE  Justified(local[p])'
  <2>1. CASE local'[p] = local[p]
    <3>1. PICK e : e = local[p] /\ Justified(e)
      BY <1>4, <2>1 DEF FavourInv
    <3>2. Justified(e)' /\ local'[p] = e
      BY <1>3, <2>1, <3>1
    <3> QED BY <3>2 DEF Justified, Favoured, PostedUnderClaim, InHand, Holding
  <2>2. ASSUME NEW c \in Copies,
               event[job[c]] = local'[p], event' = event,
               pc[c] = "local", pc'[c] = "select",
               job'[c] = job[c], kind'[c] = kind[c]
        PROVE  Justified(local[p])'
    <3>1. kind'[c] = "polled"
      BY <2>2 DEF FavourInv
    <3>2. local'[p] \in Jobs
      BY <2>2, AtWork
    <3> QED BY <2>2, <3>1, <3>2 DEF Justified, Favoured, InHand, Holding
  <2> QED BY <1>4, <2>1, <2>2, NewClaims
<1>5. ASSUME NEW j \in Jobs, status'[j] = "idempotency_blocked"
      PROVE  Justified(blocker[j])'
  <2>1. PICK e : e = blocker'[j] /\ Justified(e)
    <3>1. CASE status[j] = "idempotency_blocked" /\ blocker'[j] = blocker[j]
      BY <3>1 DEF FavourInv
    <3>2. CASE \E p \in Procs : local[p] # NoJob /\ blocker'[j] = local[p]
      BY <3>2 DEF FavourInv
    <3>3. CASE \E b \in Bridges : claim[b] # NoJob /\ blocker'[j] = claim[b]
      BY <3>3 DEF FavourInv, Justified, Typed, ClaimsTyped
    <3> QED BY <1>5, <3>1, <3>2, <3>3, NewBlocks
  <2>2. Justified(e)'
    BY <1>3, <2>1
  <2> QED BY <2>1, <2>2 DEF Justified, Favoured, PostedUnderClaim, InHand, Holding
<1> QED BY <1>1, <1>2, <1>4, <1>5, NewRows, NewPlaces DEF FavourInv, Keyed

(* A job is blocked in favour of an event that is posted, about to be or cut*)
(* short, or that was itself refused in favour of one.                      *)
THEOREM NoneBlockedInVain == Spec => []BlockedInFavour
<1>1. Init => Typed /\ OwnersInv /\ FavourInv
  BY InitTyped DEF Init, OwnersInv, FavourInv
<1>2. Typed /\ FavourInv => BlockedInFavour
  <2> SUFFICES ASSUME Typed, FavourInv, NEW j \in Jobs,
                      status[j] = "idempotency_blocked"
               PROVE  /\ blocker[j] \in Jobs
                      /\ Favoured(blocker[j]) \/ Favoured(claim[bridge[blocker[j]]])
    BY DEF BlockedInFavour
  <2>1. Justified(blocker[j]) /\ blocker[j] \in Jobs
    BY DEF FavourInv, Justified
  <2>2. bridge[blocker[j]] \in Bridges
    BY <2>1 DEF Typed, RowsTyped
  <2> QED BY <2>1, <2>2, PastClaimsFavoured DEF Justified, FavourInv
<1> QED BY <1>1, <1>2, TypedStep, OwnersStep, FavourStep, PTL DEF Spec

=============================================================================
