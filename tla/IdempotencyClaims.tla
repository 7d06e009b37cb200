------------------------- MODULE IdempotencyClaims -------------------------
(***************************************************************************)
(* One business idempotency key: the rows of idempotency_claims, one for   *)
(* each bridge, the in-memory claims of each process, and the delivery jobs*)
(* that carry the key.  A worker claims in the process first, then in the  *)
(* table by a SELECT and, in case it found nothing, an INSERT.             *)
(*                                                                         *)
(* A job may have several copies at once: the one its handler queued and   *)
(* those of the polls.  Copies are taken to have come past the worker's    *)
(* first line, which is Delivery's subject.  The insertion of a row and its*)
(* enqueueing are one step, as are the event's and the row's update of a   *)
(* blocked job, and a POST and what is written of it.                      *)
(***************************************************************************)
EXTENDS Naturals, FiniteSets

CONSTANTS
  Jobs,
  Bridges,
  Procs,      \* delivering processes; those of role "all" also take requests
  Copies,     \* bound: as many copies are about at once
  NoJob,
  NoProc,     \* requests taken by a process of role "api"
  FaultCap    \* bound: how many crashes, raised calls and expiries happen

ASSUME ClaimsAssumption ==
  /\ NoJob \notin Jobs
  /\ NoProc \notin Procs
  /\ FaultCap \in Nat

VARIABLES
  \* the rows of the jobs
  status,
  event,      \* named by the event's first job
  bridge,
  \* the copies on queues and in workers
  job,        \* NoJob: this copy is not about
  proc, pc,   \* its process, and what its worker is about to do
  kind,       \* who queued it
  \* the claims
  claim,      \* idempotency_claims: the event that has the key, per bridge
  live,       \* its expires_at is ahead
  local,      \* _claims: of which event a copy put the key there
  \* history
  posted,     \* jobs posted so far, with or without a claim
  lost,       \* events of which a copy past a claim was cut short
  blocker,    \* the event in whose favour a job was blocked
  faults

rowVars   == <<status, event, bridge>>
copyVars  == <<job, proc, pc, kind>>
claimVars == <<claim, live, local>>
vars == <<rowVars, copyVars, claimVars, posted, lost, blocker, faults>>

Statuses == {"absent", "queued", "delivering", "retrying", "delivered",
             "dead_lettered", "idempotency_blocked"}

(* A handler's own copy has no key; that of a replay has it, and passes over*)
(* the claim in memory; a poll's has it and does not know of replays.       *)
Kinds == {"own", "replay", "polled"}

TypeOK ==
  /\ status \in [Jobs -> Statuses]
  /\ event \in [Jobs -> Jobs \cup {NoJob}]
  /\ bridge \in [Jobs -> Bridges]
  /\ job \in [Copies -> Jobs \cup {NoJob}]
  /\ proc \in [Copies -> Procs \cup {NoProc}]
  /\ pc \in [Copies -> {"none", "mark", "local", "select", "insert", "post"}]
  /\ kind \in [Copies -> Kinds]
  /\ claim \in [Bridges -> Jobs \cup {NoJob}]
  /\ live \subseteq Bridges
  /\ local \in [Procs -> Jobs \cup {NoJob}]
  /\ posted \subseteq [job: Jobs, claimed: BOOLEAN]
  /\ lost \subseteq Jobs
  /\ blocker \in [Jobs -> Jobs \cup {NoJob}]
  /\ faults \in Nat
  /\ \A c \in Copies : pc[c] # "none" => /\ job[c] \in Jobs
                                         /\ proc[c] \in Procs
                                         /\ status[job[c]] # "absent"
  /\ \A j \in Jobs : status[j] # "absent" => event[j] \in Jobs

Init ==
  /\ status = [j \in Jobs |-> "absent"]
  /\ event = [j \in Jobs |-> NoJob]
  /\ bridge \in [Jobs -> Bridges]
  /\ job = [c \in Copies |-> NoJob]
  /\ proc = [c \in Copies |-> NoProc]
  /\ pc = [c \in Copies |-> "none"]
  /\ kind = [c \in Copies |-> "own"]
  /\ claim = [b \in Bridges |-> NoJob]
  /\ live = {}
  /\ local = [p \in Procs |-> NoJob]
  /\ posted = {}
  /\ lost = {}
  /\ blocker = [j \in Jobs |-> NoJob]
  /\ faults = 0

-----------------------------------------------------------------------------
(* How copies of a job come to a worker                                     *)

Queue(c, j, p, k) ==
  /\ pc[c] = "none"
  /\ job'  = [job EXCEPT ![c] = j]
  /\ proc' = [proc EXCEPT ![c] = p]
  /\ pc'   = [pc EXCEPT ![c] = "mark"]
  /\ kind' = [kind EXCEPT ![c] = k]

(* A process of role "all" queues a copy of what it accepts, one of role    *)
(* "api" does not.  In either the row stays "queued", for the polls to find.*)
QueueOwn(c, j, p, k) == IF p = NoProc THEN UNCHANGED copyVars ELSE Queue(c, j, p, k)

Accept(j, p, c) ==
  /\ status[j] = "absent"
  /\ status' = [status EXCEPT ![j] = "queued"]
  /\ event' = [event EXCEPT ![j] = j]
  /\ QueueOwn(c, j, p, "own")
  /\ UNCHANGED <<bridge, claimVars, posted, lost, blocker, faults>>

(* A replay is a row of its own with the event and key of the first.  The   *)
(* check and the insert are one step here: a row that waits for its turn    *)
(* does what a row does that is inserted later.                             *)
Replay(j, r, p, c) ==
  /\ status[j] \in {"retrying", "dead_lettered"}
  /\ status[r] = "absent"
  /\ bridge[r] = bridge[j]
  /\ status' = [status EXCEPT ![r] = "queued"]
  /\ event' = [event EXCEPT ![r] = event[j]]
  /\ QueueOwn(c, r, p, "replay")
  /\ UNCHANGED <<bridge, claimVars, posted, lost, blocker, faults>>

(* A row may have come due, or past the cutoff, at any moment.              *)
Poll(j, p, c) ==
  /\ status[j] \in {"queued", "retrying", "delivering"}
  /\ status' = [status EXCEPT ![j] = "delivering"]
  /\ Queue(c, j, p, "polled")
  /\ UNCHANGED <<event, bridge, claimVars, posted, lost, blocker, faults>>

-----------------------------------------------------------------------------
(* The worker *)

Goto(c, next) ==
  /\ pc' = [pc EXCEPT ![c] = next]
  /\ UNCHANGED <<job, proc, kind>>

(* Mutant: a copy that is let go is forgotten before its worker is through. *)
LeaveEarly(c) ==
  /\ job'  = [job EXCEPT ![c] = NoJob]
  /\ proc' = [proc EXCEPT ![c] = NoProc]
  /\ kind' = [kind EXCEPT ![c] = "own"]
  /\ UNCHANGED pc

Leave(c) ==
  /\ job'  = [job EXCEPT ![c] = NoJob]
  /\ proc' = [proc EXCEPT ![c] = NoProc]
  /\ pc'   = [pc EXCEPT ![c] = "none"]
  /\ kind' = [kind EXCEPT ![c] = "own"]

SetStatus(j, s) ==
  /\ status' = [status EXCEPT ![j] = s]
  /\ UNCHANGED <<event, bridge>>

(* The row says "delivering" again, whatever it said.                       *)
MarkDelivering(c) ==
  /\ pc[c] = "mark"
  /\ SetStatus(job[c], "delivering")
  /\ Goto(c, CASE kind[c] = "own"    -> "post"
               [] kind[c] = "replay" -> "select"
               [] kind[c] = "polled" -> "local")
  /\ UNCHANGED <<claimVars, posted, lost, blocker, faults>>

(* A duplicate: e is the event that has the key.                            *)
Block(c, e) ==
  /\ SetStatus(job[c], "idempotency_blocked")
  /\ blocker' = [blocker EXCEPT ![job[c]] = e]
  /\ Leave(c)

(* _claims is keyed by the key alone: neither the bridge nor the event of   *)
(* the copy that put it there counts, not even if it is the same.           *)
ClaimLocally(c) ==
  /\ pc[c] = "local"
  /\ IF local[proc[c]] # NoJob
       THEN Block(c, local[proc[c]]) /\ UNCHANGED local
       ELSE /\ local' = [local EXCEPT ![proc[c]] = event[job[c]]]
            /\ Goto(c, "select")
            /\ UNCHANGED <<rowVars, blocker>>
  /\ UNCHANGED <<claim, live, posted, lost, faults>>

Row(c) == claim[bridge[job[c]]]

SelectClaim(c) ==
  /\ pc[c] = "select"
  /\ \/ /\ bridge[job[c]] \notin live
        /\ Goto(c, "insert")
        /\ UNCHANGED <<rowVars, blocker>>
     \/ /\ bridge[job[c]] \in live
        /\ Row(c) = event[job[c]]
        /\ Goto(c, "post")
        /\ UNCHANGED <<rowVars, blocker>>
     \/ /\ bridge[job[c]] \in live
        /\ Row(c) # event[job[c]]
        /\ Block(c, Row(c))
  /\ UNCHANGED <<claimVars, posted, lost, faults>>

(* The transaction inserts the row.                                         *)
TakeRow(c) ==
  /\ claim' = [claim EXCEPT ![bridge[job[c]]] = event[job[c]]]
  /\ live' = live \cup {bridge[job[c]]}

(* Mutant: ON CONFLICT DO UPDATE.                                           *)
InsertOrReplace(c) ==
  /\ pc[c] = "insert"
  /\ TakeRow(c)
  /\ Goto(c, "post")
  /\ UNCHANGED <<rowVars, local, posted, lost, blocker, faults>>

(* Mutant: nothing is returned after the commit.                            *)
InsertReturnsNone(c) ==
  /\ pc[c] = "insert"
  /\ IF Row(c) = NoJob THEN TakeRow(c) ELSE UNCHANGED <<claim, live>>
  /\ Block(c, IF Row(c) = NoJob THEN event[job[c]] ELSE Row(c))
  /\ UNCHANGED <<local, posted, lost, faults>>

(* uq_idempotency_claim_bridge_key refuses a second row, whether or not the *)
(* first has expired and whichever event it names.                          *)
InsertClaim(c) ==
  /\ pc[c] = "insert"
  /\ IF Row(c) = NoJob
       THEN /\ TakeRow(c)
            /\ Goto(c, "post")
            /\ UNCHANGED <<rowVars, blocker>>
       ELSE /\ Block(c, Row(c))
            /\ UNCHANGED <<claim, live>>
  /\ UNCHANGED <<local, posted, lost, faults>>

Keyed(c) == kind[c] # "own"

(* Delivered, to be tried again, or given up.                               *)
Post(c, next) ==
  /\ pc[c] = "post"
  /\ next \in {"delivered", "retrying", "dead_lettered"}
  /\ posted' = posted \cup {[job |-> job[c], claimed |-> Keyed(c)]}
  /\ SetStatus(job[c], next)
  /\ Leave(c)
  /\ UNCHANGED <<claimVars, lost, blocker, faults>>

-----------------------------------------------------------------------------
(* Time and faults *)

(* A copy that has passed one claim at least.                               *)
Holding(c) ==
  \/ kind[c] = "polled" /\ pc[c] \in {"select", "insert", "post"}
  \/ kind[c] = "replay" /\ pc[c] = "post"

Count == faults < FaultCap /\ faults' = faults + 1

RowExpires(b) ==
  /\ b \in live
  /\ live' = live \ {b}
  /\ Count
  /\ UNCHANGED <<rowVars, copyVars, claim, local, posted, lost, blocker>>

LocalExpires(p) ==
  /\ local[p] # NoJob
  /\ local' = [local EXCEPT ![p] = NoJob]
  /\ Count
  /\ UNCHANGED <<rowVars, copyVars, claim, live, posted, lost, blocker>>

(* A repository call raises and the worker drops the copy; the row is       *)
(* polled again later.                                                      *)
WorkerFault(c) ==
  /\ pc[c] # "none"
  /\ Leave(c)
  /\ lost' = IF Holding(c) THEN lost \cup {event[job[c]]} ELSE lost
  /\ Count
  /\ UNCHANGED <<rowVars, claimVars, posted, blocker>>

(* A process stops with the copies and claims it holds.                     *)
Crash(p) ==
  /\ local[p] # NoJob \/ \E c \in Copies : proc[c] = p
  /\ job'  = [c \in Copies |-> IF proc[c] = p THEN NoJob ELSE job[c]]
  /\ proc' = [c \in Copies |-> IF proc[c] = p THEN NoProc ELSE proc[c]]
  /\ pc'   = [c \in Copies |-> IF proc[c] = p THEN "none" ELSE pc[c]]
  /\ kind' = [c \in Copies |-> IF proc[c] = p THEN "own" ELSE kind[c]]
  /\ local' = [local EXCEPT ![p] = NoJob]
  /\ lost' = lost \cup {event[job[c]] : c \in {d \in Copies : proc[d] = p /\ Holding(d)}}
  /\ Count
  /\ UNCHANGED <<rowVars, claim, live, posted, blocker>>

Next ==
  \/ \E j \in Jobs, c \in Copies :
       \/ \E p \in Procs \cup {NoProc} :
            \/ Accept(j, p, c)
            \/ \E r \in Jobs : Replay(j, r, p, c)
       \/ \E p \in Procs : Poll(j, p, c)
  \/ \E c \in Copies :
       \/ MarkDelivering(c)
       \/ ClaimLocally(c) \/ SelectClaim(c) \/ InsertClaim(c)
       \/ \E next \in {"delivered", "retrying", "dead_lettered"} : Post(c, next)
       \/ WorkerFault(c)
  \/ \E b \in Bridges : RowExpires(b)
  \/ \E p \in Procs : LocalExpires(p) \/ Crash(p)

Spec == Init /\ [][Next]_vars

-----------------------------------------------------------------------------
(* Safety *)

(* Of all the jobs that carry the key to one bridge under a claim, only     *)
(* those of one event are ever posted: across processes, crashes, expiries  *)
(* and replays, however many copies there are and however their SELECTs and *)
(* INSERTs interleave.                                                      *)
ClaimedPostsAgree ==
  \A x, y \in posted :
    x.claimed /\ y.claimed /\ bridge[x.job] = bridge[y.job]
      => event[x.job] = event[y.job]

PostedUnderClaim(e) == \E x \in posted : x.claimed /\ event[x.job] = e

InHand(e) == \E c \in Copies : Holding(c) /\ event[job[c]] = e

Favoured(e) == PostedUnderClaim(e) \/ InHand(e) \/ e \in lost

(* No job is suppressed in favour of nobody.  A blocked job gave way to one *)
(* event: to the owner of its bridge's row, or to whoever had put the key in*)
(* the memory of the process.  A copy of that very event was posted under   *)
(* its claim, is about to be, or was cut short; or the event held the claim *)
(* in memory only, was refused the row of its own bridge, and this is true  *)
(* of that row's owner.  Two claims taken one after the other could refuse  *)
(* each other's holders.                                                    *)
(* README.md:276 says "Claims are scoped by bridge and business key" and    *)
(* README.md:268 that a claim is reusable for the same event.  That is true *)
(* of the table.  By the claim in memory the event that a job gives way to  *)
(* may be one of another bridge, or its own: a retry of a job with a key is *)
(* blocked by its first attempt.                                            *)
BlockedInFavour ==
  \A j \in Jobs : status[j] = "idempotency_blocked" =>
    /\ blocker[j] \in Jobs
    /\ Favoured(blocker[j]) \/ Favoured(claim[bridge[blocker[j]]])

(* What ClaimedPostsAgree rests on: past its claim an event owns the row.   *)
OwnersInv ==
  /\ \A c \in Copies : pc[c] = "post" /\ Keyed(c) =>
       claim[bridge[job[c]]] = event[job[c]]
  /\ \A x \in posted :
       /\ status[x.job] # "absent"
       /\ x.claimed => claim[bridge[x.job]] = event[x.job]

(* What BlockedInFavour rests on: an event's jobs share its bridge, a row's *)
(* owner got past its claims, and an event that has put the key in memory,  *)
(* or was given way to, is favoured or was refused by a row.                *)
PastItsClaims(e) ==
  \/ PostedUnderClaim(e)
  \/ \E c \in Copies : pc[c] = "post" /\ Keyed(c) /\ event[job[c]] = e
  \/ e \in lost

Justified(e) == e \in Jobs /\ (Favoured(e) \/ claim[bridge[e]] # NoJob)

FavourInv ==
  /\ \A j \in Jobs : status[j] # "absent" => bridge[event[j]] = bridge[j]
  /\ \A c \in Copies : /\ pc[c] = "local" => kind[c] = "polled"
                       /\ pc[c] \in {"select", "insert"} => Keyed(c)
  /\ \A b \in live : claim[b] # NoJob
  /\ \A b \in Bridges : claim[b] # NoJob =>
       bridge[claim[b]] = b /\ PastItsClaims(claim[b])
  /\ \A p \in Procs : local[p] # NoJob => Justified(local[p])
  /\ \A j \in Jobs : status[j] = "idempotency_blocked" => Justified(blocker[j])

(* README.md:268: "The database claim is reusable for the same source       *)
(* event, while a different event with the same key remains blocked."       *)
OneEventPosted ==
  \A x, y \in posted :
    bridge[x.job] = bridge[y.job] => event[x.job] = event[y.job]

=============================================================================
