---------------------------- MODULE MappingRules ----------------------------
(***************************************************************************)
(* The revisions of the mapping of one source field of one bridge (table   *)
(* mapping_rules), and the requests that propose, approve, disable and     *)
(* roll them back.  Each request is one READ COMMITTED transaction: a      *)
(* SELECT ... FOR UPDATE matches rows against what was committed when it   *)
(* began, waits for the locks one by one, and passes over a row that no    *)
(* longer matches once it has the lock, which it keeps.  The flush writes  *)
(* rows in the order of their primary keys, each checked against the       *)
(* unique indexes at once.  The flush and the commit are one step: a flush *)
(* that meets another's unfinished write of an index entry waits for that  *)
(* transaction's end.                                                      *)
(***************************************************************************)
EXTENDS Naturals, FiniteSets

CONSTANTS
  Rules,     \* mapping_id's, numbered in the order of the uuids
  Sessions,  \* requests that may run at once
  NoSession,
  NoRule

ASSUME MappingRulesAssumption ==
  /\ Rules \subseteq Nat
  /\ IsFiniteSet(Rules)
  /\ NoSession \notin Sessions
  /\ NoRule \notin Rules

VARIABLES
  status, revision,   \* the committed rows
  lock,               \* who holds a row's lock
  pc, op,             \* where a request is, and what it does
  target,             \* the row named in the request
  matched,            \* rows its second SELECT has matched and not yet locked
  held,               \* active rows it has locked, to deactivate them
  number,             \* the revision a proposal is about to be given
  applied             \* mapping_versions of the events so far, each with the
                      \* row that was in fact applied

rowVars     == <<status, revision>>
requestVars == <<pc, op, target, matched, held, number>>
vars == <<rowVars, lock, requestVars, applied>>

Statuses == {"absent", "proposed", "approved", "active", "inactive"}
Ops == {"propose", "approve", "disable", "rollback"}

TypeOK ==
  /\ status \in [Rules -> Statuses]
  /\ revision \in [Rules -> Nat]
  /\ lock \in [Rules -> Sessions \cup {NoSession}]
  /\ pc \in [Sessions -> {"idle", "insert", "lockTarget", "select",
                           "lockActive", "commit", "failed"}]
  /\ op \in [Sessions -> Ops]
  /\ target \in [Sessions -> Rules \cup {NoRule}]
  /\ matched \in [Sessions -> SUBSET Rules]
  /\ held \in [Sessions -> SUBSET Rules]
  /\ number \in [Sessions -> Nat]
  /\ applied \subseteq [rule: Rules, revision: Nat]

Init ==
  /\ status = [r \in Rules |-> "absent"]
  /\ revision = [r \in Rules |-> 0]
  /\ lock = [r \in Rules |-> NoSession]
  /\ pc = [s \in Sessions |-> "idle"]
  /\ op = [s \in Sessions |-> "propose"]
  /\ target = [s \in Sessions |-> NoRule]
  /\ matched = [s \in Sessions |-> {}]
  /\ held = [s \in Sessions |-> {}]
  /\ number = [s \in Sessions |-> 0]
  /\ applied = {}

Rows == {r \in Rules : status[r] # "absent"}
Active == {r \in Rules : status[r] = "active"}

-----------------------------------------------------------------------------
(* Proposals, by an operator or out of triage *)

(* Bound: no more proposals under way than there are identities left.       *)
Room == Cardinality({s \in Sessions : pc[s] = "insert"})
          < Cardinality(Rules \ Rows)

(* Mutant: no row, no maximum.                                              *)
ReadRevisionUncoalesced(s) ==
  /\ pc[s] = "idle"
  /\ Room
  /\ \E m \in {revision[r] : r \in Rows} \cup {NoRule} :
       /\ (m = NoRule) = (Rows = {})
       /\ m # NoRule => \A r \in Rows : revision[r] <= m
       /\ number' = [number EXCEPT ![s] = IF m = NoRule THEN NoRule ELSE m + 1]
  /\ pc' = [pc EXCEPT ![s] = "insert"]
  /\ UNCHANGED <<rowVars, lock, op, target, matched, held, applied>>

(* The highest revision is read first, in a statement of its own.           *)
ReadRevision(s) ==
  /\ pc[s] = "idle"
  /\ Room
  /\ \E m \in {0} \cup {revision[r] : r \in Rows} :
       /\ \A r \in Rows : revision[r] <= m
       /\ number' = [number EXCEPT ![s] = m + 1]
  /\ pc' = [pc EXCEPT ![s] = "insert"]
  /\ UNCHANGED <<rowVars, lock, op, target, matched, held, applied>>

(* Mutant: no unique constraint.                                            *)
NeverTaken(n) == FALSE

Taken(n) == \E r \in Rows : revision[r] = n

InsertRule(s, r) ==
  /\ pc[s] = "insert"
  /\ status[r] = "absent"
  /\ ~Taken(number[s])
  /\ status'   = [status EXCEPT ![r] = "proposed"]
  /\ revision' = [revision EXCEPT ![r] = number[s]]
  /\ pc'     = [pc EXCEPT ![s] = "idle"]
  /\ number' = [number EXCEPT ![s] = 0]
  /\ UNCHANGED <<lock, op, target, matched, held, applied>>

(* uq_mapping_rule_revision refuses the second of two equal numbers.        *)
InsertFails(s) ==
  /\ pc[s] = "insert"
  /\ Taken(number[s])
  /\ pc'     = [pc EXCEPT ![s] = "failed"]
  /\ number' = [number EXCEPT ![s] = 0]
  /\ UNCHANGED <<rowVars, lock, op, target, matched, held, applied>>

-----------------------------------------------------------------------------
(* Approval, disabling, rollback *)

Begin(s, o, r) ==
  /\ pc[s] = "idle"
  /\ r \in Rows
  /\ pc' = [pc EXCEPT ![s] = "lockTarget"]
  /\ op' = [op EXCEPT ![s] = o]
  /\ target' = [target EXCEPT ![s] = r]
  /\ UNCHANGED <<rowVars, lock, matched, held, number, applied>>

(* Mutant: an approval takes any row that is not active.                    *)
AcceptsInactive(o) ==
  CASE o = "approve"  -> {"proposed", "approved", "inactive"}
    [] o = "disable"  -> {"active"}
    [] o = "rollback" -> {"inactive", "approved"}

Accepts(o) ==
  CASE o = "approve"  -> {"proposed", "approved"}
    [] o = "disable"  -> {"active"}
    [] o = "rollback" -> {"inactive", "approved"}

(* Mutant: the session is left open.                                        *)
EndKeepsLocks(s, next) ==
  /\ pc'      = [pc EXCEPT ![s] = next]
  /\ op'      = [op EXCEPT ![s] = "propose"]
  /\ target'  = [target EXCEPT ![s] = NoRule]
  /\ matched' = [matched EXCEPT ![s] = {}]
  /\ held'    = [held EXCEPT ![s] = {}]
  /\ UNCHANGED <<lock, number>>

(* The end of a transaction, committed or rolled back.                      *)
End(s, next) ==
  /\ lock'    = [r \in Rules |-> IF lock[r] = s THEN NoSession ELSE lock[r]]
  /\ pc'      = [pc EXCEPT ![s] = next]
  /\ op'      = [op EXCEPT ![s] = "propose"]
  /\ target'  = [target EXCEPT ![s] = NoRule]
  /\ matched' = [matched EXCEPT ![s] = {}]
  /\ held'    = [held EXCEPT ![s] = {}]
  /\ UNCHANGED number

LockTarget(s) ==
  /\ pc[s] = "lockTarget"
  /\ lock[target[s]] = NoSession
  /\ status[target[s]] \in Accepts(op[s])
  /\ lock' = [lock EXCEPT ![target[s]] = s]
  /\ pc' = [pc EXCEPT ![s] = IF op[s] = "disable" THEN "commit" ELSE "select"]
  /\ UNCHANGED <<rowVars, op, target, matched, held, number, applied>>

(* The caller answers 409 or 404.                                           *)
Refuse(s) ==
  /\ pc[s] = "lockTarget"
  /\ lock[target[s]] = NoSession
  /\ status[target[s]] \notin Accepts(op[s])
  /\ End(s, "idle")
  /\ UNCHANGED <<rowVars, applied>>

SelectActive(s) ==
  /\ pc[s] = "select"
  /\ matched' = [matched EXCEPT ![s] = Active]
  /\ pc' = [pc EXCEPT ![s] = "lockActive"]
  /\ UNCHANGED <<rowVars, lock, op, target, held, number, applied>>

(* The lock stays, also of a row that is no longer active and passed over.  *)
LockActive(s, r) ==
  /\ pc[s] = "lockActive"
  /\ r \in matched[s]
  /\ lock[r] \in {NoSession, s}
  /\ matched' = [matched EXCEPT ![s] = @ \ {r}]
  /\ lock' = [lock EXCEPT ![r] = s]
  /\ held' = [held EXCEPT ![s] = IF status[r] = "active" THEN @ \cup {r} ELSE @]
  /\ UNCHANGED <<rowVars, pc, op, target, number, applied>>

AllLocked(s) ==
  /\ pc[s] = "lockActive"
  /\ matched[s] = {}
  /\ pc' = [pc EXCEPT ![s] = "commit"]
  /\ UNCHANGED <<rowVars, lock, op, target, matched, held, number, applied>>

(* Mutant: no unique index.                                                 *)
NoConflict(s) == FALSE

(* uq_mapping_rule_active_source, when the target becomes active: a row is  *)
(* in the way unless the flush has deactivated it before.                   *)
Conflict(s) ==
  /\ op[s] # "disable"
  /\ \E r \in Active \ {target[s]} : ~(r \in held[s] /\ r < target[s])

(* Mutant: a rollback leaves its target to be approved once more.           *)
CommitHalfRollback(s) ==
  /\ pc[s] = "commit"
  /\ ~Conflict(s)
  /\ status' = [r \in Rules |->
                  IF r = target[s]
                  THEN CASE op[s] = "disable"  -> "inactive"
                         [] op[s] = "rollback" -> "approved"
                         [] OTHER              -> "active"
                  ELSE IF r \in held[s] THEN "inactive" ELSE status[r]]
  /\ End(s, "idle")
  /\ UNCHANGED <<revision, applied>>

Commit(s) ==
  /\ pc[s] = "commit"
  /\ ~Conflict(s)
  /\ status' = [r \in Rules |->
                  IF r = target[s]
                  THEN IF op[s] = "disable" THEN "inactive" ELSE "active"
                  ELSE IF r \in held[s] THEN "inactive" ELSE status[r]]
  /\ End(s, "idle")
  /\ UNCHANGED <<revision, applied>>

CommitFails(s) ==
  /\ pc[s] = "commit"
  /\ Conflict(s)
  /\ End(s, "failed")
  /\ UNCHANGED <<rowVars, applied>>

(* The caller gets a 500 for an IntegrityError nobody catches.              *)
Answer(s) ==
  /\ pc[s] = "failed"
  /\ pc' = [pc EXCEPT ![s] = "idle"]
  /\ UNCHANGED <<rowVars, lock, op, target, matched, held, number, applied>>

-----------------------------------------------------------------------------
(* A webhook applies the active rule and stores its revision number with    *)
(* the event; it locks nothing.                                             *)
ApplyActive(r) ==
  /\ r \in Active
  /\ applied' = applied \cup {[rule |-> r, revision |-> revision[r]]}
  /\ UNCHANGED <<rowVars, lock, requestVars>>

-----------------------------------------------------------------------------
RequestStep(s) ==
  \/ \E r \in Rules : InsertRule(s, r) \/ LockActive(s, r)
  \/ InsertFails(s) \/ LockTarget(s) \/ Refuse(s) \/ SelectActive(s)
  \/ AllLocked(s) \/ Commit(s) \/ CommitFails(s) \/ Answer(s)

Next ==
  \/ \E s \in Sessions :
       \/ ReadRevision(s)
       \/ \E o \in Ops \ {"propose"}, r \in Rules : Begin(s, o, r)
       \/ RequestStep(s)
  \/ \E r \in Rules : ApplyActive(r)

Spec == Init /\ [][Next]_vars

(* A request that has begun runs on; PostgreSQL serves waiting lockers.     *)
Fairness == \A s \in Sessions : SF_vars(RequestStep(s))

FairSpec == Spec /\ Fairness

-----------------------------------------------------------------------------
(* Safety *)

(* At most one revision is active, although neither of two approvals sees   *)
(* what the other is about to activate: the rows they lock differ.          *)
OneActive == \A r, q \in Active : r = q

(* README.md:207: "Historical events therefore remain explainable after a   *)
(* rollback."  The number stored with an event leads to one row, the one    *)
(* that was applied, whatever is proposed concurrently or rolled back later.*)
RevisionIdentifiesRule ==
  \A a \in applied :
    /\ a.rule \in Rows
    /\ \A r \in Rows : revision[r] = a.revision <=> r = a.rule

(* Once deactivated, a revision comes back only by a rollback: an approval  *)
(* that waited for the row's lock looks at the row again.                   *)
InactiveReturnsByRollback ==
  [][\A r \in Rules : status[r] = "inactive" /\ status'[r] = "active" =>
       \E s \in Sessions : pc[s] = "commit" /\ op[s] = "rollback" /\ target[s] = r]_vars

(* Switching revisions leaves no moment without an active one: webhooks     *)
(* fall back to guessing only after a disable.                              *)
SwitchLeavesNoGap ==
  [][Active # {} /\ Active' = {} =>
       \E s \in Sessions : pc[s] = "commit" /\ op[s] = "disable"]_vars

(* Who a request waits for: the owners of the locks it asks for.            *)
AskedFor(s) ==
  CASE pc[s] = "lockTarget" -> {target[s]}
    [] pc[s] = "lockActive" -> matched[s]
    [] OTHER                -> {}

WaitsFor(s) == {t \in Sessions \ {s} : \E r \in AskedFor(s) : lock[r] = t}

(* Requests never wait for each other in a circle, although an approval     *)
(* locks its target first and the active row then (repository.py:431).      *)
NoCircle ==
  \A C \in SUBSET Sessions : C # {} => \E s \in C : WaitsFor(s) \cap C = {}

(* What these rest on: a row that a request is to change is locked by it,   *)
(* and since it has the lock the row has the status it was found in.        *)
OwnsTarget(s) ==
  /\ op[s] # "propose"
  /\ target[s] \in Rules
  /\ lock[target[s]] = s
  /\ status[target[s]] \in Accepts(op[s])

OwnsItsRows(s) ==
  /\ pc[s] = "lockTarget" => op[s] # "propose" /\ target[s] \in Rules
  /\ pc[s] \in {"select", "lockActive", "commit"} => OwnsTarget(s)
  /\ \A r \in held[s] : lock[r] = s /\ status[r] = "active"

MatchedExist == \A s \in Sessions : matched[s] \subseteq Rows

LocksInv ==
  /\ \A s \in Sessions : OwnsItsRows(s)
  /\ \A r \in Rules : lock[r] # NoSession => status[r] # "absent"

RevisionsUnique == \A r, q \in Rows : revision[r] = revision[q] => r = q

AppliedExist ==
  \A a \in applied : a.rule \in Rows /\ revision[a.rule] = a.revision

(* One revision being active, a request asks for one lock beyond its        *)
(* target's; and once it has that lock it asks for nothing more.            *)
AsksOnce(s) ==
  /\ pc[s] # "lockActive" => matched[s] = {}
  /\ pc[s] \in {"select", "lockActive"} => op[s] # "disable"
  /\ \A r, q \in matched[s] : r = q
  /\ \A r \in Rules : lock[r] = s =>
       /\ pc[s] \in {"select", "lockActive", "commit"}
       /\ r # target[s] => matched[s] = {} /\ pc[s] # "select"

AsksInv == \A s \in Sessions : AsksOnce(s)

(* The revision numbers run from one without a gap, and a proposal's is the *)
(* next one or taken by now.                                                *)
GaplessInv ==
  /\ \A r \in Rows : revision[r] >= 1 /\ \A n \in 1..revision[r] : Taken(n)
  /\ \A s \in Sessions : pc[s] = "insert" =>
       /\ number[s] >= 1
       /\ number[s] = 1 \/ Taken(number[s] - 1)

RulesInv == LocksInv /\ OneActive /\ RevisionsUnique /\ AppliedExist

-----------------------------------------------------------------------------
(* Liveness, of FairSpec *)

(* A request that has begun ends.                                           *)
RequestsEnd == \A s \in Sessions : pc[s] # "idle" ~> pc[s] = "idle"

(* README.md:188: "Proposed --> Approval[Authorized approval]".  An approval *)
(* or rollback that nobody interferes with takes effect.                    *)
LoneRequestSucceeds == \A s \in Sessions : pc[s] # "failed"

-----------------------------------------------------------------------------
(* However their locks, rechecks and flushes interleave, requests take      *)
(* effect one after the other, each at its commit: the tables change as if  *)
(* it had been alone with them (repository.py:432).                         *)
Atomic == INSTANCE MappingPromise

RequestsAreAtomic == Atomic!Spec

=============================================================================
