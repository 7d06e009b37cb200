------------------------- MODULE MappingRulesProofs -------------------------
(***************************************************************************)
(* Theorems about MappingRules, for any number of revisions and requests.  *)
(***************************************************************************)
EXTENDS MappingRules, TLAPS

USE MappingRulesAssumption

(* A step keeps the types.                                                  *)
LEMMA TypeStep == TypeOK /\ [Next]_vars => TypeOK'
<1> SUFFICES ASSUME TypeOK, [Next]_vars PROVE TypeOK'
  OBVIOUS
<1> USE DEF TypeOK, Statuses, Ops, rowVars, requestVars
<1>1. ASSUME NEW s \in Sessions, ReadRevision(s) PROVE TypeOK'
  <2>1. PICK m \in {0} \cup {revision[r] : r \in Rows} :
          number' = [number EXCEPT ![s] = m + 1]
    BY <1>1 DEF ReadRevision
  <2>2. m \in Nat
    BY <2>1 DEF Rows
  <2> QED BY <1>1, <2>1, <2>2 DEF ReadRevision
<1>2. ASSUME NEW s \in Sessions, NEW o \in Ops \ {"propose"}, NEW r \in Rules,
             Begin(s, o, r)
      PROVE  TypeOK'
  BY <1>2 DEF Begin
<1>3. ASSUME NEW s \in Sessions, NEW r \in Rules, InsertRule(s, r)
      PROVE  TypeOK'
  BY <1>3 DEF InsertRule
<1>4. ASSUME NEW s \in Sessions, NEW r \in Rules, LockActive(s, r)
      PROVE  TypeOK'
  BY <1>4 DEF LockActive
<1>5. ASSUME NEW s \in Sessions, InsertFails(s) \/ Answer(s) PROVE TypeOK'
  BY <1>5 DEF InsertFails, Answer
<1>6. ASSUME NEW s \in Sessions, LockTarget(s) PROVE TypeOK'
  BY <1>6 DEF LockTarget
<1>7. ASSUME NEW s \in Sessions, Refuse(s) \/ CommitFails(s) PROVE TypeOK'
  BY <1>7 DEF Refuse, CommitFails, End
<1>8. ASSUME NEW s \in Sessions, SelectActive(s) PROVE TypeOK'
  BY <1>8 DEF SelectActive, Active
<1>9. ASSUME NEW s \in Sessions, AllLocked(s) PROVE TypeOK'
  BY <1>9 DEF AllLocked
<1>10. ASSUME NEW s \in Sessions, Commit(s) PROVE TypeOK'
  BY <1>10 DEF Commit, End
<1>11. ASSUME NEW r \in Rules, ApplyActive(r) PROVE TypeOK'
  BY <1>11 DEF ApplyActive
<1>12. CASE UNCHANGED vars
  BY <1>12 DEF vars
<1> HIDE DEF TypeOK, rowVars, requestVars
<1> QED BY <1>1, <1>2, <1>3, <1>4, <1>5, <1>6, <1>7, <1>8, <1>9, <1>10, <1>11,
           <1>12 DEF Next, RequestStep

(* The type invariant.                                                      *)
THEOREM TypeCorrect == Spec => []TypeOK
<1>1. Init => TypeOK
  BY DEF Init, TypeOK, Statuses, Ops
<1> QED BY <1>1, TypeStep, PTL DEF Spec

-----------------------------------------------------------------------------
(* A step of request s: it takes or gives up locks of its own only, and     *)
(* changes no row that another request has locked.                          *)
StepOf(s) ==
  /\ \A r \in Rules : lock[r] \in Sessions \ {s} =>
       lock'[r] = lock[r] /\ status'[r] = status[r]
  /\ \A t \in Sessions \ {s} :
       /\ pc'[t] = pc[t] /\ op'[t] = op[t] /\ target'[t] = target[t]
       /\ held'[t] = held[t]

LEMMA OthersKept ==
  ASSUME TypeOK, LocksInv, NEW s \in Sessions, StepOf(s), OwnsItsRows(s)',
         \A r \in Rules : lock'[r] # NoSession => status'[r] # "absent"
  PROVE  LocksInv'
<1>1. ASSUME NEW t \in Sessions, t # s PROVE OwnsItsRows(t)'
  <2>1. OwnsItsRows(t)
    BY DEF LocksInv
  <2>2. /\ pc'[t] = pc[t] /\ op'[t] = op[t] /\ target'[t] = target[t]
        /\ held'[t] = held[t]
    BY <1>1 DEF StepOf
  <2>3. \A r \in Rules : lock[r] = t => lock'[r] = t /\ status'[r] = status[r]
    BY <1>1 DEF StepOf
  <2>4. OwnsTarget(t) => OwnsTarget(t)'
    BY <2>2, <2>3 DEF OwnsTarget, Accepts
  <2>5. held[t] \subseteq Rules
    BY DEF TypeOK
  <2>6. \A r \in held'[t] : lock'[r] = t /\ status'[r] = "active"
    BY <2>1, <2>2, <2>3, <2>5 DEF OwnsItsRows
  <2> QED BY <2>1, <2>2, <2>4, <2>6 DEF OwnsItsRows
<1> QED BY <1>1 DEF LocksInv

(* No row ever disappears, so what a SELECT has matched is there.           *)
LEMMA MatchedStep ==
  TypeOK /\ MatchedExist /\ [Next]_vars => MatchedExist'
<1> SUFFICES ASSUME TypeOK, MatchedExist, [Next]_vars PROVE MatchedExist'
  OBVIOUS
<1>1. Rows \subseteq Rows'
  BY DEF Next, RequestStep, vars, rowVars, requestVars, Rows, TypeOK, InsertRule,
         Commit, ReadRevision, Begin, LockActive, InsertFails, LockTarget, Refuse,
         SelectActive, AllLocked, CommitFails, Answer, ApplyActive
<1>2. \A s \in Sessions : matched'[s] \subseteq matched[s] \cup Active
  BY DEF Next, RequestStep, vars, rowVars, requestVars, TypeOK, End, InsertRule,
         Commit, ReadRevision, Begin, LockActive, InsertFails, LockTarget, Refuse,
         SelectActive, AllLocked, CommitFails, Answer, ApplyActive
<1>3. Active \subseteq Rows
  BY DEF Active, Rows
<1> QED BY <1>1, <1>2, <1>3 DEF MatchedExist

(* Locks protect what a request has read under them.                        *)
LEMMA LocksStep ==
  TypeOK /\ TypeOK' /\ MatchedExist /\ LocksInv /\ [Next]_vars => LocksInv'
<1> SUFFICES ASSUME TypeOK, TypeOK', MatchedExist, LocksInv, [Next]_vars
             PROVE  LocksInv'
  OBVIOUS
<1> USE DEF rowVars, requestVars
<1>0. \A r \in Rules : lock[r] # NoSession => status[r] # "absent"
  BY DEF LocksInv
<1>1. ASSUME NEW s \in Sessions, ReadRevision(s) PROVE LocksInv'
  <2>1. StepOf(s)
    BY <1>1 DEF ReadRevision, StepOf, TypeOK
  <2>2. OwnsItsRows(s)'
    BY <1>1 DEF ReadRevision, LocksInv, OwnsItsRows, TypeOK
  <2> QED BY <1>0, <1>1, <2>1, <2>2, OthersKept DEF ReadRevision
<1>2. ASSUME NEW s \in Sessions, NEW o \in Ops \ {"propose"}, NEW r \in Rules,
             Begin(s, o, r)
      PROVE  LocksInv'
  <2>1. StepOf(s)
    BY <1>2 DEF Begin, StepOf, TypeOK
  <2>2. OwnsItsRows(s)'
    BY <1>2 DEF Begin, LocksInv, OwnsItsRows, TypeOK, Ops
  <2> QED BY <1>0, <1>2, <2>1, <2>2, OthersKept DEF Begin
<1>3. ASSUME NEW s \in Sessions, NEW r \in Rules, InsertRule(s, r)
      PROVE  LocksInv'
  <2>1. StepOf(s)
    BY <1>0, <1>3 DEF InsertRule, StepOf, TypeOK
  <2>2. OwnsItsRows(s)'
    <3>1. /\ pc'[s] = "idle" /\ held'[s] = held[s] /\ lock' = lock
          /\ status' = [status EXCEPT ![r] = "proposed"]
          /\ status[r] = "absent"
      BY <1>3 DEF InsertRule, TypeOK
    <3>2. \A q \in held[s] : lock[q] = s /\ status[q] = "active" /\ q \in Rules
      BY DEF LocksInv, OwnsItsRows, TypeOK
    <3>3. \A q \in held'[s] : lock'[q] = s /\ status'[q] = "active"
      BY <3>1, <3>2 DEF TypeOK
    <3> QED BY <3>1, <3>3 DEF OwnsItsRows
  <2>3. \A q \in Rules : lock'[q] # NoSession => status'[q] # "absent"
    BY <1>0, <1>3 DEF InsertRule, TypeOK
  <2> QED BY <2>1, <2>2, <2>3, OthersKept
<1>4. ASSUME NEW s \in Sessions, NEW r \in Rules, LockActive(s, r)
      PROVE  LocksInv'
  <2>1. /\ OwnsItsRows(s) /\ pc[s] = "lockActive" /\ lock[r] \in {NoSession, s}
        /\ status[r] # "absent"
    BY <1>4 DEF LocksInv, LockActive, MatchedExist, Rows
  <2>2. /\ lock' = [lock EXCEPT ![r] = s]
        /\ UNCHANGED <<status, pc, op, target>>
    BY <1>4 DEF LockActive
  <2>3. StepOf(s)
    BY <1>4, <2>1 DEF LockActive, StepOf, TypeOK
  <2>4. OwnsTarget(s)'
    BY <2>1, <2>2 DEF OwnsItsRows, OwnsTarget, TypeOK
  <2>5. \A q \in held'[s] : q \in held[s] \/ (q = r /\ status[r] = "active")
    BY <1>4 DEF LockActive, TypeOK
  <2>6. \A q \in held'[s] : lock'[q] = s /\ status'[q] = "active"
    BY <2>1, <2>2, <2>5 DEF OwnsItsRows, TypeOK
  <2>7. OwnsItsRows(s)'
    BY <2>1, <2>2, <2>4, <2>6 DEF OwnsItsRows
  <2>8. \A q \in Rules : lock'[q] # NoSession => status'[q] # "absent"
    BY <1>0, <2>1, <2>2 DEF TypeOK
  <2> QED BY <2>3, <2>7, <2>8, OthersKept
<1>5. ASSUME NEW s \in Sessions, \/ InsertFails(s) \/ Answer(s)
                                \/ SelectActive(s) \/ AllLocked(s)
      PROVE  LocksInv'
  <2>1. /\ UNCHANGED <<status, lock, op, target, held>>
        /\ \/ pc' = [pc EXCEPT ![s] = "failed"]
           \/ pc' = [pc EXCEPT ![s] = "idle"]
           \/ /\ pc[s] \in {"select", "lockActive"}
              /\ \/ pc' = [pc EXCEPT ![s] = "lockActive"]
                 \/ pc' = [pc EXCEPT ![s] = "commit"]
    BY <1>5 DEF InsertFails, Answer, SelectActive, AllLocked
  <2>2. StepOf(s)
    BY <2>1 DEF StepOf, TypeOK
  <2>3. OwnsItsRows(s)'
    BY <2>1 DEF LocksInv, OwnsItsRows, OwnsTarget, TypeOK
  <2> QED BY <1>0, <2>1, <2>2, <2>3, OthersKept
<1>6. ASSUME NEW s \in Sessions, LockTarget(s) PROVE LocksInv'
  <2>0. /\ OwnsItsRows(s) /\ pc[s] = "lockTarget"
        /\ lock[target[s]] = NoSession /\ target[s] \in Rules
        /\ status[target[s]] \in Accepts(op[s]) /\ op[s] # "propose"
        /\ lock' = [lock EXCEPT ![target[s]] = s]
        /\ UNCHANGED <<status, op, target, held>>
    BY <1>6 DEF LocksInv, OwnsItsRows, LockTarget
  <2>1. StepOf(s)
    BY <1>6, <2>0 DEF LockTarget, StepOf, TypeOK
  <2>2. OwnsTarget(s)'
    BY <2>0 DEF OwnsTarget, TypeOK
  <2>3. \A q \in held'[s] : lock'[q] = s /\ status'[q] = "active"
    BY <2>0 DEF OwnsItsRows, TypeOK
  <2>4. OwnsItsRows(s)'
    <3>1. pc'[s] # "lockTarget"
      BY <1>6 DEF LockTarget, TypeOK
    <3> QED BY <2>2, <2>3, <3>1 DEF OwnsItsRows
  <2>5. status[target[s]] # "absent"
    BY <2>0 DEF Accepts, TypeOK, Ops
  <2>6. \A q \in Rules : lock'[q] # NoSession => status'[q] # "absent"
    BY <1>0, <2>0, <2>5 DEF TypeOK
  <2> QED BY <2>1, <2>4, <2>6, OthersKept
<1>7. ASSUME NEW s \in Sessions, Refuse(s) \/ CommitFails(s) PROVE LocksInv'
  <2>1. /\ UNCHANGED status
        /\ End(s, "idle") \/ End(s, "failed")
    BY <1>7 DEF Refuse, CommitFails
  <2>2. StepOf(s) /\ OwnsItsRows(s)'
    BY <2>1 DEF End, StepOf, OwnsItsRows, TypeOK
  <2>3. \A q \in Rules : lock'[q] # NoSession => lock[q] # NoSession
    BY <2>1 DEF End
  <2> QED BY <1>0, <2>1, <2>2, <2>3, OthersKept
<1>8. ASSUME NEW s \in Sessions, Commit(s) PROVE LocksInv'
  <2>0. /\ OwnsItsRows(s) /\ pc[s] = "commit" /\ End(s, "idle")
    BY <1>8 DEF LocksInv, Commit
  <2>1. \A r \in Rules : status'[r] # status[r] => lock[r] = s
    BY <1>8, <2>0 DEF Commit, OwnsItsRows, OwnsTarget
  <2>2. StepOf(s) /\ OwnsItsRows(s)'
    BY <2>0, <2>1 DEF End, StepOf, OwnsItsRows, TypeOK
  <2>3. \A q \in Rules : lock'[q] # NoSession => lock[q] # NoSession
    BY <2>0 DEF End
  <2>4. \A q \in Rules : status[q] # "absent" => status'[q] # "absent"
    BY <1>8 DEF Commit
  <2> QED BY <1>0, <2>2, <2>3, <2>4, OthersKept
<1>9. CASE (\E r \in Rules : ApplyActive(r)) \/ UNCHANGED vars
  BY <1>9 DEF ApplyActive, vars, LocksInv, OwnsItsRows, OwnsTarget
<1> HIDE DEF rowVars, requestVars
<1> QED BY <1>1, <1>2, <1>3, <1>4, <1>5, <1>6, <1>7, <1>8, <1>9
        DEF Next, RequestStep

(* Locks, for every run.                                                    *)
LEMMA LocksHold == Spec => [](TypeOK /\ MatchedExist /\ LocksInv)
<1> DEFINE Inv == TypeOK /\ MatchedExist /\ LocksInv
<1>1. Init => Inv
  BY DEF Init, TypeOK, Statuses, Ops, MatchedExist, LocksInv, OwnsItsRows
<1>2. Inv /\ [Next]_vars => Inv'
  BY TypeStep, MatchedStep, LocksStep
<1> QED BY <1>1, <1>2, PTL DEF Spec

-----------------------------------------------------------------------------
(* What a step may do to the rows                                           *)

LEMMA RowStep ==
  ASSUME TypeOK, [Next]_vars
  PROVE  \/ UNCHANGED rowVars
         \/ \E s \in Sessions, r \in Rules : InsertRule(s, r)
         \/ \E s \in Sessions : Commit(s)
BY DEF Next, RequestStep, vars, rowVars, ReadRevision, Begin, LockActive,
       InsertFails, LockTarget, Refuse, SelectActive, AllLocked, CommitFails,
       Answer, ApplyActive

LEMMA OneActiveStep ==
  TypeOK /\ LocksInv /\ OneActive /\ [Next]_vars => OneActive'
<1> SUFFICES ASSUME TypeOK, LocksInv, OneActive, [Next]_vars
             PROVE  OneActive'
  OBVIOUS
<1>1. CASE UNCHANGED rowVars
  BY <1>1 DEF rowVars, OneActive, Active
<1>2. ASSUME NEW s \in Sessions, NEW r \in Rules, InsertRule(s, r)
      PROVE  OneActive'
  BY <1>2 DEF InsertRule, OneActive, Active, TypeOK
<1>3. ASSUME NEW s \in Sessions, Commit(s) PROVE OneActive'
  <2>1. CASE op[s] = "disable"
    BY <1>3, <2>1 DEF Commit, OneActive, Active
  <2>2. CASE op[s] # "disable"
    <3>1. \A q \in Active \ {target[s]} : q \in held[s]
      BY <1>3, <2>2 DEF Commit, Conflict
    <3>2. \A q \in Rules : status'[q] = "active" => q = target[s]
      BY <1>3, <2>2, <3>1 DEF Commit, Active
    <3> QED BY <3>2 DEF OneActive, Active
  <2> QED BY <2>1, <2>2
<1> QED BY <1>1, <1>2, <1>3, RowStep

(* Two concurrent approvals never both succeed.                             *)
THEOREM AtMostOneActive == Spec => []OneActive
<1>1. Init => OneActive
  BY DEF Init, OneActive, Active
<1> QED BY <1>1, OneActiveStep, LocksHold, PTL DEF Spec

-----------------------------------------------------------------------------
(* The numbers stored with events                                           *)

NumbersInv == RevisionsUnique /\ AppliedExist

LEMMA NumbersStep ==
  TypeOK /\ LocksInv /\ NumbersInv /\ [Next]_vars => NumbersInv'
<1> SUFFICES ASSUME TypeOK, LocksInv, NumbersInv, [Next]_vars
             PROVE  NumbersInv'
  OBVIOUS
<1> USE DEF NumbersInv, RevisionsUnique, AppliedExist, Rows, TypeOK
<1>1. ASSUME NEW s \in Sessions, NEW r \in Rules, InsertRule(s, r)
      PROVE  NumbersInv'
  BY <1>1 DEF InsertRule, Taken
<1>2. ASSUME NEW s \in Sessions, Commit(s) PROVE NumbersInv'
  <2>1. OwnsItsRows(s) /\ pc[s] = "commit"
    BY <1>2 DEF LocksInv, Commit
  <2>2. \A r \in Rules : status'[r] # "absent" <=> status[r] # "absent"
    <3>1. status[target[s]] # "absent"
      BY <2>1 DEF OwnsItsRows, OwnsTarget, Accepts, Ops
    <3>2. \A r \in held[s] : status[r] # "absent"
      BY <2>1 DEF OwnsItsRows
    <3> QED BY <1>2, <3>1, <3>2 DEF Commit
  <2>3. UNCHANGED <<revision, applied>>
    BY <1>2 DEF Commit
  <2> QED BY <2>2, <2>3
<1>3. ASSUME NEW r \in Rules, ApplyActive(r) PROVE NumbersInv'
  BY <1>3 DEF ApplyActive, Active, rowVars
<1>4. CASE UNCHANGED <<status, revision, applied>>
  BY <1>4
<1>5. \/ \E s \in Sessions, r \in Rules : InsertRule(s, r)
      \/ \E s \in Sessions : Commit(s)
      \/ \E r \in Rules : ApplyActive(r)
      \/ UNCHANGED <<status, revision, applied>>
  BY DEF Next, RequestStep, vars, rowVars, ReadRevision, Begin, LockActive,
         InsertFails, LockTarget, Refuse, SelectActive, AllLocked, CommitFails,
         Answer
<1> QED BY <1>1, <1>2, <1>3, <1>4, <1>5

(* The revision number stored with an event leads to the row applied.       *)
THEOREM EventsStayExplainable == Spec => []RevisionIdentifiesRule
<1>1. Init => NumbersInv
  BY DEF Init, NumbersInv, RevisionsUnique, AppliedExist, Rows
<1>2. NumbersInv => RevisionIdentifiesRule
  BY DEF NumbersInv, RevisionsUnique, AppliedExist, RevisionIdentifiesRule
<1> QED BY <1>1, <1>2, NumbersStep, LocksHold, PTL DEF Spec

-----------------------------------------------------------------------------
(* What a step may not do                                                   *)

Reactivates ==
  \A r \in Rules : status[r] = "inactive" /\ status'[r] = "active" =>
    \E s \in Sessions : pc[s] = "commit" /\ op[s] = "rollback" /\ target[s] = r

(* Only a rollback brings back a deactivated revision.                      *)
THEOREM OnlyRollbackReactivates == Spec => InactiveReturnsByRollback
<1>1. TypeOK /\ LocksInv /\ [Next]_vars => [Reactivates]_vars
  <2> SUFFICES ASSUME TypeOK, LocksInv, [Next]_vars PROVE Reactivates
    OBVIOUS
  <2>1. CASE UNCHANGED rowVars
    BY <2>1 DEF rowVars, Reactivates
  <2>2. ASSUME NEW s \in Sessions, NEW r \in Rules, InsertRule(s, r)
        PROVE  Reactivates
    BY <2>2 DEF InsertRule, Reactivates, TypeOK
  <2>3. ASSUME NEW s \in Sessions, Commit(s) PROVE Reactivates
    <3>1. OwnsTarget(s) /\ pc[s] = "commit"
      BY <2>3 DEF LocksInv, OwnsItsRows, Commit
    <3>2. status[target[s]] = "inactive" => op[s] \in {"propose", "rollback"}
      BY <3>1 DEF OwnsTarget, Accepts, TypeOK, Ops
    <3>3. \A r \in Rules : status[r] = "inactive" /\ status'[r] = "active" =>
            r = target[s]
      BY <2>3 DEF Commit
    <3> QED BY <3>1, <3>2, <3>3 DEF Reactivates, OwnsTarget
  <2> QED BY <2>1, <2>2, <2>3, RowStep
<1> QED BY <1>1, LocksHold, PTL DEF Spec, InactiveReturnsByRollback, Reactivates

Gapless ==
  Active # {} /\ Active' = {} =>
    \E s \in Sessions : pc[s] = "commit" /\ op[s] = "disable"

(* Only a disable leaves webhooks without an active revision.               *)
THEOREM SwitchingIsAtomic == Spec => SwitchLeavesNoGap
<1>1. TypeOK /\ LocksInv /\ [Next]_vars => [Gapless]_vars
  <2> SUFFICES ASSUME TypeOK, LocksInv, [Next]_vars PROVE Gapless
    OBVIOUS
  <2>1. CASE UNCHANGED rowVars
    BY <2>1 DEF rowVars, Gapless, Active
  <2>2. ASSUME NEW s \in Sessions, NEW r \in Rules, InsertRule(s, r)
        PROVE  Gapless
    <3>1. \A q \in Rules : status[q] = "active" => status'[q] = "active"
      BY <2>2 DEF InsertRule, TypeOK
    <3> QED BY <3>1 DEF Gapless, Active
  <2>3. ASSUME NEW s \in Sessions, Commit(s) PROVE Gapless
    <3>1. target[s] \in Rules /\ pc[s] = "commit"
      BY <2>3 DEF LocksInv, OwnsItsRows, OwnsTarget, Commit
    <3>2. op[s] # "disable" => status'[target[s]] = "active"
      BY <2>3, <3>1 DEF Commit
    <3> QED BY <3>1, <3>2 DEF Gapless, Active
  <2> QED BY <2>1, <2>2, <2>3, RowStep
<1> QED BY <1>1, LocksHold, PTL DEF Spec, SwitchLeavesNoGap, Gapless

-----------------------------------------------------------------------------
(* Waiting for locks                                                        *)

(* A row that is active is not the target of an approval or a rollback.     *)
LEMMA ActiveTarget ==
  ASSUME TypeOK, LocksInv, NEW t \in Sessions, target[t] \in Active,
         pc[t] \in {"select", "lockActive", "commit"}
  PROVE  op[t] = "disable"
BY DEF LocksInv, OwnsItsRows, OwnsTarget, Accepts, Active, TypeOK, Ops

LEMMA AsksStep ==
  ASSUME TypeOK, OneActive, AsksInv, [Next]_vars
  PROVE  AsksInv'
<1> USE DEF rowVars, requestVars, TypeOK
<1>1. ASSUME NEW s \in Sessions, AsksOnce(s)',
             \A t \in Sessions \ {s} :
               /\ pc'[t] = pc[t] /\ op'[t] = op[t] /\ target'[t] = target[t]
               /\ matched'[t] = matched[t],
             \A r \in Rules : lock'[r] \in {lock[r], s, NoSession}
      PROVE  AsksInv'
  <2> SUFFICES ASSUME NEW t \in Sessions, t # s PROVE AsksOnce(t)'
    BY <1>1 DEF AsksInv
  <2>1. AsksOnce(t)
    BY DEF AsksInv
  <2>2. /\ pc'[t] = pc[t] /\ op'[t] = op[t] /\ target'[t] = target[t]
        /\ matched'[t] = matched[t]
    BY <1>1
  <2>3. \A r \in Rules : lock'[r] = t => lock[r] = t
    BY <1>1
  <2> QED BY <2>1, <2>2, <2>3 DEF AsksOnce
<1>2. ASSUME NEW s \in Sessions, ReadRevision(s) PROVE AsksInv'
  <2>1. AsksOnce(s)'
    BY <1>2 DEF ReadRevision, AsksInv, AsksOnce
  <2> QED BY <1>1, <1>2, <2>1 DEF ReadRevision
<1>3. ASSUME NEW s \in Sessions, NEW o \in Ops \ {"propose"}, NEW r \in Rules,
             Begin(s, o, r)
      PROVE  AsksInv'
  <2>1. AsksOnce(s)'
    BY <1>3 DEF Begin, AsksInv, AsksOnce
  <2> QED BY <1>1, <1>3, <2>1 DEF Begin
<1>4. ASSUME NEW s \in Sessions, NEW r \in Rules, InsertRule(s, r)
      PROVE  AsksInv'
  <2>1. AsksOnce(s)'
    BY <1>4 DEF InsertRule, AsksInv, AsksOnce
  <2> QED BY <1>1, <1>4, <2>1 DEF InsertRule
<1>5. ASSUME NEW s \in Sessions, NEW r \in Rules, LockActive(s, r)
      PROVE  AsksInv'
  <2>1. matched'[s] = {}
    <3>1. \A q \in matched[s] : q = r
      BY <1>5 DEF LockActive, AsksInv, AsksOnce
    <3>2. matched'[s] = matched[s] \ {r}
      BY <1>5 DEF LockActive
    <3> QED BY <3>1, <3>2
  <2>2. AsksOnce(s)'
    BY <1>5, <2>1 DEF LockActive, AsksInv, AsksOnce
  <2> QED BY <1>1, <1>5, <2>2 DEF LockActive
<1>6. ASSUME NEW s \in Sessions, InsertFails(s) \/ Answer(s) PROVE AsksInv'
  <2>1. AsksOnce(s)'
    BY <1>6 DEF InsertFails, Answer, AsksInv, AsksOnce
  <2> QED BY <1>1, <1>6, <2>1 DEF InsertFails, Answer
<1>7. ASSUME NEW s \in Sessions, LockTarget(s) PROVE AsksInv'
  <2>1. AsksOnce(s)'
    BY <1>7 DEF LockTarget, AsksInv, AsksOnce
  <2> QED BY <1>1, <1>7, <2>1 DEF LockTarget
<1>8. ASSUME NEW s \in Sessions, Refuse(s) \/ Commit(s) \/ CommitFails(s)
      PROVE  AsksInv'
  <2>1. End(s, "idle") \/ End(s, "failed")
    BY <1>8 DEF Refuse, Commit, CommitFails
  <2>2. /\ lock' = [r \in Rules |-> IF lock[r] = s THEN NoSession ELSE lock[r]]
        /\ pc'[s] \in {"idle", "failed"} /\ matched'[s] = {}
    BY <2>1 DEF End
  <2>3. \A r \in Rules : lock'[r] # s /\ lock'[r] \in {lock[r], NoSession}
    BY <2>2
  <2>4. AsksOnce(s)'
    BY <2>2, <2>3 DEF AsksOnce
  <2> QED BY <1>1, <2>1, <2>3, <2>4 DEF End
<1>9. ASSUME NEW s \in Sessions, SelectActive(s) PROVE AsksInv'
  <2>1. \A r, q \in Active : r = q
    BY DEF OneActive
  <2>2. AsksOnce(s)'
    BY <1>9, <2>1 DEF SelectActive, AsksInv, AsksOnce
  <2> QED BY <1>1, <1>9, <2>2 DEF SelectActive
<1>10. ASSUME NEW s \in Sessions, AllLocked(s) PROVE AsksInv'
  <2>1. AsksOnce(s)'
    BY <1>10 DEF AllLocked, AsksInv, AsksOnce
  <2> QED BY <1>1, <1>10, <2>1 DEF AllLocked
<1>11. CASE (\E r \in Rules : ApplyActive(r)) \/ UNCHANGED vars
  BY <1>11 DEF ApplyActive, vars, AsksInv, AsksOnce
<1> QED
  BY <1>2, <1>3, <1>4, <1>5, <1>6, <1>7, <1>8, <1>9, <1>10, <1>11
  DEF Next, RequestStep

(* Whoever waits for somebody new waits for one that waits for nobody.      *)
LEMMA NewWaitsEnd ==
  ASSUME NoCircle,
         \A s \in Sessions : \A t \in WaitsFor(s)' :
           t \in WaitsFor(s) \/ WaitsFor(t)' = {}
  PROVE  NoCircle'
<1> SUFFICES ASSUME NEW C \in SUBSET Sessions, C # {},
                    \A s \in C : WaitsFor(s)' \cap C # {}
             PROVE  FALSE
  BY DEF NoCircle
<1>1. \A s \in C : WaitsFor(s) \cap C # {}
  <2> SUFFICES ASSUME NEW s \in C PROVE WaitsFor(s) \cap C # {}
    OBVIOUS
  <2>1. PICK t \in C : t \in WaitsFor(s)'
    OBVIOUS
  <2>2. WaitsFor(t)' # {}
    BY <2>1
  <2> QED BY <2>1, <2>2
<1> QED BY <1>1 DEF NoCircle

(* A request that begins to wait while nobody waits for it.                 *)
LEMMA NewWaiter ==
  ASSUME NoCircle, NEW s \in Sessions,
         \A t \in Sessions : s \notin WaitsFor(t)',
         \A t \in Sessions \ {s} : WaitsFor(t)' \subseteq WaitsFor(t)
  PROVE  NoCircle'
<1> SUFFICES ASSUME NEW C \in SUBSET Sessions, C # {},
                    \A t \in C : WaitsFor(t)' \cap C # {}
             PROVE  FALSE
  BY DEF NoCircle
<1> DEFINE D == C \ {s}
<1>1. D # {}
  <2>1. PICK t \in C : TRUE
    OBVIOUS
  <2>2. PICK u \in C : u \in WaitsFor(t)'
    BY <2>1
  <2> QED BY <2>2
<1>2. \A t \in D : WaitsFor(t) \cap D # {}
  <2> SUFFICES ASSUME NEW t \in D PROVE WaitsFor(t) \cap D # {}
    OBVIOUS
  <2>1. PICK u \in C : u \in WaitsFor(t)'
    OBVIOUS
  <2>2. u # s /\ u \in WaitsFor(t)
    BY <2>1
  <2> QED BY <2>2
<1> QED BY <1>1, <1>2 DEF NoCircle

(* What takes no lock and asks for no new one.                              *)
LEMMA FewerWaits ==
  ASSUME NoCircle,
         \A s \in Sessions : AskedFor(s)' \subseteq AskedFor(s) \cap Rules,
         \A r \in Rules : lock'[r] \in {lock[r], NoSession}
  PROVE  NoCircle'
<1>1. \A s \in Sessions : WaitsFor(s)' \subseteq WaitsFor(s)
  BY DEF WaitsFor
<1> QED BY <1>1, NewWaitsEnd

(* Request s takes a lock, and asks for nothing more then.                  *)
LEMMA LockTaken ==
  ASSUME NoCircle, NEW s \in Sessions, AskedFor(s)' = {},
         \A t \in Sessions : AskedFor(t)' \subseteq AskedFor(t) \cap Rules,
         \A r \in Rules : lock'[r] \in {lock[r], s}
  PROVE  NoCircle'
<1>1. WaitsFor(s)' = {}
  BY DEF WaitsFor
<1>2. ASSUME NEW t \in Sessions, NEW u \in WaitsFor(t)'
      PROVE  u \in WaitsFor(t) \/ u = s
  BY <1>2 DEF WaitsFor
<1> QED BY <1>1, <1>2, NewWaitsEnd

LEMMA AskedForType ==
  ASSUME TypeOK, LocksInv, NEW s \in Sessions
  PROVE  AskedFor(s) \subseteq Rules
BY DEF AskedFor, LocksInv, OwnsItsRows, TypeOK

LEMMA CircleStep ==
  ASSUME TypeOK, TypeOK', LocksInv, LocksInv', OneActive, AsksInv, AsksInv',
         NoCircle, [Next]_vars
  PROVE  NoCircle'
<1> USE DEF rowVars, requestVars
<1>0. \A t \in Sessions : AskedFor(t) \subseteq Rules /\ AskedFor(t)' \subseteq Rules
  <2>1. \A t \in Sessions : AskedFor(t) \subseteq Rules
    BY AskedForType
  <2>2. ASSUME NEW t \in Sessions PROVE AskedFor(t)' \subseteq Rules
    BY DEF AskedFor, LocksInv, OwnsItsRows, TypeOK
  <2> QED BY <2>1, <2>2
<1>1. ASSUME NEW s \in Sessions,
             \/ ReadRevision(s) \/ \E r \in Rules : InsertRule(s, r)
             \/ InsertFails(s) \/ Answer(s) \/ AllLocked(s)
      PROVE  NoCircle'
  <2>1. UNCHANGED <<lock, target, matched>>
    BY <1>1 DEF ReadRevision, InsertRule, InsertFails, Answer, AllLocked
  <2>2. \A t \in Sessions : pc'[t] = pc[t] \/ pc'[t] \notin {"lockTarget", "lockActive"}
    BY <1>1 DEF ReadRevision, InsertRule, InsertFails, Answer, AllLocked, TypeOK
  <2>3. \A t \in Sessions : AskedFor(t)' \subseteq AskedFor(t)
    BY <2>1, <2>2 DEF AskedFor
  <2> QED BY <1>0, <2>1, <2>3, FewerWaits
<1>2. ASSUME NEW s \in Sessions, Refuse(s) \/ Commit(s) \/ CommitFails(s)
      PROVE  NoCircle'
  <2>1. End(s, "idle") \/ End(s, "failed")
    BY <1>2 DEF Refuse, Commit, CommitFails
  <2>2. \A r \in Rules : lock'[r] \in {lock[r], NoSession}
    BY <2>1 DEF End
  <2>3. AskedFor(s)' = {}
    BY <2>1 DEF End, AskedFor, TypeOK
  <2>4. \A t \in Sessions \ {s} : AskedFor(t)' = AskedFor(t)
    BY <2>1 DEF End, AskedFor, TypeOK
  <2> QED BY <1>0, <2>2, <2>3, <2>4, FewerWaits
<1>3. ASSUME NEW s \in Sessions, NEW o \in Ops \ {"propose"}, NEW r \in Rules,
             Begin(s, o, r)
      PROVE  NoCircle'
  <2>1. \A q \in Rules : lock'[q] = lock[q] /\ lock[q] # s
    BY <1>3 DEF Begin, AsksInv, AsksOnce
  <2>2. \A t \in Sessions \ {s} : AskedFor(t)' = AskedFor(t)
    BY <1>3 DEF Begin, AskedFor, TypeOK
  <2>3. \A t \in Sessions : s \notin WaitsFor(t)'
    BY <1>0, <2>1 DEF WaitsFor
  <2>4. \A t \in Sessions \ {s} : WaitsFor(t)' \subseteq WaitsFor(t)
    BY <1>0, <2>1, <2>2 DEF WaitsFor
  <2> QED BY <2>3, <2>4, NewWaiter
<1>4. ASSUME NEW s \in Sessions, LockTarget(s) PROVE NoCircle'
  <2>1. AskedFor(s)' = {}
    BY <1>4 DEF LockTarget, AskedFor, TypeOK
  <2>2. \A t \in Sessions \ {s} : AskedFor(t)' = AskedFor(t)
    BY <1>4 DEF LockTarget, AskedFor, TypeOK
  <2>3. \A q \in Rules : lock'[q] \in {lock[q], s}
    BY <1>4 DEF LockTarget, TypeOK
  <2> QED BY <1>0, <2>1, <2>2, <2>3, LockTaken
<1>5. ASSUME NEW s \in Sessions, NEW r \in Rules, LockActive(s, r)
      PROVE  NoCircle'
  <2>1. matched'[s] = {} /\ pc' = pc /\ pc[s] = "lockActive"
    <3>1. \A q \in matched[s] : q = r
      BY <1>5 DEF LockActive, AsksInv, AsksOnce
    <3>2. matched'[s] = matched[s] \ {r}
      BY <1>5 DEF LockActive, TypeOK
    <3> QED BY <1>5, <3>1, <3>2 DEF LockActive
  <2>2. AskedFor(s)' = {}
    BY <2>1 DEF AskedFor
  <2>3. \A t \in Sessions \ {s} : AskedFor(t)' = AskedFor(t)
    BY <1>5 DEF LockActive, AskedFor, TypeOK
  <2>4. \A q \in Rules : lock'[q] \in {lock[q], s}
    BY <1>5 DEF LockActive, TypeOK
  <2> QED BY <1>0, <2>2, <2>3, <2>4, LockTaken
<1>6. ASSUME NEW s \in Sessions, SelectActive(s) PROVE NoCircle'
  <2>1. /\ UNCHANGED <<lock, status, op, target>> /\ pc[s] = "select"
        /\ AskedFor(s)' = Active
    BY <1>6 DEF SelectActive, AskedFor, TypeOK
  <2>2. \A t \in Sessions \ {s} : AskedFor(t)' = AskedFor(t)
    BY <1>6 DEF SelectActive, AskedFor, TypeOK
  <2>3. \A t \in Sessions \ {s} : WaitsFor(t)' = WaitsFor(t)
    BY <2>1, <2>2 DEF WaitsFor
  <2>4. ASSUME NEW t \in WaitsFor(s)' PROVE WaitsFor(t)' = {}
    <3>1. PICK r \in Active : lock[r] = t
      BY <2>1, <2>4 DEF WaitsFor
    <3>2. r \in Rules /\ t \in Sessions \ {s}
      BY <2>4 DEF WaitsFor, Active
    <3>3. AsksOnce(t) /\ pc[t] \in {"select", "lockActive", "commit"}
      BY <3>1, <3>2 DEF AsksInv, AsksOnce
    <3>4. CASE r = target[t]
      <4>1. op[t] = "disable"
        BY <3>1, <3>2, <3>3, <3>4, ActiveTarget
      <4>2. pc[t] = "commit"
        BY <3>3, <4>1 DEF AsksOnce
      <4> QED BY <2>3, <3>2, <4>2 DEF WaitsFor, AskedFor
    <3>5. CASE r # target[t]
      <4>1. matched[t] = {} /\ pc[t] # "lockTarget"
        BY <3>1, <3>2, <3>3, <3>5 DEF AsksOnce
      <4> QED BY <2>3, <3>2, <4>1 DEF WaitsFor, AskedFor
    <3> QED BY <3>4, <3>5
  <2> QED BY <2>3, <2>4, NewWaitsEnd
<1>7. CASE (\E r \in Rules : ApplyActive(r)) \/ UNCHANGED vars
  <2>1. UNCHANGED <<lock, pc, target, matched>>
    BY <1>7 DEF ApplyActive, vars
  <2>2. \A s \in Sessions : AskedFor(s)' = AskedFor(s)
    BY <2>1 DEF AskedFor
  <2> QED BY <1>0, <2>1, <2>2, FewerWaits
<1> QED
  BY <1>1, <1>2, <1>3, <1>4, <1>5, <1>6, <1>7 DEF Next, RequestStep

(* No number of requests ever waits for each other's row locks in a circle. *)
THEOREM NoDeadlock == Spec => []NoCircle
<1> DEFINE Waits == AsksInv /\ NoCircle
<1>1. Init => Waits
  <2> SUFFICES ASSUME Init PROVE Waits
    OBVIOUS
  <2>1. AsksInv
    BY DEF Init, AsksInv, AsksOnce
  <2>2. \A s \in Sessions : WaitsFor(s) = {}
    BY DEF Init, WaitsFor, AskedFor
  <2> QED BY <2>1, <2>2 DEF NoCircle
<1>2. /\ TypeOK /\ MatchedExist /\ LocksInv /\ OneActive
      /\ (TypeOK /\ MatchedExist /\ LocksInv /\ OneActive)'
      /\ Waits /\ [Next]_vars
      => Waits'
  BY AsksStep, CircleStep
<1>3. Waits => NoCircle
  OBVIOUS
<1> HIDE DEF Waits
<1> QED BY <1>1, <1>2, <1>3, LocksHold, AtMostOneActive, PTL DEF Spec

-----------------------------------------------------------------------------
(* Requests take effect one after the other                                 *)

LEMMA NumberIsNext ==
  ASSUME TypeOK, GaplessInv, NEW s \in Sessions, pc[s] = "insert",
         ~Taken(number[s])
  PROVE  Atomic!IsNext(number[s])
<1> DEFINE n == number[s]
<1>1. n \in Nat /\ n >= 1 /\ (n = 1 \/ Taken(n - 1))
  BY DEF GaplessInv, TypeOK
<1>2. Atomic!Numbers = {revision[r] : r \in Rows}
  BY DEF Atomic!Numbers, Rows
<1>3. n = 1 \/ \E m \in Atomic!Numbers : n = m + 1
  <2>1. CASE n = 1
    BY <2>1
  <2>2. CASE Taken(n - 1)
    <3>1. PICK r \in Rows : revision[r] = n - 1
      BY <2>2 DEF Taken
    <3>2. n - 1 \in Atomic!Numbers
      BY <1>2, <3>1
    <3>3. n = (n - 1) + 1
      BY <1>1
    <3> HIDE DEF n
    <3> QED BY <3>2, <3>3
  <2> QED BY <1>1, <2>1, <2>2
<1>4. ASSUME NEW m \in Atomic!Numbers PROVE m < n
  <2>1. PICK r \in Rows : m = revision[r]
    BY <1>2
  <2>2. m \in Nat /\ \A k \in 1..m : Taken(k)
    BY <2>1 DEF GaplessInv, Rows, TypeOK
  <2> QED BY <1>1, <2>2
<1> QED BY <1>3, <1>4 DEF Atomic!IsNext

LEMMA GaplessStep ==
  ASSUME TypeOK, TypeOK', LocksInv, GaplessInv, [Next]_vars
  PROVE  GaplessInv'
<1> USE DEF rowVars, requestVars
<1>1. ASSUME Rows' = Rows, UNCHANGED revision,
             \A s \in Sessions : pc'[s] = "insert" =>
               pc[s] = "insert" /\ number'[s] = number[s]
      PROVE  GaplessInv'
  <2>1. \A n : Taken(n)' <=> Taken(n)
    BY <1>1 DEF Taken
  <2> QED BY <1>1, <2>1 DEF GaplessInv
<1>2. ASSUME NEW s \in Sessions, ReadRevision(s) PROVE GaplessInv'
  <2>1. UNCHANGED <<status, revision>>
    BY <1>2 DEF ReadRevision
  <2>2. \A n : Taken(n)' <=> Taken(n)
    BY <2>1 DEF Taken, Rows
  <2>3. PICK m \in {0} \cup {revision[r] : r \in Rows} :
          number' = [number EXCEPT ![s] = m + 1]
    BY <1>2 DEF ReadRevision
  <2>4. m \in Nat /\ number'[s] = m + 1 /\ (m = 0 \/ Taken(m))
    BY <2>3 DEF Rows, Taken, TypeOK
  <2>5. number'[s] >= 1 /\ (number'[s] = 1 \/ Taken(number'[s] - 1))
    BY <2>4
  <2>6. \A t \in Sessions \ {s} : pc'[t] = pc[t] /\ number'[t] = number[t]
    BY <1>2, <2>3 DEF ReadRevision, TypeOK
  <2> QED BY <2>1, <2>2, <2>5, <2>6 DEF GaplessInv, Rows
<1>3. ASSUME NEW s \in Sessions, NEW r \in Rules, InsertRule(s, r)
      PROVE  GaplessInv'
  <2> DEFINE n == number[s]
  <2>1. /\ pc[s] = "insert" /\ status[r] = "absent"
        /\ Rows' = Rows \cup {r}
        /\ revision' = [revision EXCEPT ![r] = n]
        /\ pc' = [pc EXCEPT ![s] = "idle"]
        /\ number' = [number EXCEPT ![s] = 0]
    BY <1>3 DEF InsertRule, Rows, TypeOK
  <2>2. r \notin Rows /\ revision'[r] = n /\ n \in Nat
    BY <2>1 DEF Rows, TypeOK
  <2>3. \A q \in Rows : revision'[q] = revision[q]
    BY <2>1, <2>2 DEF Rows, TypeOK
  <2>4. \A k : Taken(k)' <=> Taken(k) \/ k = n
    BY <2>1, <2>2, <2>3 DEF Taken
  <2>5. n >= 1 /\ \A k \in 1..n : Taken(k)'
    <3>1. n >= 1 /\ (n = 1 \/ Taken(n - 1))
      BY <2>1 DEF GaplessInv
    <3>2. \A k \in 1..(n - 1) : Taken(k)
      <4>1. CASE n = 1
        BY <4>1
      <4>2. CASE Taken(n - 1)
        <5>1. PICK q \in Rows : revision[q] = n - 1
          BY <4>2 DEF Taken
        <5> QED BY <5>1 DEF GaplessInv
      <4> QED BY <3>1, <4>1, <4>2
    <3>3. \A k \in 1..n : k = n \/ k \in 1..(n - 1)
      BY <2>2
    <3> HIDE DEF n
    <3> QED BY <2>4, <3>1, <3>2, <3>3
  <2>6. \A q \in Rows' : revision'[q] >= 1 /\ \A k \in 1..revision'[q] : Taken(k)'
    BY <2>1, <2>2, <2>3, <2>4, <2>5 DEF GaplessInv
  <2>7. \A t \in Sessions : pc'[t] = "insert" =>
          pc[t] = "insert" /\ number'[t] = number[t]
    BY <2>1 DEF TypeOK
  <2>8. \A t \in Sessions : pc'[t] = "insert" =>
          /\ number'[t] >= 1
          /\ number'[t] = 1 \/ \E q \in Rows' : revision'[q] = number'[t] - 1
    <3> SUFFICES ASSUME NEW t \in Sessions, pc'[t] = "insert"
                 PROVE  /\ number'[t] >= 1
                        /\ number'[t] = 1 \/ \E q \in Rows' : revision'[q] = number'[t] - 1
      OBVIOUS
    <3>1. /\ number'[t] = number[t] /\ number[t] >= 1
          /\ number[t] = 1 \/ Taken(number[t] - 1)
      BY <2>7 DEF GaplessInv
    <3> QED BY <2>1, <2>3, <3>1 DEF Taken
  <2> HIDE DEF n
  <2> QED BY <2>6, <2>8 DEF GaplessInv, Taken
<1>4. ASSUME NEW s \in Sessions,
             \/ \E o \in Ops \ {"propose"}, r \in Rules : Begin(s, o, r)
             \/ \E r \in Rules : LockActive(s, r)
             \/ InsertFails(s) \/ LockTarget(s) \/ Refuse(s) \/ SelectActive(s)
             \/ AllLocked(s) \/ CommitFails(s) \/ Answer(s)
      PROVE  GaplessInv'
  <2>1. UNCHANGED <<status, revision>>
    BY <1>4
    DEF Begin, LockActive, InsertFails, LockTarget, Refuse, SelectActive,
        AllLocked, CommitFails, Answer
  <2>2. \A t \in Sessions : pc'[t] = "insert" =>
          pc[t] = "insert" /\ number'[t] = number[t]
    BY <1>4
    DEF Begin, LockActive, InsertFails, LockTarget, Refuse, SelectActive,
        AllLocked, CommitFails, Answer, End, TypeOK
  <2> QED BY <1>1, <2>1, <2>2 DEF Rows
<1>5. ASSUME NEW s \in Sessions, Commit(s) PROVE GaplessInv'
  <2>1. OwnsItsRows(s) /\ pc[s] = "commit"
    BY <1>5 DEF LocksInv, Commit
  <2>2. status[target[s]] # "absent" /\ \A r \in held[s] : status[r] # "absent"
    BY <2>1 DEF OwnsItsRows, OwnsTarget, Accepts, Ops, TypeOK
  <2>3. Rows' = Rows
    BY <1>5, <2>2 DEF Commit, Rows
  <2>4. \A t \in Sessions : pc'[t] = "insert" =>
          pc[t] = "insert" /\ number'[t] = number[t]
    BY <1>5 DEF Commit, End, TypeOK
  <2> QED BY <1>1, <1>5, <2>3, <2>4 DEF Commit
<1>6. CASE (\E r \in Rules : ApplyActive(r)) \/ UNCHANGED vars
  BY <1>1, <1>6 DEF ApplyActive, vars, Rows
<1> QED
  BY <1>2, <1>3, <1>4, <1>5, <1>6 DEF Next, RequestStep

(* What a commit does to the rows is what Activate or Disable does.         *)
LEMMA CommitIsAtomic ==
  ASSUME TypeOK, LocksInv, OneActive, NEW s \in Sessions, Commit(s)
  PROVE  Atomic!Next
<1> DEFINE t == target[s]
<1>1. /\ op[s] \in {"approve", "disable", "rollback"} /\ t \in Rules
      /\ status[t] \in Accepts(op[s])
      /\ \A r \in held[s] : status[r] = "active"
  BY DEF LocksInv, OwnsItsRows, OwnsTarget, Commit, TypeOK, Ops
<1>2. UNCHANGED <<revision, applied>>
  BY DEF Commit
<1>3. status' = [r \in Rules |->
                  IF r = t THEN IF op[s] = "disable" THEN "inactive" ELSE "active"
                  ELSE IF r \in held[s] THEN "inactive" ELSE status[r]]
  BY DEF Commit
<1>4. CASE op[s] = "disable"
  <2>1. status[t] = "active"
    BY <1>1, <1>4 DEF Accepts
  <2>2. \A r \in held[s] : r = t
    BY <1>1, <2>1 DEF OneActive, Active, TypeOK
  <2>3. status' = [status EXCEPT ![t] = "inactive"]
    BY <1>3, <1>4, <2>2 DEF TypeOK
  <2>4. Atomic!Disable(t)
    BY <1>2, <2>1, <2>3 DEF Atomic!Disable
  <2> QED BY <1>1, <2>4 DEF Atomic!Next
<1>5. CASE op[s] # "disable"
  <2>1. \A r \in Rules \ {t} : r \in held[s] <=> status[r] = "active"
    BY <1>1, <1>5 DEF Commit, Conflict, Active, TypeOK
  <2>2. status' = [r \in Rules |-> IF r = t THEN "active"
                                   ELSE IF status[r] = "active" THEN "inactive"
                                   ELSE status[r]]
    BY <1>3, <1>5, <2>1
  <2>3. \/ status[t] \in {"proposed", "approved"}
        \/ status[t] \in {"inactive", "approved"}
    BY <1>1, <1>5 DEF Accepts
  <2>4. Atomic!Approve(t) \/ Atomic!Rollback(t)
    BY <1>2, <2>2, <2>3 DEF Atomic!Approve, Atomic!Rollback, Atomic!Activate
  <2> QED BY <1>1, <2>4 DEF Atomic!Next
<1> QED BY <1>4, <1>5

(* Every step of a request changes the tables as one atomic request does,   *)
(* or leaves them alone.                                                    *)
LEMMA StepIsAtomic ==
  ASSUME TypeOK, LocksInv, OneActive, GaplessInv, [Next]_vars
  PROVE  [Atomic!Next]_(Atomic!vars)
<1> USE DEF rowVars, requestVars
<1>1. ASSUME NEW s \in Sessions, NEW r \in Rules, InsertRule(s, r)
      PROVE  Atomic!Next
  <2>1. Atomic!IsNext(number[s])
    BY <1>1, NumberIsNext DEF InsertRule
  <2>2. revision'[r] = number[s]
    BY <1>1 DEF InsertRule, TypeOK
  <2>3. Atomic!Propose(r)
    BY <1>1, <2>1, <2>2 DEF InsertRule, Atomic!Propose
  <2> QED BY <2>3 DEF Atomic!Next
<1>2. ASSUME NEW s \in Sessions, Commit(s) PROVE Atomic!Next
  BY <1>2, CommitIsAtomic
<1>3. ASSUME NEW r \in Rules, ApplyActive(r) PROVE Atomic!Next
  <2>1. Atomic!Apply(r)
    BY <1>3 DEF ApplyActive, Active, Atomic!Apply
  <2> QED BY <2>1 DEF Atomic!Next
<1>4. \/ \E s \in Sessions, r \in Rules : InsertRule(s, r)
      \/ \E s \in Sessions : Commit(s)
      \/ \E r \in Rules : ApplyActive(r)
      \/ UNCHANGED <<status, revision, applied>>
  BY DEF Next, RequestStep, vars, ReadRevision, Begin, LockActive, InsertFails,
         LockTarget, Refuse, SelectActive, AllLocked, CommitFails, Answer
<1>5. UNCHANGED <<status, revision, applied>> => UNCHANGED Atomic!vars
  BY DEF Atomic!vars
<1> QED BY <1>1, <1>2, <1>3, <1>4, <1>5

(* Proposals, approvals, rollbacks and disables of any number of requests   *)
(* change the tables one at a time, as if each had been alone with them.    *)
THEOREM TakesEffectAtOnce == Spec => RequestsAreAtomic
<1>1. Init => Atomic!Init
  BY DEF Init, Atomic!Init
<1>2. Init => GaplessInv
  BY DEF Init, GaplessInv, Rows
<1>3. /\ TypeOK /\ MatchedExist /\ LocksInv /\ GaplessInv /\ TypeOK' /\ [Next]_vars
      => GaplessInv'
  BY GaplessStep
<1>4. /\ TypeOK /\ MatchedExist /\ LocksInv /\ OneActive /\ GaplessInv /\ [Next]_vars
      => [Atomic!Next]_(Atomic!vars)
  BY StepIsAtomic
<1> QED
  BY <1>1, <1>2, <1>3, <1>4, LocksHold, AtMostOneActive, PTL
  DEF Spec, RequestsAreAtomic, Atomic!Spec

=============================================================================
