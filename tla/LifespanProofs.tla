--------------------------- MODULE LifespanProofs ---------------------------
(***************************************************************************)
(* What holds of the life of processes for any number of them, of threads, *)
(* bridges, events, weeks, starts and faults.                              *)
(***************************************************************************)
EXTENDS Lifespan, FiniteSetTheorems, TLAPS

(* The next-state relation with one disjunct per action.                    *)
Step ==
  \/ \E p \in Procs :
       \/ Start(p) \/ StartTasks(p) \/ Put(p) \/ Stop(p) \/ Crash(p)
       \/ BeginJoin(p) \/ EndJoin(p) \/ Exit(p)
       \/ \E S \in SUBSET Bridges : Wake(p, S)
       \/ \E b \in Bridges : Claim(p, b)
       \/ Query(p) \/ Mail(p) \/ MailDropped(p) \/ Sleep(p) \/ SchedulerFails(p)
  \/ \E w \in Workers : CheckRunning(w) \/ Get(w) \/ EndJob(w) \/ Join(w)
  \/ \E e \in Events : Receive(e) \/ Heal(e) \/ Fail(e)
  \/ WeekPasses

LEMMA NextIsStep == Next => Step
BY DEF Next, Step, ProcessStep, SchedulerStep, ThreadStep

-----------------------------------------------------------------------------
(* Types *)

LEMMA InHandType ==
  ASSUME TypeOK, NEW p \in Procs, bridge[p] \in Bridges \/ InHand(p) = {}
  PROVE  InHand(p) \subseteq Bridges \X Weeks
BY DEF TypeOK, InHand

(* A scheduler runs in a process that is up, and is at a bridge between a   *)
(* claim and its mail.                                                      *)
HandsInv ==
  \A p \in Procs :
    /\ sched[p] # "off" => phase[p] = "up"
    /\ sched[p] \in {"query", "mail"} => bridge[p] \in Bridges

LEMMA SentinelsType ==
  ASSUME NEW p \in Procs
  PROVE  Sentinels(p) \in Seq({Copy, Sentinel})
<1>1. IsFiniteSet(Ours(p))
  BY FS_Subset, LifespanAssumption DEF Ours, LifespanAssumption
<1>2. Cardinality(Ours(p)) \in Nat
  BY <1>1, FS_CardinalityType
<1> QED BY <1>2 DEF Sentinels

LEMMA FirstWeek == 0 \in Weeks
BY LifespanAssumption DEF Weeks, LifespanAssumption

LEMMA InitTypes == Init => TypeOK /\ HandsInv
<1> SUFFICES ASSUME Init PROVE TypeOK /\ HandsInv
  OBVIOUS
<1>1. <<>> \in Seq({Copy, Sentinel})
  OBVIOUS
<1> QED BY <1>1, FirstWeek DEF Init, TypeOK, HandsInv, Phases

(* Shared by Stop, Exit, Crash and SchedulerFails.                          *)
LEMMA EndSchedulerTypes ==
  ASSUME TypeOK, HandsInv, NEW p \in Procs, EndScheduler(p)
  PROVE  /\ sched' \in [Procs -> {"off", "asleep", "round", "query", "mail"}]
         /\ period' \in [Procs -> Weeks]
         /\ todo' \in [Procs -> SUBSET Bridges]
         /\ bridge' \in [Procs -> Bridges \cup {None}]
         /\ picked' \in [Procs -> SUBSET Events]
         /\ lost' \subseteq Bridges \X Weeks
         /\ (\A q \in Procs \ {p} : phase'[q] = phase[q]) => HandsInv'
<1>1. InHand(p) \subseteq Bridges \X Weeks
  BY InHandType DEF HandsInv, InHand
<1> QED BY <1>1, FirstWeek DEF EndScheduler, TypeOK, HandsInv

LEMMA EndProcessTypes ==
  ASSUME TypeOK, HandsInv, NEW p \in Procs, EndProcess(p), faults' \in Nat
  PROVE  (TypeOK /\ HandsInv)'
<1>1. <<>> \in Seq({Copy, Sentinel})
  OBVIOUS
<1>2. /\ phase' \in [Procs -> Phases]
      /\ running' \in [Procs -> BOOLEAN]
      /\ queue' \in [Procs -> Seq({Copy, Sentinel})]
      /\ pc' \in [Workers -> {"absent", "check", "get", "job", "gone"}]
      /\ left' \in [Procs -> SUBSET Workers]
  BY <1>1 DEF EndProcess, SetWorkers, TypeOK, Phases
<1> QED
  BY <1>2, EndSchedulerTypes DEF EndProcess, TypeOK, eventVars, outVars, boundVars

LEMMA StepTypes ==
  ASSUME TypeOK, HandsInv, Step
  PROVE  (TypeOK /\ HandsInv)'
<1> USE DEF TypeOK, HandsInv, Phases, processVars, scheduleVars, eventVars,
            outVars, boundVars
<1>1. ASSUME NEW p \in Procs, Start(p) PROVE (TypeOK /\ HandsInv)'
  BY <1>1 DEF Start, SetWorkers
<1>2. ASSUME NEW p \in Procs, StartTasks(p) PROVE (TypeOK /\ HandsInv)'
  BY <1>2 DEF StartTasks
<1>3. ASSUME NEW p \in Procs, Put(p) PROVE (TypeOK /\ HandsInv)'
  BY <1>3 DEF Put
<1>4. ASSUME NEW p \in Procs, Stop(p) PROVE (TypeOK /\ HandsInv)'
  BY <1>4, EndSchedulerTypes DEF Stop
<1>5. ASSUME NEW p \in Procs, Crash(p) PROVE (TypeOK /\ HandsInv)'
  <2>1. faults' \in Nat
    BY <1>5 DEF Crash, Fault
  <2>2. EndProcess(p)
    BY <1>5 DEF Crash
  <2> HIDE DEF TypeOK, HandsInv
  <2> QED BY <2>1, <2>2, EndProcessTypes
<1>6. ASSUME NEW p \in Procs, BeginJoin(p) PROVE (TypeOK /\ HandsInv)'
  <2>1. Sentinels(p) \in Seq({Copy, Sentinel})
    BY SentinelsType
  <2>2. queue[p] \o Sentinels(p) \in Seq({Copy, Sentinel})
    BY <2>1
  <2>3. Ours(p) \subseteq Workers
    BY DEF Ours
  <2> QED BY <1>6, <2>2, <2>3 DEF BeginJoin
<1>7. ASSUME NEW p \in Procs, EndJoin(p) PROVE (TypeOK /\ HandsInv)'
  BY <1>7 DEF EndJoin
<1>8. ASSUME NEW p \in Procs, Exit(p) PROVE (TypeOK /\ HandsInv)'
  BY <1>8, EndProcessTypes DEF Exit
<1>9. ASSUME NEW p \in Procs, NEW S \in SUBSET Bridges, Wake(p, S)
      PROVE  (TypeOK /\ HandsInv)'
  BY <1>9 DEF Wake
<1>10. ASSUME NEW p \in Procs, NEW b \in Bridges, Claim(p, b)
       PROVE  (TypeOK /\ HandsInv)'
  BY <1>10 DEF Claim
<1>11. ASSUME NEW p \in Procs, Query(p) PROVE (TypeOK /\ HandsInv)'
  BY <1>11 DEF Query
<1>12. ASSUME NEW p \in Procs, Mail(p) PROVE (TypeOK /\ HandsInv)'
  BY <1>12 DEF Mail, NextBridge
<1>13. ASSUME NEW p \in Procs, MailDropped(p) PROVE (TypeOK /\ HandsInv)'
  BY <1>13 DEF MailDropped, NextBridge, Fault, InHand
<1>14. ASSUME NEW p \in Procs, Sleep(p) PROVE (TypeOK /\ HandsInv)'
  BY <1>14, FirstWeek DEF Sleep
<1>15. ASSUME NEW p \in Procs, SchedulerFails(p) PROVE (TypeOK /\ HandsInv)'
  BY <1>15, EndSchedulerTypes DEF SchedulerFails, Fault
<1>16. ASSUME NEW w \in Workers, CheckRunning(w) PROVE (TypeOK /\ HandsInv)'
  BY <1>16 DEF CheckRunning, WorkerStep
<1>17. ASSUME NEW w \in Workers, Get(w) PROVE (TypeOK /\ HandsInv)'
  <2>1. HomeOf[w] \in Procs
    BY LifespanAssumption DEF LifespanAssumption
  <2>2. Head(queue[HomeOf[w]]) \in {Copy, Sentinel}
    BY <1>17, <2>1 DEF Get
  <2>3. AfterTaking(Head(queue[HomeOf[w]])) \in {"gone", "job", "check"}
    BY <2>2, LifespanAssumption DEF AfterTaking, LifespanAssumption
  <2>4. Tail(queue[HomeOf[w]]) \in Seq({Copy, Sentinel})
    BY <1>17, <2>1 DEF Get
  <2> QED BY <1>17, <2>1, <2>3, <2>4 DEF Get, WorkerStep
<1>18. ASSUME NEW w \in Workers, EndJob(w) PROVE (TypeOK /\ HandsInv)'
  BY <1>18 DEF EndJob, WorkerStep
<1>19. ASSUME NEW w \in Workers, Join(w) PROVE (TypeOK /\ HandsInv)'
  BY <1>19 DEF Join
<1>20. ASSUME NEW e \in Events, Receive(e) PROVE (TypeOK /\ HandsInv)'
  BY <1>20 DEF Receive
<1>21. ASSUME NEW e \in Events, Heal(e) PROVE (TypeOK /\ HandsInv)'
  BY <1>21 DEF Heal
<1>22. ASSUME NEW e \in Events, Fail(e) PROVE (TypeOK /\ HandsInv)'
  BY <1>22 DEF Fail
<1>23. ASSUME WeekPasses PROVE (TypeOK /\ HandsInv)'
  BY <1>23, LifespanAssumption DEF WeekPasses, Weeks, LifespanAssumption
<1> QED
  BY <1>1, <1>2, <1>3, <1>4, <1>5, <1>6, <1>7, <1>8, <1>9, <1>10, <1>11, <1>12,
     <1>13, <1>14, <1>15, <1>16, <1>17, <1>18, <1>19, <1>20, <1>21, <1>22, <1>23
  DEF Step

(* The tables, the threads and the schedulers keep their types.             *)
THEOREM TypeCorrect == Spec => [](TypeOK /\ HandsInv)
<1>1. TypeOK /\ HandsInv /\ [Next]_vars => (TypeOK /\ HandsInv)'
  <2>1. TypeOK /\ HandsInv /\ UNCHANGED vars => (TypeOK /\ HandsInv)'
    BY DEF vars, processVars, scheduleVars, eventVars, outVars, boundVars,
           TypeOK, HandsInv
  <2> QED BY <2>1, NextIsStep, StepTypes
<1> QED BY <1>1, InitTypes, PTL DEF Spec

-----------------------------------------------------------------------------
(* Digests *)

DigestInv == OneDigestAWeek /\ ClaimsAreAccountedFor

OthersKeepTheirs(p) == \A q \in Procs \ {p} : InHand(q)' = InHand(q)

LEMMA KeptDigests ==
  ASSUME DigestInv, \A p \in Procs : InHand(p)' = InHand(p),
         UNCHANGED <<claims, mails, quiet, lost>>
  PROVE  DigestInv'
<1>1. \A d : HeldBy(d)' = HeldBy(d)
  BY DEF HeldBy
<1> QED
  BY <1>1 DEF DigestInv, OneDigestAWeek, ClaimsAreAccountedFor, Accounted

(* A scheduler that ends, or whose mail is dropped, leaves its digest lost. *)
LEMMA LostDigest ==
  ASSUME TypeOK, DigestInv, NEW p \in Procs, InHand(p)' = {}, OthersKeepTheirs(p),
         lost' = lost \cup InHand(p), UNCHANGED <<claims, mails, quiet>>
  PROVE  DigestInv'
<1> SUFFICES ASSUME NEW d \in Bridges \X Weeks PROVE Accounted(d)'
  BY DEF DigestInv, OneDigestAWeek, ClaimsAreAccountedFor
<1>1. HeldBy(d)' = HeldBy(d) \ {p}
  BY DEF HeldBy, OthersKeepTheirs
<1>2. Accounted(d)
  BY DEF DigestInv, ClaimsAreAccountedFor
<1>3. CASE d \in InHand(p)
  <2>1. HeldBy(d) = {p}
    BY <1>2, <1>3 DEF HeldBy, Accounted
  <2>2. HeldBy(d)' = {}
    BY <1>1, <2>1
  <2>3. d \in lost' /\ d \in claims'
    BY <1>2, <1>3, <2>1 DEF Accounted
  <2>4. ~(mails'[d] > 0) /\ d \notin quiet'
    BY <1>2, <2>1 DEF Accounted
  <2> QED BY <2>2, <2>3, <2>4 DEF Accounted
<1>4. CASE d \notin InHand(p)
  <2>1. HeldBy(d)' = HeldBy(d)
    BY <1>1, <1>4 DEF HeldBy
  <2>2. d \in lost' <=> d \in lost
    BY <1>4
  <2> QED BY <1>2, <2>1, <2>2 DEF Accounted
<1> QED BY <1>3, <1>4

LEMMA EndSchedulerLoses ==
  ASSUME TypeOK, DigestInv, NEW p \in Procs, EndScheduler(p),
         UNCHANGED <<claims, mails, quiet>>
  PROVE  DigestInv'
<1>1. InHand(p)' = {} /\ OthersKeepTheirs(p)
  BY DEF EndScheduler, InHand, OthersKeepTheirs, TypeOK
<1> QED BY <1>1, LostDigest DEF EndScheduler

LEMMA ClaimDigests ==
  ASSUME TypeOK, DigestInv, NEW p \in Procs, NEW b \in Bridges, Claim(p, b)
  PROVE  DigestInv'
<1> DEFINE c == <<b, period[p]>>
<1>1. InHand(p) = {} /\ OthersKeepTheirs(p)
  BY DEF Claim, InHand, OthersKeepTheirs, TypeOK
<1>2. UNCHANGED <<mails, quiet, lost>>
  BY DEF Claim, outVars
<1>3. CASE c \in claims
  <2>1. InHand(p)' = {} /\ claims' = claims
    BY <1>3 DEF Claim, InHand, TypeOK
  <2> QED BY <1>1, <1>2, <2>1, KeptDigests DEF OthersKeepTheirs
<1>4. CASE c \notin claims
  <2>1. InHand(p)' = {c} /\ claims' = claims \cup {c}
    BY <1>4 DEF Claim, InHand, TypeOK
  <2> SUFFICES ASSUME NEW d \in Bridges \X Weeks PROVE Accounted(d)'
    BY <1>2 DEF DigestInv, OneDigestAWeek, ClaimsAreAccountedFor
  <2>2. Accounted(d)
    BY DEF DigestInv, ClaimsAreAccountedFor
  <2>3. HeldBy(d)' = IF d = c THEN HeldBy(d) \cup {p} ELSE HeldBy(d)
    BY <1>1, <2>1 DEF HeldBy, OthersKeepTheirs
  <2>4. CASE d = c
    <3>1. HeldBy(d) = {} /\ ~(mails[d] > 0) /\ d \notin quiet /\ d \notin lost
      BY <1>4, <2>2, <2>4 DEF Accounted
    <3>2. HeldBy(d)' = {p}
      BY <2>3, <2>4, <3>1
    <3> QED BY <1>2, <2>1, <2>4, <3>1, <3>2 DEF Accounted
  <2>5. CASE d # c
    <3>1. d \in claims' <=> d \in claims
      BY <2>1, <2>5
    <3>2. HeldBy(d)' = HeldBy(d)
      BY <2>3, <2>5
    <3> QED BY <1>2, <2>2, <3>1, <3>2 DEF Accounted
  <2> QED BY <2>4, <2>5
<1> QED BY <1>3, <1>4

(* The digest in hand becomes "quiet" or one mail.                          *)
LEMMA DoneDigest ==
  ASSUME TypeOK, DigestInv, NEW p \in Procs, NEW c \in Bridges \X Weeks,
         InHand(p) = {c}, InHand(p)' = {}, OthersKeepTheirs(p),
         UNCHANGED <<claims, lost>>,
         \/ quiet' = quiet \cup {c} /\ mails' = mails
         \/ quiet' = quiet /\ mails' = [mails EXCEPT ![c] = @ + 1]
  PROVE  DigestInv'
<1>1. Accounted(c) /\ p \in HeldBy(c)
  BY DEF DigestInv, ClaimsAreAccountedFor, HeldBy
<1>2. mails[c] = 0
  BY <1>1 DEF Accounted, TypeOK
<1>3. ASSUME NEW d \in Bridges \X Weeks PROVE mails'[d] <= 1 /\ Accounted(d)'
  <2>1. Accounted(d) /\ mails[d] <= 1
    BY DEF DigestInv, ClaimsAreAccountedFor, OneDigestAWeek
  <2>2. HeldBy(d)' = HeldBy(d) \ {p}
    BY DEF HeldBy, OthersKeepTheirs
  <2>3. CASE d = c
    <3>1. HeldBy(d) = {p}
      BY <1>1, <2>3 DEF Accounted
    <3>2. HeldBy(d)' = {}
      BY <2>2, <3>1
    <3>3. d \notin quiet /\ d \notin lost /\ d \in claims
      BY <1>1, <2>3 DEF Accounted
    <3>4. \/ d \in quiet' /\ mails'[d] = 0
          \/ d \notin quiet' /\ mails'[d] = 1
      BY <1>2, <2>3, <3>3 DEF TypeOK
    <3> QED BY <3>2, <3>3, <3>4 DEF Accounted
  <2>4. CASE d # c
    <3>1. HeldBy(d)' = HeldBy(d)
      BY <2>2, <2>4 DEF HeldBy
    <3>2. mails'[d] = mails[d] /\ (d \in quiet' <=> d \in quiet)
      BY <2>4 DEF TypeOK
    <3> QED BY <2>1, <3>1, <3>2 DEF Accounted
  <2> QED BY <2>3, <2>4
<1> QED BY <1>3 DEF DigestInv, ClaimsAreAccountedFor, OneDigestAWeek

LEMMA StepDigests ==
  ASSUME TypeOK, HandsInv, DigestInv, Step
  PROVE  DigestInv'
<1> USE DEF processVars, scheduleVars, eventVars, outVars, boundVars
<1>1. ASSUME NEW p \in Procs, Stop(p) \/ SchedulerFails(p) PROVE DigestInv'
  BY <1>1, EndSchedulerLoses DEF Stop, SchedulerFails
<1>2. ASSUME NEW p \in Procs, Crash(p) \/ Exit(p) PROVE DigestInv'
  BY <1>2, EndSchedulerLoses DEF Crash, Exit, EndProcess
<1>3. ASSUME NEW p \in Procs,
             \/ Start(p) \/ StartTasks(p) \/ Put(p) \/ BeginJoin(p) \/ EndJoin(p)
             \/ \E S \in SUBSET Bridges : Wake(p, S)
             \/ Sleep(p)
      PROVE  DigestInv'
  <2>1. \A q \in Procs : InHand(q)' = InHand(q)
    BY <1>3
    DEF TypeOK, HandsInv, InHand, Start, StartTasks, Put, BeginJoin, EndJoin,
        Wake, Sleep
  <2>2. UNCHANGED <<claims, mails, quiet, lost>>
    BY <1>3 DEF Start, StartTasks, Put, BeginJoin, EndJoin, Wake, Sleep
  <2> QED BY <2>1, <2>2, KeptDigests
<1>4. ASSUME NEW p \in Procs, NEW b \in Bridges, Claim(p, b) PROVE DigestInv'
  BY <1>4, ClaimDigests
<1>5. ASSUME NEW p \in Procs, Query(p) PROVE DigestInv'
  <2> DEFINE c == <<bridge[p], period[p]>>
  <2>1. c \in Bridges \X Weeks /\ InHand(p) = {c}
    BY <1>5 DEF Query, InHand, HandsInv, TypeOK
  <2>2. OthersKeepTheirs(p)
    BY <1>5 DEF Query, InHand, OthersKeepTheirs, TypeOK
  <2>3. UNCHANGED <<claims, lost, mails>>
    BY <1>5 DEF Query
  <2>4. CASE sched'[p] = "round"
    <3>1. InHand(p)' = {} /\ quiet' = quiet \cup {c}
      BY <1>5, <2>4 DEF Query, InHand, TypeOK
    <3> QED BY <2>1, <2>2, <2>3, <3>1, DoneDigest
  <2>5. CASE sched'[p] # "round"
    <3>1. InHand(p)' = InHand(p) /\ quiet' = quiet
      BY <1>5, <2>5 DEF Query, InHand, TypeOK
    <3> QED BY <2>2, <2>3, <3>1, KeptDigests DEF OthersKeepTheirs
  <2> QED BY <2>4, <2>5
<1>6. ASSUME NEW p \in Procs, NextBridge(p)
      PROVE  /\ InHand(p)' = {} /\ OthersKeepTheirs(p)
             /\ InHand(p) = {<<bridge[p], period[p]>>}
             /\ <<bridge[p], period[p]>> \in Bridges \X Weeks
             /\ UNCHANGED <<claims, quiet>>
  BY <1>6 DEF NextBridge, InHand, OthersKeepTheirs, HandsInv, TypeOK
<1>7. ASSUME NEW p \in Procs, Mail(p) PROVE DigestInv'
  <2>1. NextBridge(p)
    BY <1>7 DEF Mail
  <2>2. mails' = [mails EXCEPT ![<<bridge[p], period[p]>>] = @ + 1] /\ lost' = lost
    BY <1>7 DEF Mail
  <2> QED BY <1>6, <2>1, <2>2, DoneDigest
<1>8. ASSUME NEW p \in Procs, MailDropped(p) PROVE DigestInv'
  <2>1. NextBridge(p) /\ lost' = lost \cup InHand(p) /\ UNCHANGED mails
    BY <1>8 DEF MailDropped
  <2> QED BY <1>6, <2>1, LostDigest
<1>9. ASSUME \/ \E w \in Workers :
                  CheckRunning(w) \/ Get(w) \/ EndJob(w) \/ Join(w)
             \/ \E e \in Events : Receive(e) \/ Heal(e) \/ Fail(e)
             \/ WeekPasses
      PROVE  DigestInv'
  <2>1. UNCHANGED <<sched, bridge, period, claims, mails, quiet, lost>>
    BY <1>9
    DEF CheckRunning, Get, EndJob, Join, WorkerStep, Receive, Heal, Fail, WeekPasses
  <2> QED BY <2>1, KeptDigests DEF InHand
<1> QED
  BY <1>1, <1>2, <1>3, <1>4, <1>5, <1>7, <1>8, <1>9 DEF Step

LEMMA InitDigests == Init => DigestInv
<1> SUFFICES ASSUME Init PROVE DigestInv
  OBVIOUS
<1>1. \A d : HeldBy(d) = {}
  BY DEF Init, HeldBy, InHand
<1>2. \A d \in Bridges \X Weeks : mails[d] = 0 /\ Accounted(d)
  BY <1>1 DEF Init, Accounted
<1> QED BY <1>2 DEF DigestInv, OneDigestAWeek, ClaimsAreAccountedFor

LEMMA StutterKeeps ==
  ASSUME TypeOK, HandsInv, DigestInv, UNCHANGED vars
  PROVE  (TypeOK /\ HandsInv /\ DigestInv)'
<1>1. (TypeOK /\ HandsInv)'
  BY DEF vars, processVars, scheduleVars, eventVars, outVars, boundVars, TypeOK,
         HandsInv
<1>2. \A p \in Procs : InHand(p)' = InHand(p)
  BY DEF vars, scheduleVars, InHand
<1> QED BY <1>1, <1>2, KeptDigests DEF vars, outVars

(* However processes race for a week, a bridge gets one digest at most, and *)
(* a claim without a mail is quiet, in hand or lost.                        *)
THEOREM DigestsAreAccountedFor == Spec => [](OneDigestAWeek /\ ClaimsAreAccountedFor)
<1> DEFINE Inv == TypeOK /\ HandsInv /\ DigestInv
<1>1. Init => Inv
  BY InitTypes, InitDigests
<1>2. Inv /\ [Next]_vars => Inv'
  BY NextIsStep, StepTypes, StepDigests, StutterKeeps
<1>3. Inv => OneDigestAWeek /\ ClaimsAreAccountedFor
  BY DEF DigestInv
<1> QED BY <1>1, <1>2, <1>3, PTL DEF Spec

(* The promise to a bridge on its own: one digest a week.                   *)
THEOREM OneDigest == Spec => []OneDigestAWeek
<1>1. OneDigestAWeek /\ ClaimsAreAccountedFor => OneDigestAWeek
  OBVIOUS
<1> QED BY <1>1, DigestsAreAccountedFor, PTL

(* A bridge's week, once it is mailed, found empty or lost, stays what it   *)
(* is: no other process, and no later start of the same one, works on it    *)
(* again (scheduler.py:28).                                                 *)
Settled(d) == mails[d] > 0 \/ d \in quiet \/ d \in lost

Fate(d) == <<mails[d], d \in quiet, d \in lost>>

SettledStays ==
  \A d \in Bridges \X Weeks :
    Settled(d) => Fate(d)' = Fate(d) /\ HeldBy(d)' = {}

FateIsFinal == [][SettledStays]_vars

(* Records only grow.                                                       *)
LEMMA RecordsGrow ==
  ASSUME TypeOK, HandsInv, [Next]_vars
  PROVE  /\ quiet \subseteq quiet' /\ lost \subseteq lost'
         /\ \A d \in Bridges \X Weeks : mails'[d] >= mails[d]
<1>1. \A d \in Bridges \X Weeks : mails[d] \in Nat
  BY DEF TypeOK
<1>2. ASSUME NEW p \in Procs, Mail(p)
      PROVE  /\ UNCHANGED <<quiet, lost>>
             /\ \A d \in Bridges \X Weeks : mails'[d] \in {mails[d], mails[d] + 1}
  BY <1>2 DEF Mail, NextBridge, TypeOK, eventVars
<1>3. ASSUME ~\E p \in Procs : Mail(p)
      PROVE  quiet \subseteq quiet' /\ lost \subseteq lost' /\ mails' = mails
  <2> USE DEF outVars, eventVars
  <2>1. ASSUME NEW p \in Procs, Query(p) \/ MailDropped(p)
        PROVE  quiet \subseteq quiet' /\ lost \subseteq lost' /\ mails' = mails
    BY <2>1 DEF Query, MailDropped, NextBridge
  <2>2. ASSUME NEW p \in Procs, Stop(p) \/ SchedulerFails(p) \/ Crash(p) \/ Exit(p)
        PROVE  quiet \subseteq quiet' /\ lost \subseteq lost' /\ mails' = mails
    BY <2>2 DEF Stop, SchedulerFails, Crash, Exit, EndProcess, EndScheduler
  <2>3. ASSUME \/ \E p \in Procs :
                    \/ Start(p) \/ StartTasks(p) \/ Put(p) \/ BeginJoin(p)
                    \/ EndJoin(p) \/ \E S \in SUBSET Bridges : Wake(p, S)
                    \/ \E b \in Bridges : Claim(p, b)
                    \/ Sleep(p)
               \/ \E w \in Workers : CheckRunning(w) \/ Get(w) \/ EndJob(w) \/ Join(w)
               \/ \E e \in Events : Receive(e) \/ Heal(e) \/ Fail(e)
               \/ WeekPasses
        PROVE  UNCHANGED <<quiet, lost, mails>>
    BY <2>3
    DEF Start, StartTasks, Put, BeginJoin, EndJoin, Wake, Claim, Sleep,
        CheckRunning, Get, EndJob, Join, WorkerStep, Receive, Heal, Fail, WeekPasses
  <2>4. CASE UNCHANGED vars
    BY <2>4 DEF vars
  <2>5. CASE Step
    BY <1>3, <2>1, <2>2, <2>3, <2>5 DEF Step
  <2> QED BY <2>4, <2>5, NextIsStep
<1> QED BY <1>1, <1>2, <1>3

THEOREM FatesAreFinal == Spec => FateIsFinal
<1> DEFINE Inv == TypeOK /\ HandsInv /\ DigestInv
<1>1. Init => Inv
  BY InitTypes, InitDigests
<1>2. Inv /\ [Next]_vars => Inv'
  BY NextIsStep, StepTypes, StepDigests, StutterKeeps
<1>3. Inv /\ Inv' /\ [Next]_vars => [SettledStays]_vars
  <2> SUFFICES ASSUME Inv, Inv', [Next]_vars,
                      NEW d \in Bridges \X Weeks, Settled(d)
               PROVE  Fate(d)' = Fate(d) /\ HeldBy(d)' = {}
    BY DEF SettledStays
  <2>1. /\ quiet \subseteq quiet' /\ lost \subseteq lost'
        /\ mails'[d] >= mails[d]
    BY RecordsGrow
  <2>2. /\ Accounted(d) /\ Accounted(d)' /\ mails[d] <= 1 /\ mails'[d] <= 1
        /\ mails[d] \in Nat /\ mails'[d] \in Nat
    BY DEF DigestInv, OneDigestAWeek, ClaimsAreAccountedFor, TypeOK
  <2>3. CASE mails[d] > 0
    <3>1. mails'[d] = mails[d] /\ mails'[d] > 0
      BY <2>1, <2>2, <2>3
    <3> QED BY <2>2, <2>3, <3>1 DEF Accounted, Fate
  <2>4. CASE d \in quiet
    <3>1. d \in quiet' /\ d \notin lost /\ d \notin lost' /\ HeldBy(d)' = {}
      BY <2>1, <2>2, <2>4 DEF Accounted
    <3>2. ~(mails[d] > 0) /\ ~(mails'[d] > 0)
      BY <2>2, <2>4, <3>1 DEF Accounted
    <3>3. mails'[d] = mails[d]
      BY <2>2, <3>2
    <3> QED BY <2>4, <3>1, <3>3 DEF Fate
  <2>5. CASE d \in lost
    <3>1. d \in lost' /\ d \notin quiet /\ d \notin quiet' /\ HeldBy(d)' = {}
      BY <2>1, <2>2, <2>5 DEF Accounted
    <3>2. ~(mails[d] > 0) /\ ~(mails'[d] > 0)
      BY <2>2, <2>5, <3>1 DEF Accounted
    <3>3. mails'[d] = mails[d]
      BY <2>2, <3>2
    <3> QED BY <2>5, <3>1, <3>3 DEF Fate
  <2> QED BY <2>3, <2>4, <2>5 DEF Settled
<1> QED BY <1>1, <1>2, <1>3, PTL DEF Spec, FateIsFinal

-----------------------------------------------------------------------------
(* What is in a digest *)

(* A valid event that came in and was healed in the week before w.          *)
OnTime(e, w) ==
  Valid(e) /\ born[e] # None /\ healed[e] = born[e] /\ w = born[e] + 1

(* Nothing is dated in the future.                                          *)
PastInv ==
  /\ \A p \in Procs : period[p] <= week
  /\ \A d \in claims : d[2] <= week

(* What a digest picks, and what one has mailed, holds every event that was *)
(* on time for it.                                                          *)
PickInv ==
  /\ \A p \in Procs, e \in Events :
       sched[p] = "mail" /\ bridge[p] = BridgeOf[e] /\ OnTime(e, period[p])
       => e \in picked[p]
  /\ \A e \in Events, w \in Weeks :
       OnTime(e, w) => /\ <<BridgeOf[e], w>> \notin quiet
                       /\ mails[<<BridgeOf[e], w>>] > 0 => <<w, e>> \in mailed

LEMMA PicksSuffice ==
  ASSUME TypeOK, DigestInv, PickInv
  PROVE  LastWeekIsMailed
<1> SUFFICES ASSUME NEW e \in Events, NEW w \in Weeks, OnTime(e, w),
                    <<BridgeOf[e], w>> \in claims
             PROVE  \/ <<w, e>> \in mailed
                    \/ <<BridgeOf[e], w>> \in lost
                    \/ HeldBy(<<BridgeOf[e], w>>) # {}
  BY DEF LastWeekIsMailed, OnTime
<1>1. <<BridgeOf[e], w>> \in Bridges \X Weeks
  BY LifespanAssumption DEF LifespanAssumption
<1>2. Accounted(<<BridgeOf[e], w>>)
  BY <1>1 DEF DigestInv, ClaimsAreAccountedFor
<1> QED BY <1>2 DEF Accounted, PickInv

(* The steps that date nothing.                                             *)
LEMMA KeptPast ==
  ASSUME TypeOK, PastInv, UNCHANGED <<period, claims, week>>
  PROVE  PastInv'
BY DEF PastInv

LEMMA StepPast ==
  ASSUME TypeOK, HandsInv, PastInv, Step
  PROVE  PastInv'
<1> USE DEF processVars, scheduleVars, eventVars, outVars, boundVars
<1>0. week \in Nat /\ week \in Weeks /\ 0 <= week
  BY LifespanAssumption DEF TypeOK, Weeks, LifespanAssumption
<1>1. ASSUME NEW p \in Procs,
             EndScheduler(p) \/ Sleep(p) \/ \E S \in SUBSET Bridges : Wake(p, S),
             UNCHANGED <<claims, week>>
      PROVE  PastInv'
  <2>1. \A q \in Procs : period'[q] \in {period[q], 0, week}
    BY <1>1 DEF EndScheduler, Sleep, Wake, TypeOK
  <2>2. week <= week
    BY <1>0
  <2> QED BY <1>0, <1>1, <2>1, <2>2 DEF PastInv
<1>2. ASSUME NEW p \in Procs, NEW b \in Bridges, Claim(p, b) PROVE PastInv'
  BY <1>2 DEF Claim, PastInv, TypeOK
<1>3. ASSUME WeekPasses PROVE PastInv'
  <2>1. \A n \in Weeks : n <= week => n <= week + 1
    BY <1>0, LifespanAssumption DEF Weeks, LifespanAssumption
  <2>2. \A d \in claims : d[2] \in Weeks
    BY DEF TypeOK
  <2> QED BY <1>3, <2>1, <2>2 DEF WeekPasses, PastInv, TypeOK
<1>4. ASSUME NEW p \in Procs,
             Stop(p) \/ SchedulerFails(p) \/ Crash(p) \/ Exit(p) \/ Sleep(p)
             \/ \E S \in SUBSET Bridges : Wake(p, S)
      PROVE  PastInv'
  <2>1. /\ EndScheduler(p) \/ Sleep(p) \/ \E S \in SUBSET Bridges : Wake(p, S)
        /\ UNCHANGED <<claims, week>>
    BY <1>4 DEF Stop, SchedulerFails, Crash, Exit, EndProcess, Sleep, Wake
  <2> QED BY <1>1, <2>1
<1>5. ASSUME \/ \E p \in Procs : \/ Start(p) \/ StartTasks(p) \/ Put(p)
                                 \/ BeginJoin(p) \/ EndJoin(p)
                                 \/ Query(p) \/ Mail(p) \/ MailDropped(p)
             \/ \E w \in Workers :
                  CheckRunning(w) \/ Get(w) \/ EndJob(w) \/ Join(w)
             \/ \E e \in Events : Receive(e) \/ Heal(e) \/ Fail(e)
      PROVE  PastInv'
  <2>1. UNCHANGED <<period, claims, week>>
    BY <1>5
    DEF Start, StartTasks, Put, BeginJoin, EndJoin, Query, Mail, MailDropped,
        NextBridge, CheckRunning, Get, EndJob, Join, WorkerStep, Receive, Heal, Fail
  <2> QED BY <2>1, KeptPast
<1> QED BY <1>2, <1>3, <1>4, <1>5 DEF Step

(* The steps that leave events and digests alone, or only end a scheduler.  *)
LEMMA KeptPicks ==
  ASSUME TypeOK, PickInv, UNCHANGED <<born, healed, failed, quiet, mails, mailed>>,
         \A p \in Procs : \/ sched'[p] # "mail"
                          \/ /\ sched'[p] = sched[p] /\ bridge'[p] = bridge[p]
                             /\ period'[p] = period[p] /\ picked'[p] = picked[p]
  PROVE  PickInv'
BY DEF PickInv, OnTime, Valid

LEMMA QueryPicks ==
  ASSUME TypeOK, HandsInv, PickInv, NEW p \in Procs, Query(p)
  PROVE  PickInv'
<1> DEFINE found == {e \in Events : /\ BridgeOf[e] = bridge[p]
                                    /\ Valid(e)
                                    /\ InDigest(e, period[p])}
<1>1. \A m, n \in Nat : n = m + 1 => m + 1 >= n
  OBVIOUS
<1>2. \A e \in Events : born[e] # None => born[e] \in Nat
  BY LifespanAssumption DEF TypeOK, Weeks, LifespanAssumption
<1>3. ASSUME NEW e \in Events, BridgeOf[e] = bridge[p], OnTime(e, period[p])
      PROVE  e \in found
  <2>1. period[p] \in Nat
    BY LifespanAssumption DEF TypeOK, Weeks, LifespanAssumption
  <2>2. InDigest(e, period[p])
    BY <1>1, <1>2, <1>3, <2>1 DEF OnTime, InDigest
  <2> QED BY <1>3, <2>2 DEF OnTime
<1>4. UNCHANGED <<born, healed, failed, mails, mailed, period>>
  BY DEF Query, eventVars
<1>5. picked' = [picked EXCEPT ![p] = found]
  BY DEF Query
<1>6. \A q \in Procs \ {p} : /\ sched'[q] = sched[q] /\ bridge'[q] = bridge[q]
                             /\ picked'[q] = picked[q]
  BY DEF Query, TypeOK
<1>7. /\ found = {} => sched'[p] = "round" /\ quiet' = quiet \cup {<<bridge[p], period[p]>>}
      /\ found # {} => bridge' = bridge /\ quiet' = quiet
      /\ picked'[p] = found
  BY <1>5 DEF Query, TypeOK
<1>8. \A e \in Events : \A w : OnTime(e, w)' <=> OnTime(e, w)
  BY <1>4 DEF OnTime, Valid
<1>9. ASSUME NEW q \in Procs, NEW e \in Events,
             sched'[q] = "mail", bridge'[q] = BridgeOf[e], OnTime(e, period[q])'
      PROVE  e \in picked'[q]
  <2>1. CASE q = p
    BY <1>3, <1>4, <1>7, <1>8, <1>9, <2>1
  <2>2. CASE q # p
    BY <1>4, <1>6, <1>8, <1>9, <2>2 DEF PickInv
  <2> QED BY <2>1, <2>2
<1>10. ASSUME NEW e \in Events, NEW w \in Weeks, OnTime(e, w)'
       PROVE  /\ <<BridgeOf[e], w>> \notin quiet'
              /\ mails'[<<BridgeOf[e], w>>] > 0 => <<w, e>> \in mailed'
  <2>1. OnTime(e, w) /\ <<BridgeOf[e], w>> \notin quiet
    BY <1>8, <1>10 DEF PickInv
  <2>2. <<BridgeOf[e], w>> \notin quiet'
    BY <1>3, <1>7, <2>1
  <2> QED BY <1>4, <2>1, <2>2 DEF PickInv
<1> HIDE DEF found
<1> QED BY <1>9, <1>10 DEF PickInv

LEMMA MailPicks ==
  ASSUME TypeOK, HandsInv, PickInv, NEW p \in Procs, Mail(p)
  PROVE  PickInv'
<1>1. UNCHANGED <<born, healed, failed, period, quiet>>
  BY DEF Mail, NextBridge, eventVars
<1>2. \A q \in Procs : \/ sched'[q] # "mail"
                       \/ /\ sched'[q] = sched[q] /\ bridge'[q] = bridge[q]
                          /\ picked'[q] = picked[q]
  BY DEF Mail, NextBridge, TypeOK
<1>3. \A e \in Events : \A w : OnTime(e, w)' <=> OnTime(e, w)
  BY <1>1 DEF OnTime, Valid
<1>4. ASSUME NEW e \in Events, NEW w \in Weeks, OnTime(e, w)',
             mails'[<<BridgeOf[e], w>>] > 0
      PROVE  <<w, e>> \in mailed'
  <2>1. <<BridgeOf[e], w>> \in Bridges \X Weeks
    BY LifespanAssumption DEF LifespanAssumption
  <2>2. CASE BridgeOf[e] = bridge[p] /\ w = period[p]
    <3>1. e \in picked[p]
      BY <1>3, <1>4, <2>2 DEF PickInv, Mail, NextBridge
    <3> QED BY <2>2, <3>1 DEF Mail
  <2>3. CASE ~(BridgeOf[e] = bridge[p] /\ w = period[p])
    <3>1. mails'[<<BridgeOf[e], w>>] = mails[<<BridgeOf[e], w>>]
      BY <2>1, <2>3 DEF Mail, TypeOK
    <3> QED BY <1>3, <1>4, <3>1 DEF PickInv, Mail
  <2> QED BY <2>2, <2>3
<1>5. \A q \in Procs, e \in Events :
        sched'[q] = "mail" /\ bridge'[q] = BridgeOf[e] /\ OnTime(e, period[q])'
        => e \in picked'[q]
  BY <1>1, <1>2, <1>3 DEF PickInv
<1> QED BY <1>1, <1>3, <1>4, <1>5 DEF PickInv

(* No digest of the coming week is claimed yet.                             *)
LEMMA HealPicks ==
  ASSUME TypeOK, HandsInv, DigestInv, PastInv, PickInv, NEW e \in Events,
         Receive(e) \/ Heal(e) \/ Fail(e)
  PROVE  PickInv'
<1>1. UNCHANGED <<sched, bridge, period, picked, claims, mails, mailed, quiet, week>>
  BY DEF Receive, Heal, Fail, scheduleVars, outVars
<1>2. ASSUME NEW f \in Events, NEW w \in Weeks, OnTime(f, w)', ~OnTime(f, w)
      PROVE  w = week + 1
  <2>1. f = e
    BY <1>2 DEF Receive, Heal, Fail, OnTime, Valid, TypeOK
  <2>2. CASE Heal(e)
    BY <1>2, <2>1, <2>2 DEF Heal, OnTime, TypeOK
  <2>3. CASE Receive(e)
    BY <1>2, <2>1, <2>3 DEF Receive, OnTime, TypeOK
  <2>4. CASE Fail(e)
    BY <1>2, <2>4 DEF Fail, OnTime, Valid
  <2> QED BY <2>2, <2>3, <2>4
<1>3. week \in Nat
  BY LifespanAssumption DEF TypeOK, Weeks, LifespanAssumption
<1>4. \A n \in Nat : n = week + 1 => ~(n <= week)
  BY <1>3
<1>5. ASSUME NEW f \in Events, NEW w \in Weeks, OnTime(f, w)', ~OnTime(f, w)
      PROVE  /\ <<BridgeOf[f], w>> \notin quiet
             /\ ~(mails[<<BridgeOf[f], w>>] > 0)
             /\ \A q \in Procs : period[q] # w
  <2>1. w \in Nat /\ w = week + 1
    BY <1>2, <1>5, LifespanAssumption DEF Weeks, LifespanAssumption
  <2>2. <<BridgeOf[f], w>> \in Bridges \X Weeks
    BY LifespanAssumption DEF LifespanAssumption
  <2>3. <<BridgeOf[f], w>> \notin claims
    BY <1>4, <2>1 DEF PastInv
  <2>4. Accounted(<<BridgeOf[f], w>>)
    BY <2>2 DEF DigestInv, ClaimsAreAccountedFor
  <2> QED BY <1>4, <2>1, <2>3, <2>4 DEF Accounted, PastInv
<1>6. ASSUME NEW q \in Procs, NEW f \in Events, sched'[q] = "mail",
             bridge'[q] = BridgeOf[f], OnTime(f, period[q])'
      PROVE  f \in picked'[q]
  <2>1. period[q] \in Weeks
    BY DEF TypeOK
  <2> QED BY <1>1, <1>5, <1>6, <2>1 DEF PickInv
<1>7. ASSUME NEW f \in Events, NEW w \in Weeks, OnTime(f, w)'
      PROVE  /\ <<BridgeOf[f], w>> \notin quiet'
             /\ mails'[<<BridgeOf[f], w>>] > 0 => <<w, f>> \in mailed'
  BY <1>1, <1>5, <1>7 DEF PickInv
<1> QED BY <1>6, <1>7 DEF PickInv

LEMMA StepPicks ==
  ASSUME TypeOK, HandsInv, DigestInv, PastInv, PickInv, Step
  PROVE  PickInv'
<1> USE DEF processVars, scheduleVars, eventVars, outVars, boundVars
<1>1. ASSUME NEW p \in Procs,
             \/ Start(p) \/ StartTasks(p) \/ Put(p) \/ BeginJoin(p) \/ EndJoin(p)
             \/ \E S \in SUBSET Bridges : Wake(p, S)
             \/ \E b \in Bridges : Claim(p, b)
             \/ MailDropped(p) \/ Sleep(p)
      PROVE  PickInv'
  <2>1. UNCHANGED <<born, healed, failed, quiet, mails, mailed>>
    BY <1>1
    DEF Start, StartTasks, Put, BeginJoin, EndJoin, Wake, Claim, MailDropped,
        NextBridge, Sleep
  <2>2. \A q \in Procs : \/ sched'[q] # "mail"
                         \/ /\ sched'[q] = sched[q] /\ bridge'[q] = bridge[q]
                            /\ period'[q] = period[q] /\ picked'[q] = picked[q]
    BY <1>1
    DEF TypeOK, Start, StartTasks, Put, BeginJoin, EndJoin, Wake, Claim,
        MailDropped, NextBridge, Sleep
  <2> QED BY <2>1, <2>2, KeptPicks
<1>2. ASSUME NEW p \in Procs, Stop(p) \/ SchedulerFails(p) \/ Crash(p) \/ Exit(p)
      PROVE  PickInv'
  <2>1. EndScheduler(p) /\ UNCHANGED <<born, healed, failed, quiet, mails, mailed>>
    BY <1>2 DEF Stop, SchedulerFails, Crash, Exit, EndProcess
  <2>2. \A q \in Procs : \/ sched'[q] # "mail"
                         \/ /\ sched'[q] = sched[q] /\ bridge'[q] = bridge[q]
                            /\ period'[q] = period[q] /\ picked'[q] = picked[q]
    BY <2>1 DEF EndScheduler, TypeOK
  <2> QED BY <2>1, <2>2, KeptPicks
<1>3. ASSUME \/ \E w \in Workers :
                  CheckRunning(w) \/ Get(w) \/ EndJob(w) \/ Join(w)
             \/ WeekPasses
      PROVE  PickInv'
  <2>1. UNCHANGED <<born, healed, failed, quiet, mails, mailed, sched, bridge, period, picked>>
    BY <1>3 DEF CheckRunning, Get, EndJob, Join, WorkerStep, WeekPasses
  <2> QED BY <2>1, KeptPicks
<1> QED
  BY <1>1, <1>2, <1>3, QueryPicks, MailPicks, HealPicks DEF Step

(* A digest of a week holds every event that came in and was healed in the  *)
(* week before it.                                                          *)
THEOREM DigestsHoldLastWeek == Spec => []LastWeekIsMailed
<1> DEFINE Inv == TypeOK /\ HandsInv /\ DigestInv /\ PastInv /\ PickInv
<1>1. Init => Inv
  <2> SUFFICES ASSUME Init PROVE PastInv /\ PickInv
    BY InitTypes, InitDigests
  <2> QED BY DEF Init, PastInv, PickInv, OnTime
<1>2. Inv /\ [Next]_vars => Inv'
  <2> SUFFICES ASSUME Inv, [Next]_vars PROVE Inv'
    OBVIOUS
  <2>1. CASE Step
    BY <2>1, StepTypes, StepDigests, StepPast, StepPicks
  <2>2. CASE UNCHANGED vars
    <3>1. UNCHANGED <<born, healed, failed, quiet, mails, mailed, sched, bridge, period,
                      picked, claims, week>>
      BY <2>2 DEF vars, scheduleVars, eventVars, outVars
    <3> QED BY <2>2, <3>1, StutterKeeps, KeptPast, KeptPicks
  <2> QED BY <2>1, <2>2, NextIsStep
<1>3. Inv => LastWeekIsMailed
  BY PicksSuffice
<1> QED BY <1>1, <1>2, <1>3, PTL DEF Spec

-----------------------------------------------------------------------------
(* The queue of a pool that is stopped *)

SentinelsOf(s) == {n \in DOMAIN s : s[n] = Sentinel}

(* A queue's sentinels can be counted.                                      *)
LEMMA SentinelsAreFinite ==
  ASSUME NEW s \in Seq({Copy, Sentinel})
  PROVE  /\ IsFiniteSet(SentinelsOf(s))
         /\ Cardinality(SentinelsOf(s)) \in Nat
<1>1. SentinelsOf(s) \subseteq 1..Len(s) /\ Len(s) \in Int
  BY DEF SentinelsOf
<1>2. IsFiniteSet(1..Len(s))
  BY <1>1, FS_Interval
<1>3. IsFiniteSet(SentinelsOf(s))
  BY <1>1, <1>2, FS_Subset
<1> QED BY <1>3, FS_CardinalityType

(* Who takes the head of a queue takes one sentinel, or none.               *)
LEMMA TakingCounts ==
  ASSUME NEW s \in Seq({Copy, Sentinel}), s # <<>>
  PROVE  Cardinality(SentinelsOf(Tail(s))) =
           Cardinality(SentinelsOf(s)) - (IF Head(s) = Sentinel THEN 1 ELSE 0)
<1> DEFINE Rest == SentinelsOf(s) \ {1}
           T == SentinelsOf(Tail(s))
           f == [n \in Rest |-> n - 1]
<1>1. /\ Len(s) \in Nat \ {0}
      /\ Tail(s) \in Seq({Copy, Sentinel})
      /\ Len(Tail(s)) = Len(s) - 1
      /\ \A n \in 1..Len(Tail(s)) : Tail(s)[n] = s[n + 1]
      /\ Head(s) = s[1]
      /\ DOMAIN s = 1..Len(s) /\ DOMAIN Tail(s) = 1..Len(Tail(s))
  OBVIOUS
<1>2. \A n \in Rest : n \in Int /\ n - 1 \in T
  BY <1>1 DEF SentinelsOf
<1>3. \A n \in T : n \in Int /\ n + 1 \in Rest /\ (n + 1) - 1 = n
  BY <1>1 DEF SentinelsOf
<1>4. f \in [Rest -> T]
  BY <1>2
<1>5. f \in Injection(Rest, T)
  <2>1. \A m, n \in Rest : f[m] = f[n] => m = n
    BY <1>2
  <2> QED BY <1>4, <2>1 DEF Injection, IsInjective
<1>6. f \in Surjection(Rest, T)
  BY <1>3, <1>4 DEF Surjection
<1>7. ExistsBijection(Rest, T)
  BY <1>5, <1>6 DEF ExistsBijection, Bijection
<1>8. /\ IsFiniteSet(Rest)
      /\ Cardinality(Rest) = IF 1 \in SentinelsOf(s)
                             THEN Cardinality(SentinelsOf(s)) - 1
                             ELSE Cardinality(SentinelsOf(s))
  BY SentinelsAreFinite, FS_RemoveElement
<1>9. Cardinality(T) = Cardinality(Rest)
  BY <1>7, <1>8, FS_Bijection
<1>10. 1 \in SentinelsOf(s) <=> Head(s) = Sentinel
  BY <1>1 DEF SentinelsOf
<1>11. Cardinality(SentinelsOf(s)) \in Nat
  BY SentinelsAreFinite
<1> HIDE DEF T, Rest
<1> QED BY <1>8, <1>9, <1>10, <1>11 DEF T

(* Who are a process's own threads, and the waiting ones of them.           *)
Waiting(p) == {w \in Ours(p) : pc[w] = "get"}

LEMMA ThreadsAreFinite ==
  ASSUME NEW p \in Procs
  PROVE  /\ IsFiniteSet(Ours(p)) /\ Cardinality(Ours(p)) \in Nat
         /\ \A W \in SUBSET Ours(p) :
              /\ IsFiniteSet(W) /\ Cardinality(W) \in Nat
              /\ Cardinality(W) <= Cardinality(Ours(p))
<1>1. IsFiniteSet(Ours(p))
  BY FS_Subset, LifespanAssumption DEF Ours, LifespanAssumption
<1> QED BY <1>1, FS_Subset, FS_CardinalityType

(* One sentinel for every thread of the process is put in.                  *)
LEMMA SentinelsForAll ==
  ASSUME NEW p \in Procs, NEW s \in Seq({Copy, Sentinel})
  PROVE  Cardinality(Ours(p)) <= Cardinality(SentinelsOf(s \o Sentinels(p)))
<1> DEFINE k == Cardinality(Ours(p))
           q == s \o Sentinels(p)
           f == [n \in 1..k |-> Len(s) + n]
<1>1. k \in Nat
  BY ThreadsAreFinite
<1>2. /\ Sentinels(p) \in Seq({Copy, Sentinel}) /\ Len(Sentinels(p)) = k
      /\ \A n \in 1..k : Sentinels(p)[n] = Sentinel
  BY <1>1, SentinelsType DEF Sentinels
<1> HIDE DEF k
<1>3. /\ q \in Seq({Copy, Sentinel}) /\ Len(q) = Len(s) + k /\ Len(s) \in Nat
      /\ \A n \in 1..k : q[Len(s) + n] = Sentinel
  BY <1>1, <1>2
<1>4. \A n \in 1..k : Len(s) + n \in SentinelsOf(q)
  BY <1>1, <1>3 DEF SentinelsOf
<1>5. f \in Injection(1..k, SentinelsOf(q))
  <2>1. f \in [1..k -> SentinelsOf(q)]
    BY <1>4
  <2>2. \A m, n \in 1..k : f[m] = f[n] => m = n
    BY <1>1, <1>3
  <2> QED BY <2>1, <2>2 DEF Injection, IsInjective
<1>6. IsFiniteSet(SentinelsOf(q))
  BY <1>3, SentinelsAreFinite
<1>7. Cardinality(1..k) <= Cardinality(SentinelsOf(q))
  BY <1>5, <1>6, FS_Injection
<1>8. Cardinality(1..k) = k
  BY <1>1, FS_Interval
<1> QED BY <1>7, <1>8 DEF k

(* A pool that is stopped is not running, so nobody goes to the queue any   *)
(* more; and stop_queue_workers waits for threads only while it joins.      *)
StoppedInv ==
  \A p \in Procs :
    /\ phase[p] \in {"joining", "closing"} => ~running[p]
    /\ left[p] # {} => phase[p] = "joining"

WaitInv == StoppedInv /\ NobodyWaitsInVain

(* A process whose phase, queue and waiting threads stay what they are, or  *)
(* that is not stopped.                                                     *)
Undisturbed(p) ==
  \/ phase'[p] \notin {"joining", "closing"} /\ left'[p] = {}
  \/ /\ running'[p] = running[p] /\ queue'[p] = queue[p]
     /\ left'[p] \subseteq left[p]
     /\ Waiting(p)' \subseteq Waiting(p)
     /\ \/ phase'[p] = phase[p]
        \/ phase[p] = "joining" /\ phase'[p] = "closing" /\ left'[p] = {}

LEMMA KeptWaits ==
  ASSUME TypeOK, WaitInv, \A p \in Procs : Undisturbed(p)
  PROVE  WaitInv'
<1>1. StoppedInv'
  BY DEF WaitInv, StoppedInv, Undisturbed
<1>2. ASSUME NEW p \in Procs, phase'[p] \in {"joining", "closing"}
      PROVE  Cardinality(Waiting(p)') <= Cardinality(SentinelsOf(queue'[p]))
  <2>1. /\ Waiting(p)' \subseteq Waiting(p) /\ queue'[p] = queue[p]
        /\ phase[p] \in {"joining", "closing"}
    BY <1>2 DEF Undisturbed
  <2>2. Cardinality(Waiting(p)) <= Cardinality(SentinelsOf(queue[p]))
    BY <2>1 DEF WaitInv, NobodyWaitsInVain, Waiting, SentinelsIn, SentinelsOf
  <2>3. Waiting(p) \subseteq Ours(p)
    BY DEF Waiting
  <2>4. IsFiniteSet(Waiting(p)) /\ Cardinality(Waiting(p)) \in Nat
    BY <2>3, ThreadsAreFinite
  <2>5. Cardinality(Waiting(p)') <= Cardinality(Waiting(p))
    BY <2>1, <2>4, FS_Subset
  <2>6. Cardinality(Waiting(p)') \in Nat
    BY <2>1, <2>4, FS_Subset, FS_CardinalityType
  <2>7. Cardinality(SentinelsOf(queue[p])) \in Nat
    BY SentinelsAreFinite DEF TypeOK
  <2> QED BY <2>1, <2>2, <2>4, <2>5, <2>6, <2>7
<1>3. NobodyWaitsInVain'
  BY <1>2 DEF NobodyWaitsInVain, Waiting, Ours, SentinelsIn, SentinelsOf
<1> QED BY <1>1, <1>3 DEF WaitInv

(* A waiting thread that takes something stops waiting; with it goes one    *)
(* sentinel at most.                                                        *)
LEMMA GetWaits ==
  ASSUME TypeOK, WaitInv, NEW w \in Workers, Get(w)
  PROVE  WaitInv'
<1> DEFINE p == HomeOf[w]
<1>1. p \in Procs /\ queue[p] \in Seq({Copy, Sentinel}) /\ queue[p] # <<>>
  BY LifespanAssumption DEF LifespanAssumption, TypeOK, Get
<1>2. /\ UNCHANGED <<phase, running, left>> /\ pc[w] = "get"
      /\ queue' = [queue EXCEPT ![p] = Tail(@)]
      /\ pc' = [pc EXCEPT ![w] = AfterTaking(Head(queue[p]))]
  BY DEF Get, WorkerStep
<1>3. AfterTaking(Head(queue[p])) # "get"
  <2>1. Head(queue[p]) \in {Copy, Sentinel}
    BY <1>1
  <2> QED BY <2>1, LifespanAssumption DEF AfterTaking, LifespanAssumption
<1>4. StoppedInv'
  BY <1>2 DEF WaitInv, StoppedInv
<1>5. ASSUME NEW q \in Procs, phase'[q] \in {"joining", "closing"}
      PROVE  Cardinality(Waiting(q)') <= Cardinality(SentinelsOf(queue'[q]))
  <2>1. Cardinality(Waiting(q)) <= Cardinality(SentinelsOf(queue[q]))
    BY <1>2, <1>5
    DEF WaitInv, NobodyWaitsInVain, Waiting, SentinelsIn, SentinelsOf
  <2>2. IsFiniteSet(Waiting(q)) /\ Cardinality(Waiting(q)) \in Nat
    BY ThreadsAreFinite DEF Waiting
  <2>3. CASE q = p
    <3>1. Waiting(q)' = Waiting(q) \ {w} /\ w \in Waiting(q)
      BY <1>2, <1>3, <2>3 DEF Waiting, Ours, TypeOK
    <3>2. Cardinality(Waiting(q)') = Cardinality(Waiting(q)) - 1
      BY <2>2, <3>1, FS_RemoveElement
    <3>3. queue'[q] = Tail(queue[q]) /\ q \in Procs
      BY <1>2, <2>3 DEF TypeOK
    <3>4. /\ Cardinality(SentinelsOf(queue'[q])) =
               Cardinality(SentinelsOf(queue[q]))
               - (IF Head(queue[q]) = Sentinel THEN 1 ELSE 0)
          /\ Cardinality(SentinelsOf(queue[q])) \in Nat
      BY <1>1, <2>3, <3>3, TakingCounts, SentinelsAreFinite
    <3> QED BY <2>1, <2>2, <3>2, <3>4
  <2>4. CASE q # p
    <3>1. queue'[q] = queue[q]
      BY <1>2, <2>4 DEF TypeOK
    <3>2. Waiting(q)' = Waiting(q)
      BY <1>2, <2>4 DEF Waiting, Ours, TypeOK
    <3> QED BY <2>1, <3>1, <3>2
  <2> QED BY <2>3, <2>4
<1>6. NobodyWaitsInVain'
  BY <1>5 DEF NobodyWaitsInVain, Waiting, Ours, SentinelsIn, SentinelsOf
<1> QED BY <1>4, <1>6 DEF WaitInv

LEMMA BeginJoinWaits ==
  ASSUME TypeOK, WaitInv, NEW p \in Procs, BeginJoin(p)
  PROVE  WaitInv'
<1>1. /\ pc' = pc
      /\ phase' = [phase EXCEPT ![p] = "joining"]
      /\ running' = [running EXCEPT ![p] = FALSE]
      /\ queue' = [queue EXCEPT ![p] = @ \o Sentinels(p)]
      /\ left' = [left EXCEPT ![p] = Ours(p)]
  BY DEF BeginJoin
<1>2. StoppedInv'
  BY <1>1 DEF WaitInv, StoppedInv, TypeOK
<1>3. \A q \in Procs : Waiting(q)' = Waiting(q)
  BY <1>1 DEF Waiting, Ours
<1>4. ASSUME NEW q \in Procs, phase'[q] \in {"joining", "closing"}
      PROVE  Cardinality(Waiting(q)') <= Cardinality(SentinelsOf(queue'[q]))
  <2>1. CASE q = p
    <3>1. queue'[q] = queue[q] \o Sentinels(q) /\ queue[q] \in Seq({Copy, Sentinel})
      BY <1>1, <2>1 DEF TypeOK
    <3>2. Cardinality(Ours(q)) <= Cardinality(SentinelsOf(queue'[q]))
      BY <3>1, SentinelsForAll
    <3>3. /\ Cardinality(Waiting(q)) <= Cardinality(Ours(q))
          /\ Cardinality(Waiting(q)) \in Nat /\ Cardinality(Ours(q)) \in Nat
      BY ThreadsAreFinite DEF Waiting
    <3>4. queue'[q] \in Seq({Copy, Sentinel})
      BY <3>1, SentinelsType
    <3>5. Cardinality(SentinelsOf(queue'[q])) \in Nat
      BY <3>4, SentinelsAreFinite
    <3> QED BY <1>3, <3>2, <3>3, <3>5
  <2>2. CASE q # p
    <3>1. queue'[q] = queue[q] /\ phase'[q] = phase[q]
      BY <1>1, <2>2 DEF TypeOK
    <3> QED
      BY <1>3, <1>4, <3>1
      DEF WaitInv, NobodyWaitsInVain, Waiting, SentinelsIn, SentinelsOf
  <2> QED BY <2>1, <2>2
<1>5. NobodyWaitsInVain'
  BY <1>4 DEF NobodyWaitsInVain, Waiting, Ours, SentinelsIn, SentinelsOf
<1> QED BY <1>2, <1>5 DEF WaitInv

LEMMA StepWaits ==
  ASSUME TypeOK, HandsInv, WaitInv, Step
  PROVE  WaitInv'
<1> USE DEF processVars, scheduleVars, eventVars, outVars, boundVars
<1>0. \A p \in Procs : phase[p] \notin {"joining"} => left[p] = {}
  BY DEF WaitInv, StoppedInv
<1>1. ASSUME NEW p \in Procs,
             Start(p) \/ StartTasks(p) \/ Put(p) \/ Stop(p) \/ SchedulerFails(p)
      PROVE  WaitInv'
  <2>1. /\ phase[p] \notin {"joining", "closing"} /\ left[p] = {}
        /\ phase'[p] \notin {"joining", "closing"} /\ left' = left
    BY <1>0, <1>1
    DEF Start, StartTasks, Put, Stop, SchedulerFails, HandsInv, TypeOK
  <2>2. \A q \in Procs \ {p} :
          /\ phase'[q] = phase[q] /\ running'[q] = running[q]
          /\ queue'[q] = queue[q]
    BY <1>1 DEF Start, StartTasks, Put, Stop, SchedulerFails, TypeOK
  <2>3. \A q \in Procs \ {p} : Waiting(q)' = Waiting(q)
    BY <1>1
    DEF Start, StartTasks, Put, Stop, SchedulerFails, SetWorkers, Waiting, Ours,
        TypeOK
  <2> QED BY <2>1, <2>2, <2>3, KeptWaits DEF Undisturbed
<1>2. ASSUME NEW p \in Procs, Crash(p) \/ Exit(p) PROVE WaitInv'
  <2>1. EndProcess(p)
    BY <1>2 DEF Crash, Exit
  <2>2. phase'[p] = "down" /\ left'[p] = {}
    BY <2>1 DEF EndProcess, TypeOK
  <2>3. \A q \in Procs \ {p} :
          /\ phase'[q] = phase[q] /\ running'[q] = running[q]
          /\ queue'[q] = queue[q] /\ left'[q] = left[q]
    BY <2>1 DEF EndProcess, TypeOK
  <2>4. \A q \in Procs \ {p} : Waiting(q)' = Waiting(q)
    BY <2>1 DEF EndProcess, SetWorkers, Waiting, Ours, TypeOK
  <2> QED BY <2>2, <2>3, <2>4, KeptWaits DEF Undisturbed
<1>3. ASSUME NEW p \in Procs, BeginJoin(p) PROVE WaitInv'
  BY <1>3, BeginJoinWaits
<1>4. ASSUME NEW p \in Procs, EndJoin(p) PROVE WaitInv'
  <2>1. /\ UNCHANGED <<running, queue, pc, left>>
        /\ phase[p] = "joining" /\ left[p] = {}
        /\ phase' = [phase EXCEPT ![p] = "closing"]
    BY <1>4 DEF EndJoin
  <2>2. \A q \in Procs : Waiting(q)' = Waiting(q)
    BY <2>1 DEF Waiting, Ours
  <2>3. \A q \in Procs : phase'[q] = IF q = p THEN "closing" ELSE phase[q]
    BY <2>1 DEF TypeOK
  <2> QED BY <2>1, <2>2, <2>3, KeptWaits DEF Undisturbed
<1>5. ASSUME NEW w \in Workers, CheckRunning(w) PROVE WaitInv'
  <2>1. UNCHANGED <<phase, running, queue, left>>
    BY <1>5 DEF CheckRunning, WorkerStep
  <2>2. ASSUME NEW p \in Procs PROVE Undisturbed(p)
    <3>1. CASE HomeOf[w] = p /\ running[p]
      BY <1>0, <2>1, <3>1 DEF WaitInv, StoppedInv, Undisturbed
    <3>2. CASE ~(HomeOf[w] = p /\ running[p])
      <4>1. Waiting(p)' \subseteq Waiting(p)
        BY <1>5, <3>2 DEF CheckRunning, WorkerStep, Waiting, Ours, TypeOK
      <4> QED BY <2>1, <4>1 DEF Undisturbed
    <3> QED BY <3>1, <3>2
  <2> QED BY <2>2, KeptWaits
<1>6. ASSUME NEW w \in Workers, Get(w) PROVE WaitInv'
  BY <1>6, GetWaits
<1>7. ASSUME NEW w \in Workers, EndJob(w) PROVE WaitInv'
  <2>1. UNCHANGED <<phase, running, queue, left>>
    BY <1>7 DEF EndJob, WorkerStep
  <2>2. \A p \in Procs : Waiting(p)' \subseteq Waiting(p)
    BY <1>7 DEF EndJob, WorkerStep, Waiting, Ours, TypeOK
  <2> QED BY <2>1, <2>2, KeptWaits DEF Undisturbed
<1>8. ASSUME NEW w \in Workers, Join(w) PROVE WaitInv'
  <2>1. /\ UNCHANGED <<phase, running, queue, pc>>
        /\ left' = [left EXCEPT ![HomeOf[w]] = @ \ {w}]
    BY <1>8 DEF Join
  <2>2. \A p \in Procs : left'[p] \subseteq left[p] /\ Waiting(p)' = Waiting(p)
    BY <2>1 DEF Waiting, Ours, TypeOK
  <2> QED BY <2>1, <2>2, KeptWaits DEF Undisturbed
<1>9. ASSUME \/ \E p \in Procs :
                  \/ \E S \in SUBSET Bridges : Wake(p, S)
                  \/ \E b \in Bridges : Claim(p, b)
                  \/ Query(p) \/ Mail(p) \/ MailDropped(p) \/ Sleep(p)
             \/ \E e \in Events : Receive(e) \/ Heal(e) \/ Fail(e)
             \/ WeekPasses
      PROVE  WaitInv'
  <2>1. UNCHANGED processVars
    BY <1>9
    DEF Wake, Claim, Query, Mail, MailDropped, NextBridge, Sleep, Receive, Heal, Fail,
        WeekPasses
  <2>2. \A p \in Procs : Waiting(p)' = Waiting(p)
    BY <2>1 DEF Waiting, Ours
  <2> QED BY <2>1, <2>2, KeptWaits DEF Undisturbed
<1> QED
  BY <1>1, <1>2, <1>3, <1>4, <1>5, <1>6, <1>7, <1>8, <1>9 DEF Step

(* Threads, sentinels and the joins over a whole run of the system.         *)
LEMMA WaitsInvariant == Spec => [](TypeOK /\ HandsInv /\ WaitInv)
<1> DEFINE Inv == TypeOK /\ HandsInv /\ WaitInv
<1>1. Init => Inv
  <2> SUFFICES ASSUME Init PROVE WaitInv
    BY InitTypes
  <2> QED BY DEF Init, WaitInv, StoppedInv, NobodyWaitsInVain
<1>2. Inv /\ [Next]_vars => Inv'
  <2> SUFFICES ASSUME Inv, [Next]_vars PROVE Inv'
    OBVIOUS
  <2>1. CASE Step
    BY <2>1, StepTypes, StepWaits
  <2>2. CASE UNCHANGED vars
    <3>1. (TypeOK /\ HandsInv)'
      BY <2>2 DEF vars, processVars, scheduleVars, eventVars, outVars, boundVars,
                  TypeOK, HandsInv
    <3>2. UNCHANGED processVars
      BY <2>2 DEF vars
    <3>3. \A p \in Procs : Undisturbed(p)
      BY <3>2 DEF processVars, Undisturbed, Waiting, Ours
    <3> QED BY <3>1, <3>3, KeptWaits
  <2> QED BY <2>1, <2>2, NextIsStep
<1> QED BY <1>1, <1>2, PTL DEF Spec

(* While the pool of a process is stopped there is a None in its queue for  *)
(* every thread that waits there.                                           *)
THEOREM SentinelsSuffice == Spec => []NobodyWaitsInVain
<1>1. WaitInv => NobodyWaitsInVain
  BY DEF WaitInv
<1> QED BY <1>1, WaitsInvariant, PTL

(* stop_queue_workers joins a thread that has ended, or gives up one that   *)
(* has a job in hand: never one that merely waits for a copy or a None.     *)
GivenUpWithAJob ==
  [][\A w \in Workers : Join(w) => pc[w] \in {"gone", "job"}]_vars

THEOREM OnlyJobsAreGivenUp == Spec => GivenUpWithAJob
<1>1. ASSUME TypeOK, WaitInv, NEW w \in Workers, Join(w)
      PROVE  pc[w] \in {"gone", "job"}
  <2> DEFINE p == HomeOf[w]
  <2>1. p \in Procs /\ phase[p] = "joining"
    BY <1>1, LifespanAssumption
    DEF LifespanAssumption, Join, WaitInv, StoppedInv
  <2>2. CASE pc[w] = "get" /\ queue[p] = <<>>
    <3>1. SentinelsOf(queue[p]) = {}
      BY <2>2 DEF SentinelsOf
    <3>2. Cardinality(Waiting(p)) <= 0
      BY <1>1, <2>1, <3>1, FS_EmptySet
      DEF WaitInv, NobodyWaitsInVain, Waiting, SentinelsIn, SentinelsOf
    <3>3. IsFiniteSet(Waiting(p)) /\ Cardinality(Waiting(p)) \in Nat
      BY <2>1, ThreadsAreFinite DEF Waiting
    <3>4. Waiting(p) = {}
      BY <3>2, <3>3, FS_EmptySet
    <3>5. w \in Waiting(p)
      BY <2>2 DEF Waiting, Ours
    <3> QED BY <3>4, <3>5
  <2> QED BY <1>1, <2>2 DEF Join, Joined, Stuck
<1>2. TypeOK /\ HandsInv /\ WaitInv =>
        \A w \in Workers : Join(w) => pc[w] \in {"gone", "job"}
  BY <1>1
<1> QED BY <1>2, WaitsInvariant, PTL DEF GivenUpWithAJob

=============================================================================
