------------------------ MODULE PayloadMappingProofs ------------------------
(***************************************************************************)
(* Proofs about PayloadMapping, for every set of names, any scores, rules, *)
(* expected fields and order of keys.                                      *)
(***************************************************************************)
EXTENDS PayloadMapping, WellFoundedInduction, TLAPS

-----------------------------------------------------------------------------
(* The two functions that look at a key agree *)

(* A nonempty set of natural numbers has a least element.                   *)
LEMMA LeastNumber ==
  ASSUME NEW T \in SUBSET Nat, T # {}
  PROVE  \E n \in T : \A m \in T : n <= m
<1>1. \E n \in T : \A m \in T : ~ (<<m, n>> \in OpToRel(<, Nat))
  BY NatLessThanWellFounded, WFMin, Zenon
<1>2. PICK n \in T : \A m \in T : ~ (<<m, n>> \in OpToRel(<, Nat))
  BY <1>1
<1>3. ASSUME NEW m \in T PROVE n <= m
  <2>1. m \in Nat /\ n \in Nat /\ <<m, n>> \in Nat \X Nat
    OBVIOUS
  <2>2. ~ (m < n)
    BY <1>2, <2>1 DEF OpToRel
  <2> QED BY <2>1, <2>2
<1> QED BY <1>3

(* A match is one of the expected fields.                                   *)
LEMMA MatchIsExpected ==
  ASSUME NEW k \in Keys
  PROVE  Match(k) \in expected \cup {Absent}
<1>1. SimilarTo(k) \subseteq expected
  BY DEF SimilarTo
<1> QED BY <1>1 DEF Match

(* A field is its own match.                                                *)
LEMMA FieldMatchesItself ==
  ASSUME NEW k \in expected
  PROVE  Match(k) = k
BY DEF Match

(* key_confidence reaches the threshold only for keys that best_key_match   *)
(* finds a field for.                                                       *)
LEMMA ConfidentIsMatched ==
  ASSUME TypeOK, NEW k \in Keys, Confident(k)
  PROVE  Match(k) # Absent
<1> USE PayloadAssumption
<1>1. CASE k \in expected \/ Alias[k] \in expected
  BY <1>1 DEF Match, TypeOK
<1>2. CASE k \notin expected /\ Alias[k] \notin expected
  <2>1. PICK f \in expected : Score[k][f] >= Threshold
    BY <1>2 DEF Confident
  <2> DEFINE Short == {100 - Score[k][e] : e \in expected}
             Top(e) == \A g \in expected : Score[k][e] >= Score[k][g]
             Ranks == {NameRank[e] : e \in {g \in expected : Top(g)}}
  <2>2. \A e \in expected : /\ e \in Keys
                            /\ Score[k][e] \in Nat
                            /\ 100 - Score[k][e] \in Nat
                            /\ NameRank[e] \in Nat
    <3>1. \A n \in 0 .. 100 : n \in Nat /\ 100 - n \in Nat
      OBVIOUS
    <3>2. \A e \in expected : e \in Keys /\ Score[k][e] \in 0 .. 100
      BY DEF TypeOK
    <3> QED BY <3>1, <3>2
  <2>3. \E e \in expected : Top(e)
    <3>1. Short \in SUBSET Nat /\ Short # {}
      BY <2>1, <2>2
    <3> HIDE DEF Short
    <3>2. PICK n \in Short : \A m \in Short : n <= m
      BY <3>1, LeastNumber
    <3> USE DEF Short
    <3>3. PICK e \in expected : n = 100 - Score[k][e]
      BY <3>2
    <3>4. ASSUME NEW g \in expected PROVE Score[k][e] >= Score[k][g]
      <4>1. 100 - Score[k][e] <= 100 - Score[k][g]
        BY <3>2, <3>3
      <4> QED BY <4>1, <2>2
    <3> QED BY <3>4
  <2>4. PICK e \in expected : Top(e) /\ \A g \in expected :
                                Top(g) => NameRank[e] <= NameRank[g]
    <3>1. Ranks \in SUBSET Nat /\ Ranks # {}
      BY <2>2, <2>3
    <3> HIDE DEF Ranks, Top
    <3>2. PICK n \in Ranks : \A m \in Ranks : n <= m
      BY <3>1, LeastNumber
    <3> QED BY <3>2 DEF Ranks
  <2>5. MostSimilar(k, e)
    <3> SUFFICES ASSUME NEW g \in expected
                 PROVE  \/ Score[k][e] > Score[k][g]
                        \/ Score[k][e] = Score[k][g] /\ NameRank[e] <= NameRank[g]
      BY DEF MostSimilar
    <3>1. Score[k][e] >= Score[k][g]
      BY <2>4
    <3>2. Score[k][e] > Score[k][g] \/ Score[k][e] = Score[k][g]
      <4>1. \A m, n \in Nat : m >= n => m > n \/ m = n
        OBVIOUS
      <4> QED BY <2>2, <3>1, <4>1
    <3>3. CASE Score[k][e] = Score[k][g]
      <4>1. Top(g)
        BY <3>3, <2>4
      <4> QED BY <3>3, <4>1, <2>4
    <3> QED BY <3>2, <3>3
  <2>6. Score[k][e] >= Threshold
    BY <2>1, <2>2, <2>4
  <2>7. e \in SimilarTo(k)
    BY <2>5, <2>6 DEF SimilarTo
  <2>8. Match(k) = CHOOSE x \in SimilarTo(k) : TRUE
    BY <1>2, <2>7 DEF Match
  <2>9. Match(k) \in SimilarTo(k)
    BY <2>7, <2>8
  <2> QED BY <2>9, <2>2 DEF SimilarTo
<1> QED BY <1>1, <1>2

-----------------------------------------------------------------------------
(* Types *)

LEMMA TwoUpdates ==
  ASSUME NEW S, NEW T, NEW f \in [S -> T], NEW a \in S, NEW b \in S,
         NEW x \in T, NEW y \in T
  PROVE  [f EXCEPT ![a] = x, ![b] = y] \in [S -> T]
OBVIOUS

THEOREM TypeCorrect == Spec => []TypeOK
<1> USE PayloadAssumption
<1>1. Init => TypeOK
  BY DEF Init, TypeOK, Stages, Dict, Value, Raw, Nothing, Never
<1>2. TypeOK /\ [Next]_vars => TypeOK'
  <2> SUFFICES ASSUME TypeOK, [Next]_vars PROVE TypeOK'
    OBVIOUS
  <2> USE DEF inputs
  <2>1. CASE Normalize
    BY <2>1 DEF Normalize, TypeOK, Stages, Dict, Value, Normalized
  <2>2. ASSUME NEW s \in Keys, ApplyRule(s) PROVE TypeOK'
    <3>1. CASE Applicable(s)
      <4>1. s \in Keys /\ rules[s] \in Keys /\ payload[s] \in Value \cup {Absent}
        BY <2>2 DEF ApplyRule, TypeOK, Dict
      <4>2. payload' \in Dict
        BY <2>2, <3>1, <4>1 DEF ApplyRule, TypeOK, Dict
      <4>3. moved' \in [Keys -> Nat]
        <5>1. moved' = [moved EXCEPT ![rules[s]] = clock + 1, ![s] = 0]
          BY <2>2, <3>1 DEF ApplyRule
        <5>2. moved \in [Keys -> Nat] /\ clock + 1 \in Nat /\ 0 \in Nat
          BY DEF TypeOK
        <5> QED BY <4>1, <5>1, <5>2, TwoUpdates
      <4>4. mappings' \in [Keys -> Keys \cup {Absent}]
        <5>1. mappings' = [mappings EXCEPT ![s] = rules[s]]
          BY <2>2, <3>1 DEF ApplyRule
        <5> QED BY <4>1, <5>1 DEF TypeOK
      <4> QED BY <2>2, <4>2, <4>3, <4>4 DEF ApplyRule, TypeOK
    <3>2. CASE ~Applicable(s)
      BY <2>2, <3>2 DEF ApplyRule, TypeOK
    <3> QED BY <3>1, <3>2
  <2>3. CASE RulesDone
    BY <2>3 DEF RulesDone, TypeOK, Stages
  <2>4. ASSUME NEW k \in Keys, MatchKey(k) PROVE TypeOK'
    <3>1. Match(k) \in expected \cup {Absent} /\ expected \subseteq Keys
      BY MatchIsExpected DEF TypeOK
    <3>2. CASE Match(k) = Absent \/ Match(k) \in used
      BY <2>4, <3>2 DEF MatchKey, TypeOK, Dict
    <3>3. CASE ~(Match(k) = Absent \/ Match(k) \in used)
      <4>1. Match(k) \in Keys /\ payload[k] \in Value \cup {Absent}
        BY <3>1, <3>3 DEF TypeOK, Dict
      <4>2. healed' \in Dict
        BY <2>4, <3>3, <4>1 DEF MatchKey, TypeOK, Dict
      <4>3. used' \subseteq expected'
        BY <2>4, <3>1, <3>3 DEF MatchKey, TypeOK
      <4>4. mappings' \in [Keys -> Keys \cup {Absent}]
        <5>1. \/ mappings' = mappings
              \/ mappings' = [mappings EXCEPT ![k] = Match(k)]
          BY <2>4, <3>3 DEF MatchKey
        <5> QED BY <4>1, <5>1 DEF TypeOK
      <4>5. turn' \in [Keys -> Nat] /\ clock' \in Nat
        BY <2>4 DEF MatchKey, TypeOK
      <4> QED BY <2>4, <4>2, <4>3, <4>4, <4>5 DEF MatchKey, TypeOK
    <3> QED BY <3>2, <3>3
  <2>5. CASE Classify
    <3>1. Verdict \in Stages
      BY DEF Verdict, Stages
    <3>2. Uncertain \subseteq Keys
      BY DEF Uncertain, Present
    <3> QED BY <2>5, <3>1, <3>2 DEF Classify, TypeOK
  <2>6. ASSUME NEW k \in Keys, NEW d \in Keys, ModelMaps(k, d) PROVE TypeOK'
    BY <2>6 DEF ModelMaps, TypeOK, Stages, Dict
  <2>7. ASSUME NEW k \in Keys, NEW d \in Keys, OperatorMaps(k, d) PROVE TypeOK'
    <3>1. healed' \in Dict
      <4>1. (IF healed[k] # Absent THEN healed[k] ELSE Raw(k)) \in Value \cup {Absent}
        BY DEF TypeOK, Dict, Raw, Value
      <4> QED BY <2>7, <4>1, TwoUpdates DEF OperatorMaps, TypeOK, Dict
    <3>2. mappings' \in [Keys -> Keys \cup {Absent}]
      BY <2>7 DEF OperatorMaps, TypeOK
    <3> QED BY <2>7, <3>1, <3>2 DEF OperatorMaps, TypeOK, Stages
  <2>8. CASE OperatorDrops
    BY <2>8 DEF OperatorDrops, TypeOK, Stages
  <2>9. CASE UNCHANGED vars
    BY <2>9 DEF vars, TypeOK
  <2> QED BY <2>1, <2>2, <2>3, <2>4, <2>5, <2>6, <2>7, <2>8, <2>9 DEF Next
<1> QED BY <1>1, <1>2, PTL DEF Spec

-----------------------------------------------------------------------------
(* The two loops: every value is under one key, and each key is matched     *)
(* once, after the rules are done.                                          *)

LEMMA MatchIsFixed ==
  ASSUME expected' = expected, NEW k \in Keys
  PROVE  Match(k)' = Match(k)
BY DEF Match, SimilarTo, MostSimilar

(* What one iteration of the matching loop does.                            *)
LEMMA MatchStep ==
  ASSUME TypeOK, LoopsInv, NEW k \in Keys, MatchKey(k)
  PROVE  /\ k \notin Seen /\ payload[k] # Absent
         /\ Seen' = Seen \cup {k}
         /\ \A l \in Keys : l # k => turn'[l] = turn[l]
         /\ \A l \in Seen : turn'[l] < turn'[k]
         /\ turn'[k] = clock + 1 /\ clock' = clock + 1
         /\ payload' = payload /\ expected' = expected /\ raw' = raw
         /\ stage = "matching" /\ stage' = "matching" /\ pending' = pending
<1>1. k \notin Seen /\ payload[k] # Absent
  BY DEF MatchKey, IsNext, Unseen, Present
<1>2. turn' = [turn EXCEPT ![k] = clock + 1] /\ clock + 1 # 0 /\ clock \in Nat
  BY DEF MatchKey, TypeOK
<1>3. \A l \in Keys : turn'[l] = IF l = k THEN clock + 1 ELSE turn[l]
  BY <1>2 DEF TypeOK
<1>4. Seen' = Seen \cup {k}
  BY <1>2, <1>3 DEF Seen
<1>5. ASSUME NEW l \in Seen PROVE turn'[l] < turn'[k]
  <2>1. l \in Keys /\ l # k /\ turn[l] \in Nat /\ turn[l] <= clock
    BY <1>1 DEF Seen, LoopsInv, TypeOK
  <2> QED BY <1>2, <1>3, <2>1
<1> QED BY <1>1, <1>2, <1>3, <1>4, <1>5 DEF MatchKey, inputs

LEMMA LoopsInductive ==
  ASSUME TypeOK, LoopsInv, [Next]_vars
  PROVE  LoopsInv'
<1> USE PayloadAssumption
<1> USE DEF inputs
<1>1. CASE Normalize
  <2>1. /\ Seen = {} /\ turn' = turn /\ clock' = clock /\ raw' = raw
        /\ stage' = "rules"
    BY <1>1 DEF Normalize, LoopsInv
  <2>2. Seen' = {}
    BY <2>1 DEF Seen
  <2>3. \A k \in Keys : Normalized(k) \in Value /\ Normalized(k).of = k
    BY DEF Normalized, Value
  <2>4. \A k \in Keys : payload'[k] = IF k \in raw THEN Normalized(k) ELSE Absent
    BY <1>1 DEF Normalize
  <2>5. Present(payload') = raw
    BY <2>3, <2>4 DEF Present, TypeOK
  <2>6. \A k \in Keys : turn'[k] <= clock'
    BY <2>1 DEF LoopsInv
  <2>7. \A k \in raw : k \in Keys /\ payload'[k].of = k
    BY <2>3, <2>4 DEF TypeOK
  <2> QED BY <2>1, <2>2, <2>5, <2>6, <2>7 DEF LoopsInv, Matched
<1>2. ASSUME NEW s \in Keys, ApplyRule(s) PROVE LoopsInv'
  <2>1. /\ Seen = {} /\ turn' = turn /\ raw' = raw /\ clock' = clock + 1
        /\ stage = "rules" /\ stage' = "rules"
    BY <1>2 DEF ApplyRule, LoopsInv
  <2>2. Seen' = {}
    BY <2>1 DEF Seen
  <2>3. \A k \in Keys : turn'[k] <= clock'
    BY <2>1 DEF LoopsInv, TypeOK
  <2>4. CASE ~Applicable(s)
    <3>1. payload' = payload
      BY <1>2, <2>4 DEF ApplyRule
    <3> QED BY <2>1, <2>2, <2>3, <3>1 DEF LoopsInv, Matched
  <2>5. CASE Applicable(s)
    <3>1. /\ rules[s] \in Keys /\ rules[s] # s
          /\ payload[s] # Absent /\ payload[rules[s]] = Absent
      BY <1>2, <2>5 DEF ApplyRule, TypeOK, Applicable
    <3>2. \A k \in Keys : payload'[k] = CASE k = s -> Absent
                                          [] k = rules[s] -> payload[s]
                                          [] k # s /\ k # rules[s] -> payload[k]
      BY <1>2, <2>5, <3>1 DEF ApplyRule, TypeOK, Dict
    <3>3. Present(payload') = (Present(payload) \ {s}) \cup {rules[s]}
      BY <3>1, <3>2 DEF Present
    <3>4. \A k \in Present(payload') \ {rules[s]} :
            k \in Present(payload) \ {s} /\ payload'[k] = payload[k]
      BY <3>1, <3>2, <3>3 DEF Present
    <3>5. s \in Present(payload) /\ payload'[rules[s]] = payload[s]
      BY <3>1, <3>2 DEF Present
    <3>6. \A k, l \in Present(payload') :
            payload'[k].of = payload'[l].of => k = l
      BY <3>4, <3>5 DEF LoopsInv
    <3>7. \A k \in raw : \E f \in Present(payload') : payload'[f].of = k
      <4> SUFFICES ASSUME NEW k \in raw
                   PROVE  \E f \in Present(payload') : payload'[f].of = k
        OBVIOUS
      <4>1. PICK f \in Present(payload) : payload[f].of = k
        BY DEF LoopsInv
      <4>2. CASE f = s
        BY <4>1, <4>2, <3>3, <3>5
      <4>3. CASE f # s
        BY <4>1, <4>3, <3>1, <3>2, <3>3 DEF Present
      <4> QED BY <4>2, <4>3
    <3> QED BY <2>1, <2>2, <2>3, <3>6, <3>7 DEF LoopsInv, Matched
  <2> QED BY <2>4, <2>5
<1>3. CASE RulesDone
  BY <1>3 DEF RulesDone, LoopsInv, Seen, Matched, Unseen
<1>4. ASSUME NEW k \in Keys, MatchKey(k) PROVE LoopsInv'
  <2>1. /\ k \notin Seen /\ payload[k] # Absent
        /\ Seen' = Seen \cup {k}
        /\ \A l \in Keys : l # k => turn'[l] = turn[l]
        /\ \A l \in Seen : turn'[l] < turn'[k]
        /\ turn'[k] = clock + 1 /\ clock' = clock + 1
        /\ payload' = payload /\ expected' = expected /\ raw' = raw
        /\ stage = "matching" /\ stage' = "matching" /\ pending' = pending
    BY <1>4, MatchStep
  <2>2. Seen \subseteq Keys /\ \A l \in Keys : turn[l] \in Nat /\ turn[l] <= clock
    BY DEF Seen, TypeOK, LoopsInv
  <2>3. \A l \in Keys : turn'[l] <= clock'
    BY <2>1, <2>2 DEF TypeOK
  <2>4. \A l, m \in Seen' : turn'[l] = turn'[m] => l = m
    <3>1. \A l \in Seen : turn'[l] = turn[l] /\ turn'[l] # turn'[k]
      BY <2>1, <2>2 DEF TypeOK
    <3> QED BY <2>1, <3>1 DEF LoopsInv
  <2>5. Seen' \subseteq Present(payload')
    BY <2>1 DEF LoopsInv, Present
  <2> QED BY <2>1, <2>3, <2>4, <2>5 DEF LoopsInv, Matched
<1>5. CASE Classify
  BY <1>5 DEF Classify, LoopsInv, Seen, Matched, Unseen, Verdict
<1>6. ASSUME NEW k \in Keys, NEW d \in Keys, ModelMaps(k, d) PROVE LoopsInv'
  BY <1>6 DEF ModelMaps, LoopsInv, Seen, Matched, Unseen
<1>7. ASSUME NEW k \in Keys, NEW d \in Keys, OperatorMaps(k, d) PROVE LoopsInv'
  BY <1>7 DEF OperatorMaps, LoopsInv, Seen, Matched, Unseen
<1>8. CASE OperatorDrops
  BY <1>8 DEF OperatorDrops, LoopsInv, Seen, Matched, Unseen
<1>9. CASE UNCHANGED vars
  BY <1>9 DEF vars, LoopsInv, Seen, Matched, Unseen
<1> QED BY <1>1, <1>2, <1>3, <1>4, <1>5, <1>6, <1>7, <1>8, <1>9 DEF Next

LEMMA LoopsCorrect == Spec => []LoopsInv
<1>1. Init => LoopsInv
  <2> SUFFICES ASSUME Init PROVE LoopsInv
    OBVIOUS
  <2>1. \A k \in Keys : Raw(k) \in Value /\ Raw(k).of = k
    BY DEF Raw, Value
  <2>2. \A k \in Keys : payload[k] = IF k \in raw THEN Raw(k) ELSE Absent
    BY DEF Init
  <2>3. Present(payload) = raw /\ Seen = {} /\ raw \subseteq Keys
    BY PayloadAssumption, <2>1, <2>2 DEF Present, Seen, Init, Never
  <2>4. \A k \in raw : k \in Keys /\ payload[k].of = k
    BY <2>1, <2>2, <2>3
  <2>5. /\ \A k \in Keys : turn[k] <= clock
        /\ \A k \in Keys : payload[k] # Absent => k \in raw
        /\ stage = "received" /\ pending = {}
    BY <2>2 DEF Init, Never
  <2> QED BY <2>3, <2>4, <2>5 DEF LoopsInv, Matched
<1>2. TypeOK /\ LoopsInv /\ [Next]_vars => LoopsInv'
  BY LoopsInductive
<1> QED BY <1>1, <1>2, TypeCorrect, PTL DEF Spec

-----------------------------------------------------------------------------
(* The rules *)

(* What the rules' declaration speaks of changes in two steps only.         *)
LEMMA RulesFixed ==
  ASSUME RulesInv, stage # "received", rules' = rules, raw' = raw,
         pending' = pending, payload' = payload
  PROVE  RulesInv'
BY DEF RulesInv, Independent, Source, Applies

(* For independent rules, whether one finds its source and a free target is *)
(* decided by what arrived.                                                 *)
LEMMA AppliedAsDeclared ==
  ASSUME TypeOK, RulesInv, Independent, NEW s \in Keys, ApplyRule(s)
  PROVE  /\ Applicable(s) <=> Applies(s)
         /\ s \in raw => payload[s] = Normalized(s)
         /\ \A k \in Keys : Applies(k)' <=> Applies(k)
<1> USE PayloadAssumption
<1> DEFINE t == rules[s]
<1>1. /\ rules' = rules /\ raw' = raw /\ s \in pending
      /\ Source(s) /\ t \in Keys /\ stage # "received"
  BY DEF ApplyRule, TypeOK, Source, inputs
<1>2. \A k \in Keys : Normalized(k) # Absent
  <2>1. \A k \in Keys : Normalized(k) \in Value
    BY DEF Normalized, Value
  <2> QED BY <2>1
<1>3. ~Source(t) /\ t # s
  BY <1>1 DEF Independent
<1>4. \A r \in Keys : Applies(r) /\ r # s => rules[r] # s /\ rules[r] # t
  BY <1>1 DEF Independent, Applies
<1>5. payload[s] # Absent <=> s \in raw
  BY <1>1, <1>2, <1>4 DEF RulesInv, Independent, Applies
<1>6. s \in raw => payload[s] = Normalized(s)
  BY <1>1 DEF RulesInv
<1>7. payload[t] # Absent <=> t \in raw
  BY <1>1, <1>2, <1>3, <1>4 DEF RulesInv, Applies
<1>8. \A k \in Keys : Applies(k)' <=> Applies(k)
  BY <1>1 DEF Applies, Source
<1>9. Applicable(s) <=> Applies(s)
  BY <1>1, <1>5, <1>7 DEF Applicable, Applies
<1> QED BY <1>6, <1>8, <1>9

LEMMA RulesInductive ==
  ASSUME TypeOK, RulesInv, LoopsInv, [Next]_vars
  PROVE  RulesInv'
<1> USE PayloadAssumption
<1> USE DEF inputs
<1>1. CASE Normalize
  <2>1. /\ rules' = rules /\ raw' = raw
        /\ pending' = {k \in Keys : rules[k] # Absent}
        /\ \A k \in Keys : payload'[k] = IF k \in raw THEN Normalized(k) ELSE Absent
    BY <1>1 DEF Normalize
  <2>2. \A k \in Keys : Applies(k)' => k \in pending'
    BY <2>1 DEF Applies, Source
  <2> QED BY <2>1, <2>2 DEF RulesInv
<1>2. ASSUME NEW s \in Keys, ApplyRule(s) PROVE RulesInv'
  <2> SUFFICES ASSUME Independent PROVE RulesInv'
    BY <1>2 DEF ApplyRule, RulesInv, Independent, Source
  <2>1. /\ rules' = rules /\ raw' = raw /\ pending' = pending \ {s}
        /\ s \in pending /\ Source(s) /\ rules[s] \in Keys
        /\ stage # "received" /\ stage' # "received"
    BY <1>2 DEF ApplyRule, TypeOK, Source
  <2> DEFINE t == rules[s]
  <2>3. ~Source(t) /\ t # s
    BY <2>1 DEF Independent
  <2>4. \A r \in Keys : Applies(r) /\ r # s => rules[r] # s /\ rules[r] # t
    BY <2>1 DEF Independent, Applies
  <2>9. /\ Applicable(s) <=> Applies(s)
        /\ s \in raw => payload[s] = Normalized(s)
        /\ \A k \in Keys : Applies(k)' <=> Applies(k)
    BY <1>2, AppliedAsDeclared
  <2>10. CASE ~Applies(s)
    <3>1. payload' = payload
      BY <1>2, <2>9, <2>10 DEF ApplyRule
    <3> QED BY <2>1, <2>9, <2>10, <3>1 DEF RulesInv
  <2>11. CASE Applies(s)
    <3>1. \A k \in Keys : payload'[k] = CASE k = s -> Absent
                                          [] k = t -> Normalized(s)
                                          [] k # s /\ k # t -> payload[k]
      BY <1>2, <2>1, <2>3, <2>9, <2>11
         DEF ApplyRule, TypeOK, Dict, Applies
    <3>2. t \notin raw /\ s \in raw
      BY <2>11 DEF Applies
    <3>3. ASSUME NEW k \in Keys,
                 k \in raw, ~(Applies(k)' /\ k \notin pending')
          PROVE  payload'[k] = Normalized(k)
      <4>1. k # s /\ k # t
        BY <2>1, <2>9, <2>11, <3>2, <3>3
      <4> QED BY <2>1, <2>9, <3>1, <3>3, <4>1 DEF RulesInv
    <3>4. ASSUME NEW k \in Keys, Applies(k), k \notin pending'
          PROVE  payload'[k] = Absent /\ payload'[rules[k]] = Normalized(k)
      <4>1. CASE k = s
        BY <2>1, <2>3, <3>1, <4>1
      <4>2. CASE k # s
        <5>1. k # t /\ rules[k] # s /\ rules[k] # t /\ rules[k] \in Keys
          BY <2>3, <2>4, <3>4, <4>2 DEF Applies, Source, TypeOK
        <5>2. payload[k] = Absent /\ payload[rules[k]] = Normalized(k)
          BY <2>1, <3>4, <4>2 DEF RulesInv
        <5> QED BY <3>1, <4>2, <5>1, <5>2
      <4> QED BY <4>1, <4>2
    <3>5. ASSUME NEW k \in Keys, payload'[k] # Absent, k \notin raw
          PROVE  \E r \in Keys : Applies(r) /\ r \notin pending' /\ rules[r] = k
      <4>1. CASE k = t
        BY <2>1, <2>11, <4>1
      <4>2. CASE k # t
        <5>1. payload[k] # Absent
          BY <3>1, <3>5, <4>2
        <5> QED BY <2>1, <3>5, <5>1 DEF RulesInv
      <4> QED BY <4>1, <4>2
    <3> QED BY <2>1, <2>9, <3>3, <3>4, <3>5 DEF RulesInv
  <2> QED BY <2>10, <2>11
<1>3. CASE RulesDone
  BY <1>3, RulesFixed DEF RulesDone
<1>4. ASSUME NEW k \in Keys, MatchKey(k) PROVE RulesInv'
  BY <1>4, RulesFixed DEF MatchKey
<1>5. CASE Classify
  BY <1>5, RulesFixed DEF Classify
<1>6. ASSUME NEW k \in Keys, NEW d \in Keys, ModelMaps(k, d) PROVE RulesInv'
  BY <1>6, RulesFixed DEF ModelMaps
<1>7. ASSUME NEW k \in Keys, NEW d \in Keys, OperatorMaps(k, d) PROVE RulesInv'
  BY <1>7, RulesFixed DEF OperatorMaps
<1>8. CASE OperatorDrops
  BY <1>8, RulesFixed DEF OperatorDrops
<1>9. CASE UNCHANGED vars
  BY <1>9 DEF vars, RulesInv, Independent, Source, Applies
<1> QED BY <1>1, <1>2, <1>3, <1>4, <1>5, <1>6, <1>7, <1>8, <1>9 DEF Next

(* After the rules, nothing is pending.                                     *)
LEMMA NothingPending == Spec => [](stage \notin {"received", "rules"} => pending = {})
<1> DEFINE P == stage \notin {"received", "rules"} => pending = {}
<1>1. Init => P
  BY DEF Init
<1>2. P /\ [Next]_vars => P'
  BY DEF Next, vars, Normalize, ApplyRule, RulesDone, MatchKey, Classify,
         ModelMaps, OperatorMaps, OperatorDrops
<1> QED BY <1>1, <1>2, PTL DEF Spec

(* Independent rules do what they declare, in whatever order the database   *)
(* returned them.                                                           *)
THEOREM RulesAreConfluent == Spec => []RulesAsDeclared
<1>1. Init => RulesInv
  BY DEF Init, RulesInv
<1>2. TypeOK /\ RulesInv /\ LoopsInv /\ [Next]_vars => RulesInv'
  BY RulesInductive
<1>3. RulesInv /\ (stage \notin {"received", "rules"} => pending = {})
        => RulesAsDeclared
  BY DEF RulesInv, RulesAsDeclared
<1> QED BY <1>1, <1>2, <1>3, TypeCorrect, LoopsCorrect, NothingPending, PTL
        DEF Spec

-----------------------------------------------------------------------------
(* The fields *)

(* Only the new key can have become a winner, and no winner loses.          *)
LEMMA WinnersStay ==
  ASSUME TypeOK, LoopsInv, NEW k \in Keys, MatchKey(k)
  PROVE  /\ \A l \in Keys : Match(l)' = Match(l)
         /\ \A l \in Seen : Winner(l)' <=> Winner(l)
         /\ Winner(k)' <=> /\ Match(k) # Absent
                           /\ \A l \in Seen : Match(l) # Match(k)
<1>1. /\ k \notin Seen /\ Seen' = Seen \cup {k}
      /\ \A l \in Keys : l # k => turn'[l] = turn[l]
      /\ \A l \in Seen : turn'[l] < turn'[k]
      /\ expected' = expected
  BY MatchStep
<1>2. \A l \in Keys : Match(l)' = Match(l)
  BY <1>1, MatchIsFixed
<1>3. /\ Seen \subseteq Keys
      /\ \A l \in Seen' : turn'[l] \in Nat
  BY DEF Seen, TypeOK, MatchKey
<1>4. \A l \in Seen : turn'[l] <= turn'[k] /\ ~ (turn'[k] <= turn'[l])
  BY <1>1, <1>3
<1>5. \A l \in Seen : turn'[l] = turn[l]
  BY <1>1, <1>3
<1>6. turn'[k] <= turn'[k]
  BY <1>1, <1>3
<1>7. ASSUME NEW l \in Seen PROVE Winner(l)' <=> Winner(l)
  <2>1. Winner(l)' <=> /\ Match(l) # Absent
                       /\ \A m \in Seen' : Match(m) = Match(l)
                                           => turn'[l] <= turn'[m]
    BY <1>1, <1>2, <1>3 DEF Winner
  <2> QED BY <2>1, <1>1, <1>4, <1>5 DEF Winner
<1>8. Winner(k)' <=> /\ Match(k) # Absent
                     /\ \A m \in Seen' : Match(m) = Match(k)
                                         => turn'[k] <= turn'[m]
  BY <1>1, <1>2, <1>3 DEF Winner
<1> QED BY <1>1, <1>2, <1>4, <1>6, <1>7, <1>8

FieldInvs == FieldsInv /\ FieldsAsDeclared

(* One iteration, by what becomes of the key.                               *)
LEMMA MatchKeepsFields ==
  ASSUME TypeOK, LoopsInv, FieldInvs, NEW k \in Keys, MatchKey(k)
  PROVE  FieldInvs'
<1> USE PayloadAssumption
<1> DEFINE m == Match(k)
<1>1. /\ k \notin Seen /\ payload[k] # Absent
      /\ Seen' = Seen \cup {k} /\ Seen \subseteq Keys
      /\ \A l \in Keys : l # k => turn'[l] = turn[l]
      /\ \A l \in Seen : turn'[l] < turn'[k] /\ turn'[l] = turn[l]
      /\ payload' = payload /\ expected' = expected
      /\ ~Triaged /\ ~Triaged'
  BY MatchStep DEF Seen, Triaged
<1>2. /\ \A l \in Keys : Match(l)' = Match(l)
      /\ \A l \in Seen : Winner(l)' <=> Winner(l)
      /\ Winner(k)' <=> m # Absent /\ \A l \in Seen : Match(l) # m
  BY WinnersStay
<1>3. /\ used \subseteq expected /\ expected \subseteq Keys
      /\ \A l \in Keys : Match(l) \in expected \cup {Absent}
      /\ \A e \in expected : Match(e) = e /\ e # Absent
  BY MatchIsExpected, FieldMatchesItself DEF TypeOK
<1>4. \A e \in used : \E x \in Keys : FilledBy(e, x)
  BY <1>1 DEF FieldInvs, FieldsInv
<1>5. \A l \in Seen : Match(l) # Absent => Match(l) \in used
  BY DEF FieldInvs, FieldsInv
<1>6. m # Absent => (m \in used <=> \E l \in Seen : Match(l) = m)
  BY <1>4, <1>5 DEF FilledBy
<1>7. m # Absent /\ m \notin used => Winner(k)'
  BY <1>2, <1>6
<1>8. m = Absent \/ m \in used => ~Winner(k)'
  BY <1>2, <1>6
<1>9. \A e \in expected : healed[e] # Absent => e \in used
  BY <1>1, <1>3, <1>5 DEF FieldInvs, FieldsAsDeclared
<1>10. k \notin expected => healed[k] = Absent
  BY <1>1 DEF FieldInvs, FieldsAsDeclared
<1>11. \A x, y \in Seen : payload[x] = payload[y] => x = y
  BY DEF LoopsInv
<1>12. \A x \in Seen : payload[x] # Absent
  BY DEF LoopsInv, Present
<1>13. \A l \in Seen : \/ \E f \in Keys : healed[f] = payload[l]
                        \/ /\ Match(l) \in Seen \ {l}
                           /\ turn[l] < turn[Match(l)]
  BY <1>1 DEF FieldInvs, FieldsInv
<1>14. \A e \in expected :
         /\ e \in Seen => healed[e] = payload[e]
         /\ e \notin Seen =>
              \A x \in Keys : Winner(x) /\ Match(x) = e => healed[e] = payload[x]
         /\ healed[e] # Absent => \E x \in Seen : Match(x) = e
  BY <1>1 DEF FieldInvs, FieldsAsDeclared
<1>15. \A x \in Keys \ expected :
         healed[x] = IF x \in Seen /\ ~Winner(x) THEN payload[x] ELSE Absent
  BY <1>1 DEF FieldInvs, FieldsAsDeclared
<1>16. \A x \in Keys : Winner(x) => x \in Seen
  BY DEF Winner
<1>17. \A x \in Keys : Winner(x)' => x \in Seen'
  BY DEF Winner
<1>18. CASE m = Absent \/ m \in used
  <2>1. /\ used' = used
        /\ \A f \in Keys : healed'[f] = IF f = k THEN payload[k] ELSE healed[f]
    BY <1>18 DEF MatchKey, TypeOK, Dict
  <2>2. ASSUME NEW e \in used PROVE \E x \in Keys : FilledBy(e, x)'
    <3>1. PICK x \in Keys : FilledBy(e, x)
      BY <1>4
    <3>2. CASE e = k
      BY <1>1, <1>2, <1>3, <2>1, <3>2 DEF FilledBy
    <3>3. CASE e # k
      <4>1. healed'[e] = healed[e]
        BY <1>3, <2>1, <3>3
      <4>2. FilledBy(e, x)'
        BY <1>1, <1>2, <3>1, <4>1 DEF FilledBy
      <4> QED BY <4>2
    <3> QED BY <3>2, <3>3
  <2>3. ASSUME NEW l \in Seen'
        PROVE  \/ \E f \in Keys : healed'[f] = payload[l]
               \/ /\ Match(l) \in Seen' \ {l}
                  /\ turn'[l] < turn'[Match(l)]
    <3>1. CASE l = k
      BY <2>1, <3>1
    <3>2. CASE l # k /\ Match(l) \in Seen \ {l} /\ turn[l] < turn[Match(l)]
      BY <1>1, <3>2
    <3>3. CASE l # k /\ \E f \in Keys : healed[f] = payload[l]
      <4>1. PICK f \in Keys : healed[f] = payload[l]
        BY <3>3
      <4>2. CASE f # k
        BY <2>1, <4>1, <4>2
      <4>3. CASE f = k
        <5>1. l \in Seen /\ healed[k] # Absent
          BY <1>1, <1>12, <3>3, <4>1, <4>3
        <5>2. k \in expected /\ k \in used
          BY <1>9, <1>10, <5>1
        <5>3. PICK x \in Keys : FilledBy(k, x)
          BY <1>4, <5>2
        <5>4. x = l
          BY <1>11, <4>1, <4>3, <5>1, <5>3 DEF FilledBy
        <5>5. Match(l) = k /\ k \in Seen' \ {l}
          BY <1>1, <3>3, <5>3, <5>4 DEF FilledBy
        <5> QED BY <1>1, <5>1, <5>5
      <4> QED BY <4>2, <4>3
    <3> QED BY <1>1, <1>13, <3>1, <3>2, <3>3
  <2>4. ASSUME NEW e \in expected
        PROVE  /\ e \in Seen' => healed'[e] = payload[e]
               /\ e \notin Seen' =>
                    \A x \in Keys : Winner(x)' /\ Match(x) = e
                                   => healed'[e] = payload[x]
               /\ healed'[e] # Absent => \E x \in Seen' : Match(x) = e
    <3>1. CASE e = k
      BY <1>1, <1>3, <2>1, <3>1
    <3>2. CASE e # k
      <4>1. healed'[e] = healed[e]
        BY <1>3, <2>1, <3>2
      <4>2. \A x \in Keys : Winner(x)' => x \in Seen /\ Winner(x)
        BY <1>1, <1>2, <1>8, <1>17, <1>18
      <4> QED BY <1>1, <1>14, <3>2, <4>1, <4>2
    <3> QED BY <3>1, <3>2
  <2>5. ASSUME NEW x \in Keys \ expected
        PROVE  healed'[x] = IF x \in Seen' /\ ~Winner(x)' THEN payload[x] ELSE Absent
    <3>1. CASE x = k
      BY <1>1, <1>8, <1>18, <2>1, <3>1
    <3>2. CASE x # k
      <4>1. healed'[x] = healed[x] /\ (x \in Seen' <=> x \in Seen)
        BY <1>1, <2>1, <3>2
      <4> QED BY <1>2, <1>15, <4>1
    <3> QED BY <3>1, <3>2
  <2>6. \A l \in Seen' : Match(l) # Absent => Match(l) \in used'
    BY <1>1, <1>5, <1>18, <2>1
  <2>7. FieldsInv'
    BY <1>1, <1>2, <2>1, <2>2, <2>3, <2>6 DEF FieldsInv, Seen
  <2>8. FieldsAsDeclared'
    BY <1>1, <1>2, <2>4, <2>5 DEF FieldsAsDeclared, Seen
  <2> QED BY <2>7, <2>8 DEF FieldInvs
<1>19. CASE ~(m = Absent \/ m \in used)
  <2>1. /\ m \in expected /\ m \in Keys /\ m \notin used /\ Winner(k)'
        /\ healed[m] = Absent /\ (m \in Seen => FALSE)
        /\ \A x \in Seen : Match(x) # m
    BY <1>3, <1>5, <1>6, <1>7, <1>9, <1>19
  <2>2. /\ used' = used \cup {m}
        /\ \A f \in Keys : healed'[f] = IF f = m THEN payload[k] ELSE healed[f]
    BY <1>19, <2>1 DEF MatchKey, TypeOK, Dict
  <2>3. ASSUME NEW e \in used' PROVE \E x \in Keys : FilledBy(e, x)'
    <3>1. CASE e = m
      <4>1. FilledBy(e, k)'
        BY <1>1, <1>2, <2>1, <2>2, <3>1 DEF FilledBy
      <4> QED BY <4>1
    <3>2. CASE e # m
      <4>1. PICK x \in Keys : FilledBy(e, x)
        BY <1>4, <2>2, <3>2
      <4>2. healed'[e] = healed[e]
        BY <1>3, <2>2, <3>2
      <4>3. FilledBy(e, x)'
        BY <1>1, <1>2, <4>1, <4>2 DEF FilledBy
      <4> QED BY <4>3
    <3> QED BY <3>1, <3>2
  <2>4. ASSUME NEW l \in Seen'
        PROVE  \/ \E f \in Keys : healed'[f] = payload[l]
               \/ /\ Match(l) \in Seen' \ {l}
                  /\ turn'[l] < turn'[Match(l)]
    <3>1. CASE l = k
      BY <2>1, <2>2, <3>1
    <3>2. CASE l # k /\ Match(l) \in Seen \ {l} /\ turn[l] < turn[Match(l)]
      BY <1>1, <3>2
    <3>3. CASE l # k /\ \E f \in Keys : healed[f] = payload[l]
      BY <1>1, <1>12, <2>1, <2>2, <3>3
    <3> QED BY <1>1, <1>13, <3>1, <3>2, <3>3
  <2>5. ASSUME NEW e \in expected
        PROVE  /\ e \in Seen' => healed'[e] = payload[e]
               /\ e \notin Seen' =>
                    \A x \in Keys : Winner(x)' /\ Match(x) = e
                                   => healed'[e] = payload[x]
               /\ healed'[e] # Absent => \E x \in Seen' : Match(x) = e
    <3>1. CASE e = m
      BY <1>1, <1>17, <2>1, <2>2, <3>1
    <3>2. CASE e # m
      <4>1. healed'[e] = healed[e] /\ e # k
        BY <1>3, <2>2, <3>2
      <4>2. \A x \in Keys : Winner(x)' /\ Match(x) = e => x \in Seen /\ Winner(x)
        BY <1>1, <1>2, <1>17, <3>2
      <4> QED BY <1>1, <1>14, <4>1, <4>2
    <3> QED BY <3>1, <3>2
  <2>6. ASSUME NEW x \in Keys \ expected
        PROVE  healed'[x] = IF x \in Seen' /\ ~Winner(x)' THEN payload[x] ELSE Absent
    <3>1. x # m /\ healed'[x] = healed[x]
      BY <2>1, <2>2
    <3>2. CASE x = k
      BY <1>10, <2>1, <3>1, <3>2
    <3>3. CASE x # k
      BY <1>1, <1>2, <1>15, <3>1, <3>3
    <3> QED BY <3>2, <3>3
  <2>7. \A l \in Seen' : Match(l) # Absent => Match(l) \in used'
    BY <1>1, <1>5, <2>2
  <2>8. FieldsInv'
    BY <1>1, <1>2, <2>3, <2>4, <2>7 DEF FieldsInv, Seen
  <2>9. FieldsAsDeclared'
    BY <1>1, <1>2, <2>5, <2>6 DEF FieldsAsDeclared, Seen
  <2> QED BY <2>8, <2>9 DEF FieldInvs
<1> QED BY <1>18, <1>19

(* Steps that leave the matching alone.                                     *)
LEMMA FieldsFixed ==
  ASSUME FieldInvs, payload' = payload, turn' = turn, expected' = expected,
         used' = used, healed' = healed, Triaged' <=> Triaged
  PROVE  FieldInvs'
<1>1. Seen' = Seen /\ \A k \in Keys : Match(k)' = Match(k)
  BY MatchIsFixed DEF Seen
<1>2. Seen \subseteq Keys
  BY DEF Seen
<1>3. \A k \in Keys : Winner(k)' <=> Winner(k)
  BY <1>1, <1>2 DEF Winner
<1>4. \A e, x \in Keys : FilledBy(e, x)' <=> FilledBy(e, x)
  BY <1>1, <1>3 DEF FilledBy
<1>5. Triaged \/ ((\A e \in used : \E x \in Keys : FilledBy(e, x))
                     => (\A e \in used' : \E x \in Keys : FilledBy(e, x)'))
  BY <1>1, <1>3 DEF FilledBy
<1>6. FieldsInv'
  BY <1>1, <1>2, <1>5 DEF FieldInvs, FieldsInv
<1>7. FieldsAsDeclared'
  BY <1>1, <1>2, <1>3 DEF FieldInvs, FieldsAsDeclared
<1> QED BY <1>6, <1>7 DEF FieldInvs

(* Steps before the first key is matched.                                   *)
LEMMA FieldsEmpty ==
  ASSUME FieldInvs, Seen = {}, turn' = turn, expected' = expected,
         used' = used, healed' = healed, ~Triaged, ~Triaged'
  PROVE  FieldInvs'
<1>1. Seen' = {}
  BY DEF Seen
<1>2. \A k \in Keys : ~Winner(k) /\ ~Winner(k)'
  BY <1>1 DEF Winner
<1>3. used = {}
  BY DEF FieldInvs, FieldsInv, FilledBy
<1>4. /\ \A e \in expected : healed[e] = Absent
      /\ \A k \in Keys \ expected : healed[k] = Absent
  BY DEF FieldInvs, FieldsAsDeclared
<1>5. FieldsInv'
  BY <1>1, <1>3 DEF FieldsInv
<1>6. FieldsAsDeclared'
  BY <1>1, <1>2, <1>4 DEF FieldsAsDeclared
<1> QED BY <1>5, <1>6 DEF FieldInvs

LEMMA FieldsInductive ==
  ASSUME TypeOK, LoopsInv, FieldInvs, [Next]_vars
  PROVE  FieldInvs'
<1> USE DEF inputs
<1>1. CASE Normalize
  <2>1. Seen = {} /\ ~Triaged /\ ~Triaged'
    BY <1>1 DEF Normalize, LoopsInv, Triaged
  <2> QED BY <1>1, <2>1, FieldsEmpty DEF Normalize
<1>2. ASSUME NEW s \in Keys, ApplyRule(s) PROVE FieldInvs'
  <2>1. Seen = {} /\ ~Triaged /\ ~Triaged'
    BY <1>2 DEF ApplyRule, LoopsInv, Triaged
  <2> QED BY <1>2, <2>1, FieldsEmpty DEF ApplyRule
<1>3. CASE RulesDone
  BY <1>3, FieldsFixed DEF RulesDone, Triaged
<1>4. ASSUME NEW k \in Keys, MatchKey(k) PROVE FieldInvs'
  BY <1>4, MatchKeepsFields
<1>5. CASE Classify
  BY <1>5, FieldsFixed DEF Classify, Verdict, Triaged
<1>6. ASSUME NEW k \in Keys, NEW d \in Keys,
             ModelMaps(k, d) \/ OperatorMaps(k, d)
      PROVE  FieldInvs'
  <2>1. /\ turn' = turn /\ used' = used /\ expected' = expected
        /\ Triaged'
    BY <1>6 DEF ModelMaps, OperatorMaps, Triaged
  <2>2. Seen' = Seen /\ \A l \in Seen : Match(l)' = Match(l)
    BY <2>1, MatchIsFixed DEF Seen
  <2> QED BY <2>1, <2>2 DEF FieldInvs, FieldsInv, FieldsAsDeclared
<1>7. CASE OperatorDrops
  BY <1>7, FieldsFixed DEF OperatorDrops, Triaged
<1>8. CASE UNCHANGED vars
  BY <1>8, FieldsFixed DEF vars, Triaged
<1> QED BY <1>1, <1>2, <1>3, <1>4, <1>5, <1>6, <1>7, <1>8 DEF Next

LEMMA FieldsCorrect == Spec => []FieldInvs
<1>1. Init => FieldInvs
  <2> SUFFICES ASSUME Init PROVE FieldInvs
    OBVIOUS
  <2>1. Seen = {} /\ used = {} /\ \A k \in Keys : healed[k] = Absent
    BY DEF Init, Seen, Never, Nothing
  <2>2. expected \subseteq Keys
    BY PayloadAssumption DEF Init
  <2> QED BY <2>1, <2>2 DEF FieldInvs, FieldsInv, FieldsAsDeclared, Winner
<1>2. TypeOK /\ LoopsInv /\ FieldInvs /\ [Next]_vars => FieldInvs'
  BY FieldsInductive
<1> QED BY <1>1, <1>2, TypeCorrect, LoopsCorrect, PTL DEF Spec

(* Whatever the order of the keys, the matching loop fills the fields as    *)
(* declared: a field's own key first, else the first key that matches.      *)
THEOREM FieldsAreDeclared == Spec => []FieldsAsDeclared
<1>1. FieldInvs => FieldsAsDeclared
  BY DEF FieldInvs
<1> QED BY <1>1, FieldsCorrect, PTL

-----------------------------------------------------------------------------
(* The verdict and triage *)

LEMMA VerdictCorrect == Spec => []VerdictInv
<1>1. Init => VerdictInv
  BY DEF Init, VerdictInv
<1>2. TypeOK /\ VerdictInv /\ [Next]_vars => VerdictInv'
  <2> SUFFICES ASSUME TypeOK, VerdictInv, [Next]_vars PROVE VerdictInv'
    OBVIOUS
  <2> USE DEF inputs, VerdictInv
  <2>1. CASE Normalize
    BY <2>1 DEF Normalize
  <2>2. ASSUME NEW s \in Keys, ApplyRule(s) PROVE VerdictInv'
    BY <2>2 DEF ApplyRule
  <2>3. CASE RulesDone
    BY <2>3 DEF RulesDone
  <2>4. ASSUME NEW k \in Keys, MatchKey(k) PROVE VerdictInv'
    BY <2>4 DEF MatchKey
  <2>5. CASE Classify
    <3>1. Uncertain \cap expected = {}
      BY DEF Uncertain
    <3>2. Present(healed)' = Present(healed) /\ Uncertain' = Uncertain
      BY <2>5 DEF Classify, Present, Uncertain, Confident
    <3>3. Verdict = "uncertain" => Uncertain # {}
      BY DEF Verdict
    <3> QED BY <2>5, <3>1, <3>2, <3>3 DEF Classify, Verdict
  <2>6. ASSUME NEW k \in Keys, NEW d \in Keys, ModelMaps(k, d) PROVE VerdictInv'
    BY <2>6 DEF ModelMaps
  <2>7. ASSUME NEW k \in Keys, NEW d \in Keys, OperatorMaps(k, d) PROVE VerdictInv'
    BY <2>7 DEF OperatorMaps
  <2>8. CASE OperatorDrops
    BY <2>8 DEF OperatorDrops
  <2>9. CASE UNCHANGED vars
    BY <2>9 DEF vars, Present, Uncertain, Confident
  <2> QED BY <2>1, <2>2, <2>3, <2>4, <2>5, <2>6, <2>7, <2>8, <2>9 DEF Next
<1> QED BY <1>1, <1>2, TypeCorrect, PTL DEF Spec

(* An unknown key goes out without triage only as the runner-up of a field. *)
THEOREM OnlyRivalsAreLeftOver == Spec => []LeftoverIsRival
<1>1. TypeOK /\ LoopsInv /\ FieldInvs /\ VerdictInv => LeftoverIsRival
  <2> SUFFICES ASSUME TypeOK, LoopsInv, FieldInvs, VerdictInv,
                      stage \in {"healed", "validated"},
                      NEW k \in Present(healed) \ expected
               PROVE  /\ Match(k) # Absent
                      /\ healed[Match(k)] # Absent
                      /\ healed[Match(k)] # healed[k]
    BY DEF LeftoverIsRival
  <2>1. k \in Keys /\ healed[k] # Absent /\ Confident(k)
    BY DEF VerdictInv, Uncertain, Present
  <2>2. Match(k) # Absent
    BY <2>1, ConfidentIsMatched
  <2>3. k \in Seen /\ ~Winner(k) /\ healed[k] = payload[k]
    BY <2>1 DEF FieldInvs, FieldsAsDeclared, Triaged
  <2>4. PICK x \in Keys : FilledBy(Match(k), x)
    BY <2>2, <2>3 DEF FieldInvs, FieldsInv, Triaged
  <2>5. x # k /\ x \in Seen /\ healed[Match(k)] = payload[x]
    BY <2>3, <2>4, MatchIsExpected, PayloadAssumption DEF FilledBy, TypeOK
  <2> QED BY <2>2, <2>3, <2>5 DEF LoopsInv, Present
<1> QED BY <1>1, TypeCorrect, LoopsCorrect, FieldsCorrect, VerdictCorrect, PTL

(* The required fields that the request expects are in every payload that   *)
(* goes out.                                                                *)
THEOREM RequiredFieldsGoOut == Spec => []RequiredIsForwarded
<1>1. Init => RequiredIsForwarded
  BY DEF Init, RequiredIsForwarded, Forwarded, Triaged
<1>2. TypeOK /\ VerdictInv /\ VerdictInv' /\ RequiredIsForwarded /\ [Next]_vars
        => RequiredIsForwarded'
  <2> SUFFICES ASSUME TypeOK, VerdictInv, VerdictInv', RequiredIsForwarded,
                      [Next]_vars, Forwarded'
               PROVE  (Required \cap expected)' \subseteq Present(healed)'
    BY DEF RequiredIsForwarded
  <2> USE DEF inputs
  <2>1. ASSUME NEW k \in Keys, NEW d \in Keys, ModelMaps(k, d)
        PROVE  (Required \cap expected)' \subseteq Present(healed)'
    <3>1. k \notin expected /\ Required \subseteq Present(healed)
      BY <2>1 DEF ModelMaps, FirstParked, VerdictInv
    <3>2. \A f \in Keys : f # k /\ healed[f] # Absent => healed'[f] # Absent
      BY <2>1 DEF ModelMaps, TypeOK, Dict
    <3> QED BY <2>1, <3>1, <3>2 DEF ModelMaps, Present
  <2>2. ASSUME NEW k \in Keys, NEW d \in Keys, OperatorMaps(k, d)
        PROVE  (Required \cap expected)' \subseteq Present(healed)'
    <3>1. k \notin Required /\ Required \subseteq Present(healed)
      BY <2>2, PayloadAssumption DEF OperatorMaps, Unrecognised, VerdictInv
    <3>2. \A f \in Keys : f # k /\ f # d => healed'[f] = healed[f]
      BY <2>2 DEF OperatorMaps, TypeOK, Dict
    <3>3. d \notin Required
      BY <2>2, <3>1 DEF OperatorMaps, Present
    <3> QED BY <3>1, <3>2, <3>3 DEF Present
  <2>3. CASE Classify
    BY <2>3 DEF VerdictInv, Forwarded, Triaged, Classify, Verdict
  <2>4. CASE Normalize \/ RulesDone \/ OperatorDrops
             \/ \E k \in Keys : ApplyRule(k) \/ MatchKey(k)
    BY <2>4 DEF Normalize, RulesDone, OperatorDrops, ApplyRule, MatchKey,
               Forwarded, Triaged
  <2>5. CASE UNCHANGED vars
    BY <2>5 DEF vars, RequiredIsForwarded, Forwarded, Triaged, Present
  <2> QED BY <2>1, <2>2, <2>3, <2>4, <2>5 DEF Next
<1> QED BY <1>1, <1>2, TypeCorrect, VerdictCorrect, PTL DEF Spec

(* A value disappears only when the own key of a field follows a key that   *)
(* was matched with the field, and then at no other point.                  *)
THEOREM NothingElseIsLost == Spec => []LostOnlyToOwnKey
<1>1. Init => LostOnlyToOwnKey
  BY DEF Init, LostOnlyToOwnKey, Matched
<1>2. TypeOK /\ LoopsInv /\ FieldInvs /\ LostOnlyToOwnKey /\ [Next]_vars
        => LostOnlyToOwnKey'
  <2> SUFFICES ASSUME TypeOK, LoopsInv, FieldInvs, LostOnlyToOwnKey,
                      [Next]_vars, Matched', NEW k \in raw'
               PROVE  \/ \E f \in Keys : healed'[f] # Absent /\ healed'[f].of = k
                      \/ LostToOwnKey(k)'
    BY DEF LostOnlyToOwnKey, Present
  <2> USE DEF inputs
  <2>1. ASSUME raw' = raw, payload' = payload, turn' = turn,
               expected' = expected, LostToOwnKey(k)
        PROVE  LostToOwnKey(k)'
    <3>1. Seen' = Seen /\ Seen \subseteq Keys
      BY <2>1 DEF Seen
    <3> QED BY <2>1, <3>1, MatchIsFixed DEF LostToOwnKey
  <2>2. ASSUME Matched, raw' = raw, payload' = payload, turn' = turn,
               expected' = expected, ~LostToOwnKey(k)'
        PROVE  \E f \in Keys : healed[f] # Absent /\ healed[f].of = k
    BY <2>1, <2>2 DEF LostOnlyToOwnKey, Present
  <2>3. CASE Classify
    <3>1. PICK x \in Present(payload) : payload[x].of = k
      BY <2>3 DEF Classify, LoopsInv
    <3>2. x \in Seen /\ payload[x] # Absent /\ Seen \subseteq Keys /\ ~Triaged
      BY <2>3, <3>1 DEF Classify, Unseen, Present, Seen, Triaged
    <3>3. CASE \E f \in Keys : healed[f] = payload[x]
      BY <2>3, <3>1, <3>2, <3>3 DEF Classify
    <3>4. CASE Match(x) \in Seen \ {x} /\ turn[x] < turn[Match(x)]
      <4>1. LostToOwnKey(k)
        BY <3>1, <3>2, <3>4 DEF LostToOwnKey
      <4> QED BY <2>1, <2>3, <4>1 DEF Classify
    <3> QED BY <3>2, <3>3, <3>4 DEF FieldInvs, FieldsInv
  <2>4. ASSUME NEW s \in Keys, NEW d \in Keys, ModelMaps(s, d),
               ~LostToOwnKey(k)'
        PROVE  \E f \in Keys : healed'[f] # Absent /\ healed'[f].of = k
    <3>1. PICK f \in Keys : healed[f] # Absent /\ healed[f].of = k
      BY <2>2, <2>4 DEF ModelMaps, Matched
    <3>2. healed[d] = Absent /\ \A g \in Keys :
            healed'[g] = IF g = s THEN Absent ELSE IF g = d THEN healed[s]
                                                           ELSE healed[g]
      BY <2>4 DEF ModelMaps, TypeOK, Dict
    <3>3. CASE f = s
      BY <3>1, <3>2, <3>3
    <3>4. CASE f # s
      BY <3>1, <3>2, <3>4
    <3> QED BY <3>3, <3>4
  <2>5. ASSUME NEW s \in Keys, NEW d \in Keys, OperatorMaps(s, d),
               ~LostToOwnKey(k)'
        PROVE  \E f \in Keys : healed'[f] # Absent /\ healed'[f].of = k
    <3>1. PICK f \in Keys : healed[f] # Absent /\ healed[f].of = k
      BY <2>2, <2>5 DEF OperatorMaps, Matched
    <3>2. /\ healed[d] = Absent /\ s # d
          /\ \A g \in Keys : g # s /\ g # d => healed'[g] = healed[g]
          /\ healed[s] # Absent => healed'[d] = healed[s]
      BY <2>5 DEF OperatorMaps, Unrecognised, TypeOK, Dict
    <3>3. CASE f = s
      BY <3>1, <3>2, <3>3
    <3>4. CASE f # s
      BY <3>1, <3>2, <3>4
    <3> QED BY <3>3, <3>4
  <2>6. CASE OperatorDrops \/ UNCHANGED vars
    <3>1. Matched /\ healed' = healed /\ raw' = raw /\ payload' = payload
          /\ turn' = turn /\ expected' = expected
      BY <2>6 DEF OperatorDrops, vars, Matched
    <3> QED BY <2>2, <3>1
  <2>7. CASE Normalize \/ RulesDone
             \/ \E s \in Keys : ApplyRule(s) \/ MatchKey(s)
    BY <2>7 DEF Normalize, RulesDone, ApplyRule, MatchKey, Matched
  <2> QED BY <2>3, <2>4, <2>5, <2>6, <2>7 DEF Next
<1> QED BY <1>1, <1>2, TypeCorrect, LoopsCorrect, FieldsCorrect, PTL DEF Spec

-----------------------------------------------------------------------------
(* What the mappings say *)

LEMMA RecordedInductive ==
  ASSUME TypeOK, LoopsInv, RulesInv, RulesRecorded, [Next]_vars
  PROVE  RulesRecorded'
<1> SUFFICES ASSUME Independent, stage' # "received", ~Triaged',
                    NEW s \in Keys, Applies(s)', s \notin pending'
             PROVE  mappings'[s] = rules[s]
  <2>1. rules' = rules
    BY DEF Next, vars, inputs, Normalize, ApplyRule, RulesDone, MatchKey,
           Classify, ModelMaps, OperatorMaps, OperatorDrops
  <2> QED BY <2>1 DEF RulesRecorded, Independent, Source
<1> USE DEF inputs
<1>1. rules' = rules /\ raw' = raw => Applies(s)
  BY DEF Applies, Source
<1>2. CASE Normalize
  BY <1>1, <1>2 DEF Normalize, Applies, Source
<1>3. ASSUME NEW r \in Keys, ApplyRule(r) PROVE mappings'[s] = rules[s]
  <2>1. Applies(s) /\ pending' = pending \ {r} /\ stage = "rules"
    BY <1>1, <1>3 DEF ApplyRule
  <2>2. CASE s = r
    <3>1. Applicable(s)
      BY <1>3, <2>1, <2>2, AppliedAsDeclared
    <3> QED BY <1>3, <2>2, <3>1 DEF ApplyRule, TypeOK
  <2>3. CASE s # r
    <3>1. mappings[s] = rules[s]
      BY <2>1, <2>3 DEF RulesRecorded, Triaged
    <3> QED BY <1>3, <2>3, <3>1 DEF ApplyRule, TypeOK
  <2> QED BY <2>2, <2>3
<1>4. ASSUME NEW k \in Keys, MatchKey(k) PROVE mappings'[s] = rules[s]
  <2>1. Applies(s) /\ s \notin pending /\ stage = "matching"
    BY <1>1, <1>4 DEF MatchKey
  <2>2. mappings[s] = rules[s] /\ payload[s] = Absent
    BY <2>1 DEF RulesRecorded, RulesInv, Triaged
  <2>3. s # k
    BY <1>4, <2>2, MatchStep
  <2> QED BY <1>4, <2>2, <2>3 DEF MatchKey, TypeOK
<1>5. ASSUME NEW k \in Keys, NEW d \in Keys, ModelMaps(k, d) \/ OperatorMaps(k, d)
      PROVE  mappings'[s] = rules[s]
  BY <1>5 DEF ModelMaps, OperatorMaps, Triaged
<1>6. CASE RulesDone \/ Classify \/ OperatorDrops \/ UNCHANGED vars
  <2>1. /\ mappings' = mappings /\ pending' = pending /\ Applies(s)
        /\ stage # "received" /\ ~Triaged
    BY <1>1, <1>6
       DEF RulesDone, Classify, OperatorDrops, vars, Triaged
  <2> QED BY <2>1 DEF RulesRecorded
<1> QED BY <1>2, <1>3, <1>4, <1>5, <1>6 DEF Next

(* Steps that leave the payloads alone.                                     *)
LEMMA PlacedFixed ==
  ASSUME PlacedInv, stage # "received", payload' = payload, turn' = turn,
         healed' = healed, mappings' = mappings, raw' = raw, Triaged' <=> Triaged
  PROVE  PlacedInv'
<1>1. Seen' = Seen
  BY DEF Seen
<1> QED BY <1>1 DEF PlacedInv, PlacedBy, Present

(* Before the first key is matched nothing is placed.                       *)
LEMMA PlacedEmpty ==
  ASSUME PlacedInv, Seen = {}, turn' = turn, healed' = healed, ~Triaged,
         \A x \in Present(payload)' : payload'[x].of \in raw' /\ payload'[x].normal
  PROVE  PlacedInv'
<1>1. Present(healed) = {}
  BY DEF PlacedInv
<1>2. Present(healed)' = {}
  BY <1>1 DEF Present
<1> QED BY <1>2 DEF PlacedInv

LEMMA MatchPlaces ==
  ASSUME TypeOK, LoopsInv, PlacedInv, NEW k \in Keys, MatchKey(k)
  PROVE  PlacedInv'
<1>1. /\ k \notin Seen /\ payload[k] # Absent
      /\ Seen' = Seen \cup {k} /\ Seen \subseteq Keys
      /\ payload' = payload /\ raw' = raw
      /\ ~Triaged /\ stage = "matching"
  BY MatchStep DEF Seen, Triaged
<1>2. PICK p \in Keys :
        /\ \A f \in Keys : healed'[f] = IF f = p THEN payload[k] ELSE healed[f]
        /\ p = k \/ mappings'[k] = p
        /\ \A x \in Keys : x # k => mappings'[x] = mappings[x]
  <2>1. CASE Match(k) = Absent \/ Match(k) \in used
    <3>1. healed' = [healed EXCEPT ![k] = payload[k]] /\ mappings' = mappings
      BY <2>1 DEF MatchKey
    <3> QED BY <3>1 DEF TypeOK, Dict
  <2>2. CASE ~(Match(k) = Absent \/ Match(k) \in used)
    <3> DEFINE m == Match(k)
    <3>1. /\ healed' = [healed EXCEPT ![m] = payload[k]]
          /\ mappings' = IF k = m THEN mappings ELSE [mappings EXCEPT ![k] = m]
      BY <2>2 DEF MatchKey
    <3>2. m \in Keys
      BY <2>2, MatchIsExpected DEF TypeOK
    <3> HIDE DEF m
    <3>3. \A f \in Keys : healed'[f] = IF f = m THEN payload[k] ELSE healed[f]
      BY <3>1, <3>2 DEF TypeOK, Dict
    <3>4. m = k \/ mappings'[k] = m
      BY <3>1 DEF TypeOK
    <3>5. \A x \in Keys : x # k => mappings'[x] = mappings[x]
      BY <3>1 DEF TypeOK
    <3> QED BY <3>2, <3>3, <3>4, <3>5
  <2> QED BY <2>1, <2>2
<1>3. \A f \in Present(healed)' : f \in Keys /\ (f # p => f \in Present(healed))
  BY <1>2 DEF Present
<1>4. \A x \in Seen : payload[x] # payload[k]
  BY <1>1 DEF LoopsInv, Present
<1>5. \A f \in Present(healed) : \E x \in Seen : PlacedBy(f, x)
  BY <1>1 DEF PlacedInv
<1>6. ASSUME NEW f \in Present(healed)' PROVE \E x \in Seen' : PlacedBy(f, x)'
  <2>1. CASE f = p
    <3>1. PlacedBy(f, k)'
      BY <1>1, <1>2, <2>1 DEF PlacedBy
    <3> QED BY <1>1, <3>1
  <2>2. CASE f # p
    <3>1. PICK x \in Seen : PlacedBy(f, x)
      BY <1>3, <1>5, <2>2
    <3>2. PlacedBy(f, x)'
      BY <1>1, <1>2, <1>3, <2>2, <3>1 DEF PlacedBy
    <3> QED BY <1>1, <3>2
  <2> QED BY <2>1, <2>2
<1>7. \A f \in Present(healed)' : f # p => healed'[f] = healed[f] /\ healed'[f] # payload[k]
  BY <1>2, <1>3, <1>4, <1>5 DEF PlacedBy
<1>8. ASSUME NEW f \in Present(healed)', NEW g \in Present(healed)',
             healed'[f] = healed'[g]
      PROVE  f = g
  BY <1>1, <1>2, <1>3, <1>7, <1>8 DEF PlacedInv
<1>9. payload[k].normal
  BY <1>1 DEF PlacedInv, Present
<1>10. \A f \in Present(healed)' : healed'[f].normal
  BY <1>1, <1>2, <1>3, <1>9 DEF PlacedInv
<1>11. Present(payload)' = Present(payload)
  BY <1>1 DEF Present
<1> QED BY <1>1, <1>6, <1>8, <1>10, <1>11 DEF PlacedInv

LEMMA PlacedInductive ==
  ASSUME TypeOK, LoopsInv, PlacedInv, [Next]_vars
  PROVE  PlacedInv'
<1> USE PayloadAssumption
<1> USE DEF inputs
<1>1. CASE Normalize
  <2>1. Seen = {} /\ ~Triaged
    BY <1>1 DEF Normalize, LoopsInv, Triaged
  <2>2. \A k \in Keys : payload'[k] = IF k \in raw THEN Normalized(k) ELSE Absent
    BY <1>1 DEF Normalize
  <2>3. \A k \in Keys : Normalized(k).of = k /\ Normalized(k).normal
    BY DEF Normalized
  <2>4. \A x \in Present(payload)' : payload'[x].of \in raw' /\ payload'[x].normal
    BY <1>1, <2>2, <2>3 DEF Normalize, Present
  <2> QED BY <1>1, <2>1, <2>4, PlacedEmpty DEF Normalize
<1>2. ASSUME NEW s \in Keys, ApplyRule(s) PROVE PlacedInv'
  <2>1. Seen = {} /\ ~Triaged /\ stage = "rules" /\ raw' = raw
    BY <1>2 DEF ApplyRule, LoopsInv, Triaged
  <2>2. \A x \in Present(payload)' : \E y \in Present(payload) : payload'[x] = payload[y]
    <3>1. CASE Applicable(s)
      <4>1. rules[s] \in Keys /\ s \in Present(payload)
        BY <1>2, <3>1 DEF ApplyRule, TypeOK, Applicable, Present
      <4>2. \A k \in Keys : payload'[k] \in {Absent, payload[s], payload[k]}
        BY <1>2, <3>1, <4>1 DEF ApplyRule, TypeOK, Dict
      <4> QED BY <4>1, <4>2 DEF Present
    <3>2. CASE ~Applicable(s)
      BY <1>2, <3>2 DEF ApplyRule, Present
    <3> QED BY <3>1, <3>2
  <2>3. \A x \in Present(payload)' : payload'[x].of \in raw' /\ payload'[x].normal
    BY <2>1, <2>2 DEF PlacedInv
  <2> QED BY <1>2, <2>1, <2>3, PlacedEmpty DEF ApplyRule
<1>3. CASE RulesDone
  BY <1>3, PlacedFixed DEF RulesDone, Triaged
<1>4. ASSUME NEW k \in Keys, MatchKey(k) PROVE PlacedInv'
  BY <1>4, MatchPlaces
<1>5. CASE Classify
  BY <1>5, PlacedFixed DEF Classify, Verdict, Triaged
<1>6. ASSUME NEW k \in Keys, NEW d \in Keys, ModelMaps(k, d) \/ OperatorMaps(k, d)
      PROVE  PlacedInv'
  <2>1. Triaged' /\ payload' = payload /\ raw' = raw /\ stage # "received"
    BY <1>6 DEF ModelMaps, OperatorMaps, Triaged
  <2> QED BY <2>1 DEF PlacedInv, Present
<1>7. CASE OperatorDrops
  BY <1>7, PlacedFixed DEF OperatorDrops, Triaged
<1>8. CASE UNCHANGED vars
  BY <1>8 DEF vars, PlacedInv, PlacedBy, Present, Seen, Triaged
<1> QED BY <1>1, <1>2, <1>3, <1>4, <1>5, <1>6, <1>7, <1>8 DEF Next

(* Where a value is after the rules: under the key it arrived under, or     *)
(* under a name that did not arrive and that its rule is on record for.     *)
LEMMA WhereRulesPut ==
  ASSUME TypeOK, RulesInv, RulesRecorded, PlacedInv, Independent,
         stage # "received", ~Triaged, pending = {},
         NEW x \in Present(payload)
  PROVE  /\ payload[x].of \in raw
         /\ \/ payload[x].of = x
            \/ x \notin raw /\ mappings[payload[x].of] = x
<1>1. payload[x].of \in raw /\ x \in Keys /\ payload[x] # Absent
  BY DEF PlacedInv, Present
<1>2. \A k \in Keys : Normalized(k).of = k
  BY DEF Normalized
<1>3. CASE x \in raw
  <2>1. payload[x] = Normalized(x)
    BY <1>1, <1>3 DEF RulesInv
  <2> QED BY <1>1, <1>2, <2>1
<1>4. CASE x \notin raw
  <2>1. PICK s \in Keys : Applies(s) /\ rules[s] = x
    BY <1>1, <1>4 DEF RulesInv
  <2>2. payload[x] = Normalized(s) /\ mappings[s] = x
    BY <2>1 DEF RulesInv, RulesRecorded
  <2> QED BY <1>1, <1>2, <1>4, <2>2
<1> QED BY <1>3, <1>4

LEMMA MatchesAreExplained ==
  ASSUME TypeOK, LoopsInv, RulesInv, RulesRecorded, PlacedInv, Independent,
         stage # "received", ~Triaged, pending = {},
         NEW f \in Present(healed)
  PROVE  Explained(f)
<1>1. PICK x \in Seen : PlacedBy(f, x)
  BY DEF PlacedInv
<1>2. x \in Present(payload) /\ payload[x].of \in Keys
  BY <1>1, WhereRulesPut DEF LoopsInv, TypeOK
<1>3. \/ payload[x].of = x
      \/ mappings[payload[x].of] = x
  BY <1>2, WhereRulesPut
<1>4. x # Absent
  BY <1>2, PayloadAssumption DEF Present
<1> QED BY <1>1, <1>3, <1>4 DEF PlacedBy, Explained

(* Triage renames a parked key, by hand or by the model.  No other value    *)
(* goes by what is recorded for that key.                                   *)
LEMMA TriageIsExplained ==
  ASSUME TypeOK, LoopsInv, RulesInv, RulesRecorded, PlacedInv, FieldInvs,
         VerdictInv, Independent, stage = "uncertain", pending = {},
         NEW k \in parked, NEW d \in Keys, healed[d] = Absent,
         healed' = [healed EXCEPT ![d] = healed[k], ![k] = Absent],
         mappings' = [mappings EXCEPT ![k] = d],
         NEW f \in Present(healed)'
  PROVE  Explained(f)'
<1>1. k \in Keys /\ k \in Present(healed) /\ k \notin expected
  BY DEF VerdictInv, Uncertain, Present
<1>2. k \in Seen /\ healed[k] = payload[k] /\ d # k /\ d # Absent
  BY <1>1, PayloadAssumption
     DEF FieldInvs, FieldsAsDeclared, Triaged, Present
<1>3. k \in Present(payload)
  BY <1>2 DEF LoopsInv
<1>4. /\ f \in Keys /\ f # k
      /\ \A g \in Keys : healed'[g] = IF g = k THEN Absent
                                     ELSE IF g = d THEN healed[k] ELSE healed[g]
      /\ \A g \in Keys : mappings'[g] = IF g = k THEN d ELSE mappings[g]
  BY <1>1, <1>2 DEF TypeOK, Dict, Present
<1>5. ~Triaged /\ stage # "received"
  BY DEF Triaged
<1>6. \A x \in Present(payload) :
        /\ payload[x].of \in raw /\ payload[x].of \in Keys
        /\ \/ payload[x].of = x
           \/ x \notin raw /\ mappings[payload[x].of] = x
  BY <1>5, WhereRulesPut DEF TypeOK
<1>7. CASE f = d
  <2>1. healed'[f] = payload[k]
    BY <1>2, <1>4, <1>7
  <2>2. mappings'[k] = f
    BY <1>1, <1>4, <1>7
  <2>3. CASE payload[k].of = k
    BY <2>1, <2>2, <2>3 DEF Explained
  <2>4. CASE payload[k].of # k
    <3>1. mappings'[payload[k].of] = k /\ k # Absent
      BY <1>1, <1>3, <1>4, <1>6, <2>4, PayloadAssumption
    <3> QED BY <2>1, <2>2, <3>1 DEF Explained
  <2> QED BY <2>3, <2>4
<1>8. CASE f # d
  <2>1. healed'[f] = healed[f] /\ f \in Present(healed)
    BY <1>4, <1>8 DEF Present
  <2>2. PICK x \in Seen : PlacedBy(f, x)
    BY <1>5, <2>1 DEF PlacedInv
  <2>3. x \in Present(payload) /\ x \in Keys /\ x # Absent
    BY <2>2, PayloadAssumption DEF LoopsInv, Present
  <2>4. x # k
    BY <1>1, <1>2, <1>4, <1>5, <2>1, <2>2 DEF PlacedInv, PlacedBy
  <2> DEFINE u == payload[x].of
  <2>5. u # k
    <3>1. payload[k].of # u
      BY <1>3, <2>3, <2>4 DEF LoopsInv
    <3> QED BY <1>3, <1>6, <2>3, <3>1
  <2>6. mappings'[u] = mappings[u] /\ mappings'[x] = mappings[x]
    BY <1>4, <1>6, <2>3, <2>4, <2>5
  <2>7. u = x \/ mappings'[u] = x
    BY <1>6, <2>3, <2>6
  <2>8. f = x \/ mappings'[x] = f
    BY <2>2, <2>6 DEF PlacedBy
  <2>9. healed'[f].of = u
    BY <2>1, <2>2 DEF PlacedBy
  <2> HIDE DEF u
  <2> QED BY <2>3, <2>7, <2>8, <2>9 DEF Explained
<1> QED BY <1>7, <1>8

MappedInvs ==
  /\ TypeOK /\ LoopsInv /\ RulesInv /\ RulesRecorded /\ PlacedInv
  /\ FieldInvs /\ VerdictInv
  /\ stage \notin {"received", "rules"} => pending = {}

LEMMA MappedCorrect == Spec => []MappedInvs
<1>1. Init => RulesInv /\ RulesRecorded /\ PlacedInv
  <2> SUFFICES ASSUME Init PROVE PlacedInv
    BY DEF Init, RulesInv, RulesRecorded
  <2>1. \A x \in Present(payload) : payload[x] = Raw(x) /\ x \in raw
    BY DEF Init, Present
  <2>2. Present(healed) = {} /\ \A x \in Keys : Raw(x).of = x
    BY DEF Init, Nothing, Present, Raw
  <2>3. \A x \in Present(payload) : payload[x].of \in raw
    BY <2>1, <2>2 DEF Present
  <2> QED BY <2>2, <2>3 DEF Init, PlacedInv
<1>2. TypeOK /\ LoopsInv /\ RulesInv /\ RulesRecorded /\ PlacedInv /\ [Next]_vars
        => RulesInv' /\ RulesRecorded' /\ PlacedInv'
  BY RulesInductive, RecordedInductive, PlacedInductive
<1> QED BY <1>1, <1>2, TypeCorrect, LoopsCorrect, FieldsCorrect, VerdictCorrect,
           NothingPending, PTL DEF Spec, MappedInvs

(* The recorded mappings lead from the key a value arrived under to the one *)
(* it goes out under, through rules, matching and triage.                   *)
THEOREM MappingsLeadThere == Spec => []MappingsExplain
<1>1. MappedInvs /\ ~Triaged => MappingsExplain
  BY MatchesAreExplained DEF MappedInvs, MappingsExplain, Matched
<1>2. Init => ~Triaged
  BY DEF Init, Triaged
<1>3. MappedInvs /\ MappingsExplain /\ [Next]_vars => (Triaged' => MappingsExplain')
  <2> SUFFICES ASSUME MappedInvs, MappingsExplain, [Next]_vars, Triaged'
               PROVE  MappingsExplain'
    OBVIOUS
  <2> USE DEF inputs
  <2>1. ASSUME NEW k \in Keys, NEW d \in Keys, ModelMaps(k, d)
        PROVE  MappingsExplain'
    <3> SUFFICES ASSUME Independent, NEW f \in Present(healed)'
                 PROVE  Explained(f)'
      BY <2>1 DEF ModelMaps, MappingsExplain, Independent, Source
    <3> QED BY <2>1, TriageIsExplained DEF ModelMaps, FirstParked, MappedInvs
  <2>2. ASSUME NEW k \in Keys, NEW d \in Keys, OperatorMaps(k, d)
        PROVE  MappingsExplain'
    <3> SUFFICES ASSUME Independent, Unrecognised \subseteq parked,
                        NEW f \in Present(healed)'
                 PROVE  Explained(f)'
      BY <2>2 DEF OperatorMaps, MappingsExplain, Independent, Source, Unrecognised
    <3>1. k \in parked
      BY <2>2 DEF OperatorMaps
    <3>2. healed[k] # Absent
      BY <2>2, <3>1 DEF OperatorMaps, MappedInvs, VerdictInv, Uncertain, Present
    <3>3. healed' = [healed EXCEPT ![d] = healed[k], ![k] = Absent]
      BY <2>2, <3>2 DEF OperatorMaps
    <3> QED BY <2>2, <3>1, <3>3, TriageIsExplained DEF OperatorMaps, MappedInvs
  <2>3. CASE UNCHANGED vars
    BY <2>3 DEF vars, MappingsExplain, Matched, Independent, Source, Unrecognised,
               Explained, Present
  <2>4. CASE Normalize \/ RulesDone \/ Classify \/ OperatorDrops
             \/ \E k \in Keys : ApplyRule(k) \/ MatchKey(k)
    BY <2>4 DEF Normalize, RulesDone, Classify, Verdict, OperatorDrops, ApplyRule,
               MatchKey, Triaged
  <2> QED BY <2>1, <2>2, <2>3, <2>4 DEF Next
<1> QED BY <1>1, <1>2, <1>3, MappedCorrect, PTL DEF Spec

-----------------------------------------------------------------------------
(* What an operator decides *)

(* Where no rule has renamed a key and the request expects what an operator *)
(* may choose, the one key the operator finds is the one that is parked.    *)
LEMMA OperatorFindsParked ==
  ASSUME TypeOK, LoopsInv, FieldInvs, VerdictInv, PlacedInv, NoRuleApplied,
         Allowed \subseteq expected, stage = "uncertain",
         NEW k \in Keys, Unrecognised = {k}
  PROVE  parked = {k} /\ k \notin Allowed /\ healed[k] # Absent
<1>1. ~Triaged /\ parked = Uncertain /\ parked # {}
  BY DEF VerdictInv, Triaged
<1>2. ASSUME NEW f \in parked PROVE f = k
  <2>1. f \in Keys /\ healed[f] # Absent /\ f \notin expected
    BY <1>1 DEF Uncertain, Present
  <2>2. f \in Present(payload)
    BY <1>1, <2>1 DEF FieldInvs, FieldsAsDeclared, LoopsInv
  <2>3. f \in raw
    BY <2>2 DEF NoRuleApplied, PlacedInv, Present
  <2> QED BY <2>1, <2>3 DEF Unrecognised
<1>3. parked = {k}
  BY <1>1, <1>2
<1>4. healed[k] # Absent
  BY <1>1, <1>3 DEF Uncertain, Present
<1> QED BY <1>3, <1>4 DEF Unrecognised

(* An operator's mapping leaves nothing parked in the payload and sends     *)
(* what was parked, normalised.                                             *)
THEOREM OperatorDecides == Spec => []OperatorDecidesParked
<1>1. Init => OperatorDecidesParked
  BY DEF Init, OperatorDecidesParked
<1>2. MappedInvs /\ OperatorDecidesParked /\ [Next]_vars => OperatorDecidesParked'
  <2> SUFFICES ASSUME MappedInvs, OperatorDecidesParked, [Next]_vars,
                      stage' = "mapped by operator", NoRuleApplied',
                      Allowed \subseteq expected'
               PROVE  /\ parked' = Unrecognised'
                      /\ parked' \cap Present(healed)' = {}
                      /\ \A f \in Present(healed)' : healed'[f].normal
    BY DEF OperatorDecidesParked
  <2> USE DEF inputs
  <2>1. ASSUME NEW k \in Keys, NEW d \in Keys, OperatorMaps(k, d)
        PROVE  /\ parked' = Unrecognised'
               /\ parked' \cap Present(healed)' = {}
               /\ \A f \in Present(healed)' : healed'[f].normal
    <3>1. /\ stage = "uncertain" /\ Unrecognised = {k} /\ d \in Allowed
          /\ parked' = parked /\ Unrecognised' = Unrecognised
          /\ NoRuleApplied /\ Allowed \subseteq expected /\ ~Triaged
      BY <2>1 DEF OperatorMaps, NoRuleApplied, Unrecognised, Triaged
    <3>2. parked = {k} /\ k \notin Allowed /\ healed[k] # Absent
      BY <3>1, OperatorFindsParked DEF MappedInvs
    <3>3. \A f \in Keys : healed'[f] = IF f = k THEN Absent
                                      ELSE IF f = d THEN healed[k] ELSE healed[f]
      BY <2>1, <3>1, <3>2 DEF OperatorMaps, MappedInvs, TypeOK, Dict
    <3>4. \A f \in Keys : healed[f] # Absent => healed[f].normal
      BY <3>1 DEF MappedInvs, PlacedInv, Present
    <3> QED BY <3>1, <3>2, <3>3, <3>4 DEF Present
  <2>2. CASE UNCHANGED vars
    BY <2>2 DEF vars, OperatorDecidesParked, NoRuleApplied, Unrecognised, Present
  <2>3. CASE Normalize \/ RulesDone \/ Classify \/ OperatorDrops
             \/ (\E k \in Keys : ApplyRule(k) \/ MatchKey(k))
             \/ \E k, d \in Keys : ModelMaps(k, d)
    BY <2>3 DEF Normalize, RulesDone, Classify, Verdict, OperatorDrops, ApplyRule,
               MatchKey, ModelMaps
  <2> QED BY <2>1, <2>2, <2>3 DEF Next
<1> QED BY <1>1, <1>2, MappedCorrect, PTL DEF Spec

=============================================================================
