--------------------------- MODULE PayloadMapping ---------------------------
(***************************************************************************)
(* What happens to the top-level keys of one webhook's payload: values are *)
(* normalised, the bridge's mapping rules rename keys, what is left is     *)
(* matched with the expected fields, the verdict is given, and a parked    *)
(* payload is renamed once more by the model or by an operator.            *)
(*                                                                         *)
(* A payload is a dict, [Keys -> Value \cup {Absent}] here.  The order of  *)
(* its keys decides who gets a field, so each loop of the code takes one   *)
(* key per step.  The order in which the keys arrived is chosen as the     *)
(* matching loop goes on; keys that a rule has renamed come after them.    *)
(* Who may act on a parked event at all is the subject of Triage.          *)
(***************************************************************************)
EXTENDS Naturals, FiniteSets

CONSTANTS
  Keys,          \* names: of payload keys and of expected fields
  Absent,        \* no value, or no name
  Alias,         \* KNOWN_FIELD_ALIASES, Absent for the keys without one
  Score,         \* similarity() of two names, in hundredths
  NameRank,      \* rank of names, the last in the alphabet first: it decides
                 \* between equal scores
  Threshold,     \* DEFAULT_MATCH_THRESHOLD, in hundredths
  Required,      \* the fields without which a payload is rejected
  Allowed,       \* allowed_keys of resolve_triage_event
  Destinations,  \* VALID_DESTINATION_KEYS of the model
  ExpectedLists, \* bound: the expected_fields a request comes with
  MaxKeys,       \* bound: the keys of a payload
  RuleSets       \* bound: a bridge's rules, each source with its target

(* A value is known by the key it arrived under.                            *)
Value == [of: Keys, normal: BOOLEAN]

ASSUME PayloadAssumption ==
  /\ Absent \notin Keys \cup Value
  /\ Alias \in [Keys -> Keys \cup {Absent}]
  /\ Score \in [Keys -> [Keys -> 0 .. 100]]
  /\ NameRank \in [Keys -> Nat]
  /\ \A k, l \in Keys : NameRank[k] = NameRank[l] => k = l
  /\ Threshold \in Nat
  /\ Required \subseteq Allowed
  /\ Allowed \subseteq Keys
  /\ Destinations \subseteq Keys
  /\ ExpectedLists \subseteq SUBSET Keys
  /\ MaxKeys \in Nat
  /\ RuleSets \subseteq [Keys -> Keys \cup {Absent}]

VARIABLES
  stage,
  raw,       \* the keys of raw_payload
  expected,  \* expected_fields
  rules,     \* the snapshot of the bridge's mappings
  legacy,    \* the sources among them that inventory_mappings has a row for
  pending,   \* sources the loop over the rules has not come to
  payload,   \* mapped_payload of apply_persisted_mappings
  moved,     \* when a rule inserted the key at the end of the dict, or 0
  turn,      \* when the matching loop came to the key, or 0
  used,      \* used_expected
  healed,    \* mapped_payload of map_payload_keys, then healed_payload
  mappings,  \* key_mappings
  parked,    \* uncertain_keys
  clock      \* iterations of the two loops

vars == <<stage, raw, expected, rules, legacy, pending, payload, moved, turn,
          used, healed, mappings, parked, clock>>

inputs == <<raw, expected, rules, legacy>>

-----------------------------------------------------------------------------
(* Types *)

Raw(k)        == [of |-> k, normal |-> FALSE]
Normalized(k) == [of |-> k, normal |-> TRUE]

Dict == [Keys -> Value \cup {Absent}]
Present(d) == {k \in Keys : d[k] # Absent}

Stages == {"received", "rules", "matching", "rejected", "uncertain", "healed",
           "validated", "mapped by model", "mapped by operator", "dropped"}

TypeOK ==
  /\ stage \in Stages
  /\ raw \subseteq Keys
  /\ expected \subseteq Keys
  /\ rules \in [Keys -> Keys \cup {Absent}]
  /\ legacy \subseteq Keys
  /\ pending \subseteq {k \in Keys : rules[k] # Absent}
  /\ payload \in Dict
  /\ moved \in [Keys -> Nat]
  /\ turn \in [Keys -> Nat]
  /\ used \subseteq expected
  /\ healed \in Dict
  /\ mappings \in [Keys -> Keys \cup {Absent}]
  /\ parked \subseteq Keys
  /\ clock \in Nat

Nothing == [k \in Keys |-> Absent]
Never   == [k \in Keys |-> 0]

Init ==
  /\ stage = "received"
  /\ raw \in SUBSET Keys
  /\ Cardinality(raw) <= MaxKeys
  /\ expected \in ExpectedLists
  /\ rules \in RuleSets
  /\ legacy \in SUBSET {k \in Keys : rules[k] # Absent}
  /\ pending = {}
  /\ payload = [k \in Keys |-> IF k \in raw THEN Raw(k) ELSE Absent]
  /\ moved = Never
  /\ turn = Never
  /\ used = {}
  /\ healed = Nothing
  /\ mappings = Nothing
  /\ parked = {}
  /\ clock = 0

-----------------------------------------------------------------------------
(* Renaming by rule *)

Normalize ==
  /\ stage = "received"
  /\ stage' = "rules"
  /\ payload' = [k \in Keys |-> IF k \in raw THEN Normalized(k) ELSE Absent]
  /\ pending' = {k \in Keys : rules[k] # Absent}
  /\ UNCHANGED <<inputs, moved, turn, used, healed, mappings, parked, clock>>

(* Mutant: a rule's target is not looked at.                                *)
ApplicableBlindly(s) == payload[s] # Absent

Applicable(s) == payload[s] # Absent /\ payload[rules[s]] = Absent

(* Legacy mappings come first.  Neither SELECT has an ORDER BY.             *)
ApplyRule(s) ==
  /\ stage = "rules"
  /\ s \in pending
  /\ pending \cap legacy # {} => s \in legacy
  /\ pending' = pending \ {s}
  /\ clock' = clock + 1
  /\ IF Applicable(s)
     THEN /\ payload'  = [payload EXCEPT ![rules[s]] = payload[s],
                                         ![s] = Absent]
          /\ moved'    = [moved EXCEPT ![rules[s]] = clock + 1, ![s] = 0]
          /\ mappings' = [mappings EXCEPT ![s] = rules[s]]
     ELSE UNCHANGED <<payload, moved, mappings>>
  /\ UNCHANGED <<stage, inputs, turn, used, healed, parked>>

RulesDone ==
  /\ stage = "rules"
  /\ pending = {}
  /\ stage' = "matching"
  /\ UNCHANGED <<inputs, pending, payload, moved, turn, used, healed, mappings,
                 parked, clock>>

-----------------------------------------------------------------------------
(* Matching with the expected fields *)

(* The field with the greatest pair of score and name.                      *)
MostSimilar(k, e) ==
  \A f \in expected : \/ Score[k][e] > Score[k][f]
                      \/ Score[k][e] = Score[k][f] /\ NameRank[e] <= NameRank[f]

SimilarTo(k) ==
  {e \in expected : MostSimilar(k, e) /\ Score[k][e] >= Threshold}

(* Mutant: an alias is taken whether or not it is expected.                 *)
MatchAnyAlias(k) ==
  CASE k \in expected -> k
    [] k \notin expected /\ Alias[k] # Absent -> Alias[k]
    [] k \notin expected /\ Alias[k] = Absent ->
         IF SimilarTo(k) # {} THEN CHOOSE e \in SimilarTo(k) : TRUE ELSE Absent

(* best_key_match: the key itself, its alias, or what is similar enough.    *)
Match(k) ==
  CASE k \in expected -> k
    [] k \notin expected /\ Alias[k] \in expected -> Alias[k]
    [] k \notin expected /\ Alias[k] \notin expected ->
         IF SimilarTo(k) # {} THEN CHOOSE e \in SimilarTo(k) : TRUE ELSE Absent

Seen   == {k \in Keys : turn[k] # 0}
Unseen == Present(payload) \ Seen

(* In the order of the dict: what a rule has inserted comes last.           *)
IsNext(k) ==
  /\ k \in Unseen
  /\ \A l \in Unseen : moved[k] <= moved[l]

(* Mutant: whoever comes later takes the field.                             *)
MatchKeyOverwriting(k) ==
  /\ stage = "matching"
  /\ IsNext(k)
  /\ clock' = clock + 1
  /\ turn' = [turn EXCEPT ![k] = clock + 1]
  /\ LET m == Match(k) IN
     IF m = Absent
     THEN /\ healed' = [healed EXCEPT ![k] = payload[k]]
          /\ UNCHANGED <<used, mappings>>
     ELSE /\ healed' = [healed EXCEPT ![m] = payload[k]]
          /\ used' = used \cup {m}
          /\ mappings' = IF k = m THEN mappings
                                  ELSE [mappings EXCEPT ![k] = m]
  /\ UNCHANGED <<stage, inputs, pending, payload, moved, parked>>

(* A key whose field is taken keeps its name.  Where that name is the       *)
(* field's own, this overwrites what a similar key has put there.           *)
MatchKey(k) ==
  /\ stage = "matching"
  /\ IsNext(k)
  /\ clock' = clock + 1
  /\ turn' = [turn EXCEPT ![k] = clock + 1]
  /\ LET m == Match(k) IN
     IF m = Absent \/ m \in used
     THEN /\ healed' = [healed EXCEPT ![k] = payload[k]]
          /\ UNCHANGED <<used, mappings>>
     ELSE /\ healed' = [healed EXCEPT ![m] = payload[k]]
          /\ used' = used \cup {m}
          /\ mappings' = IF k = m THEN mappings
                                  ELSE [mappings EXCEPT ![k] = m]
  /\ UNCHANGED <<stage, inputs, pending, payload, moved, parked>>

-----------------------------------------------------------------------------
(* The verdict *)

(* Mutant: an alias of anything is good enough.                             *)
ConfidentInAliases(k) ==
  \/ k \in expected
  \/ Alias[k] # Absent
  \/ \E e \in expected : Score[k][e] >= Threshold

(* key_confidence(k) >= DEFAULT_MATCH_THRESHOLD                             *)
Confident(k) ==
  \/ k \in expected
  \/ Alias[k] \in expected
  \/ \E e \in expected : Score[k][e] >= Threshold

Uncertain == {k \in Present(healed) : k \notin expected /\ ~Confident(k)}

Changed == \E k \in Keys : mappings[k] # Absent

(* Mutant: every payload passes.                                            *)
VerdictLenient ==
  IF Uncertain # {} THEN "uncertain" ELSE IF Changed THEN "healed"
                                                     ELSE "validated"

Verdict ==
  CASE ~(Required \subseteq Present(healed)) -> "rejected"
    [] Required \subseteq Present(healed) /\ Uncertain # {} -> "uncertain"
    [] Required \subseteq Present(healed) /\ Uncertain = {} ->
         IF Changed THEN "healed" ELSE "validated"

Classify ==
  /\ stage = "matching"
  /\ Unseen = {}
  /\ stage' = Verdict
  /\ parked' = IF Verdict = "uncertain" THEN Uncertain ELSE {}
  /\ UNCHANGED <<inputs, pending, payload, moved, turn, used, healed, mappings,
                 clock>>

-----------------------------------------------------------------------------
(* Triage of a parked payload *)

(* uncertain_keys[0]                                                        *)
FirstParked(k) == k \in parked /\ \A l \in parked : turn[k] <= turn[l]

(* Mutant: the mapping is not recorded.                                     *)
ModelMapsSilently(k, d) ==
  /\ stage = "uncertain"
  /\ FirstParked(k)
  /\ d \in Destinations
  /\ healed[d] = Absent
  /\ stage' = "mapped by model"
  /\ healed' = [healed EXCEPT ![d] = healed[k], ![k] = Absent]
  /\ UNCHANGED <<inputs, pending, payload, moved, turn, used, mappings, parked,
                 clock>>

(* resolve_and_forward_uncertain, when the model is sure of d.              *)
ModelMaps(k, d) ==
  /\ stage = "uncertain"
  /\ FirstParked(k)
  /\ d \in Destinations
  /\ healed[d] = Absent
  /\ stage' = "mapped by model"
  /\ healed' = [healed EXCEPT ![d] = healed[k], ![k] = Absent]
  /\ mappings' = [mappings EXCEPT ![k] = d]
  /\ UNCHANGED <<inputs, pending, payload, moved, turn, used, parked, clock>>

Unrecognised == raw \ Allowed

(* Mutant: any of several unrecognised keys is taken.                       *)
OperatorMapsAny(k, d) ==
  /\ stage = "uncertain"
  /\ k \in Unrecognised
  /\ d \in Allowed
  /\ healed[d] = Absent
  /\ stage' = "mapped by operator"
  /\ healed' = [healed EXCEPT
                  ![d] = IF healed[k] # Absent THEN healed[k] ELSE Raw(k),
                  ![k] = Absent]
  /\ mappings' = [mappings EXCEPT ![k] = d]
  /\ UNCHANGED <<inputs, pending, payload, moved, turn, used, parked, clock>>

(* resolve_triage_event, action "map": the key is looked for among those    *)
(* that arrived.  If the healed payload has lost it, the value is the one   *)
(* that arrived.                                                            *)
OperatorMaps(k, d) ==
  /\ stage = "uncertain"
  /\ Unrecognised = {k}
  /\ d \in Allowed
  /\ healed[d] = Absent
  /\ stage' = "mapped by operator"
  /\ healed' = [healed EXCEPT
                  ![d] = IF healed[k] # Absent THEN healed[k] ELSE Raw(k),
                  ![k] = Absent]
  /\ mappings' = [mappings EXCEPT ![k] = d]
  /\ UNCHANGED <<inputs, pending, payload, moved, turn, used, parked, clock>>

OperatorDrops ==
  /\ stage = "uncertain"
  /\ stage' = "dropped"
  /\ UNCHANGED <<inputs, pending, payload, moved, turn, used, healed, mappings,
                 parked, clock>>

Next ==
  \/ Normalize
  \/ \E s \in Keys : ApplyRule(s)
  \/ RulesDone
  \/ \E k \in Keys : MatchKey(k)
  \/ Classify
  \/ \E k, d \in Keys : ModelMaps(k, d) \/ OperatorMaps(k, d)
  \/ OperatorDrops

Spec == Init /\ [][Next]_vars

-----------------------------------------------------------------------------
(* Properties *)

Matched   == stage \notin {"received", "rules", "matching"}
Triaged   == stage \in {"mapped by model", "mapped by operator"}
Forwarded == stage \in {"healed", "validated"} \/ Triaged

(* Rules that do not feed each other and do not compete.                    *)
Source(s) == rules[s] # Absent
Independent ==
  \A s, t \in Keys : Source(s) /\ Source(t) =>
    /\ rules[s] # t
    /\ rules[s] = rules[t] => s = t

(* For such rules the order in which the database returns them is           *)
(* irrelevant: every key with a rule ends under the target unless that      *)
(* arrived too, and every other key where it was.                           *)
Applies(s) == Source(s) /\ s \in raw /\ rules[s] \notin raw

RulesAsDeclared ==
  Independent /\ stage \notin {"received", "rules"} =>
    \A k \in Keys :
      /\ k \in raw /\ ~Applies(k) => payload[k] = Normalized(k)
      /\ Applies(k) => payload[k] = Absent /\ payload[rules[k]] = Normalized(k)
      /\ payload[k] # Absent /\ k \notin raw =>
           \E s \in Keys : Applies(s) /\ rules[s] = k

(* The matching loop against what it is to compute.  A field has its own    *)
(* key's value, or else that of the first key matched with it; every other  *)
(* key stays as it is.  In no order of keys does a field come to be filled  *)
(* by anyone else, or left empty with a match at hand.                      *)
Winner(k) ==
  /\ k \in Seen
  /\ Match(k) # Absent
  /\ \A l \in Seen : Match(l) = Match(k) => turn[k] <= turn[l]

FieldsAsDeclared ==
  ~Triaged =>
    /\ \A e \in expected :
         /\ e \in Seen => healed[e] = payload[e]
         /\ e \notin Seen =>
              \A k \in Keys : Winner(k) /\ Match(k) = e => healed[e] = payload[k]
         /\ healed[e] # Absent => \E k \in Seen : Match(k) = e
    /\ \A k \in Keys \ expected :
         healed[k] = IF k \in Seen /\ ~Winner(k) THEN payload[k] ELSE Absent

(* README.md:141: "Duplicate destination assignments are not overwritten."  *)
(* They are, by the field's own key when it comes later; nothing else ever  *)
(* makes a value disappear, from arrival to the end of triage.              *)
LostToOwnKey(k) ==
  \E r \in Seen : /\ payload[r].of = k
                  /\ Match(r) \in Seen \ {r}
                  /\ turn[r] < turn[Match(r)]

LostOnlyToOwnKey ==
  Matched => \A k \in raw :
    \/ \E f \in Present(healed) : healed[f].of = k
    \/ LostToOwnKey(k)

(* What goes out without triage has no key that is unknown to the target,   *)
(* but for a runner-up whose field another key has filled.                  *)
LeftoverIsRival ==
  stage \in {"healed", "validated"} =>
    \A k \in Present(healed) \ expected :
      /\ Match(k) # Absent
      /\ healed[Match(k)] # Absent
      /\ healed[Match(k)] # healed[k]

(* Triage renames what is parked, and no expected field is ever parked: a   *)
(* payload that goes out has the required fields the request expects.       *)
RequiredIsForwarded ==
  Forwarded => Required \cap expected \subseteq Present(healed)

(* The recorded mappings explain the payload: they lead from the key a      *)
(* value arrived under to the one it goes out under.  An operator's mapping *)
(* does so if its key is parked; one that was matched, while the request    *)
(* does not expect what is parked, gets a second entry over its first.      *)
NoRuleApplied == \A s \in Keys : payload[s] # Absent => payload[s].of = s

Explained(f) ==
  LET k == healed[f].of
  IN  \/ f = k
      \/ mappings[k] = f
      \/ mappings[k] # Absent /\ mappings[mappings[k]] = f

MappingsExplain ==
  Matched /\ Independent
  /\ (stage = "mapped by operator" => Unrecognised \subseteq parked) =>
    \A f \in Present(healed) : Explained(f)

(* Where the request expects what an operator may choose, as it does by     *)
(* default, an operator decides the parked key, all that is parked, and     *)
(* sends the normalised value, unless a rule has renamed the key: then the  *)
(* value goes out twice, and as it arrived.                                 *)
OperatorDecidesParked ==
  stage = "mapped by operator" /\ NoRuleApplied /\ Allowed \subseteq expected =>
    /\ parked = Unrecognised
    /\ parked \cap Present(healed) = {}
    /\ \A f \in Present(healed) : healed[f].normal

-----------------------------------------------------------------------------
(* What the properties rest on *)

(* Each raw key's value is under one key of the mapped payload; nothing is  *)
(* matched before the rules are done, nothing left when the loop is.        *)
LoopsInv ==
  /\ \A k, l \in Present(payload) : payload[k].of = payload[l].of => k = l
  /\ \A k \in raw : \E f \in Present(payload) : payload[f].of = k
  /\ Seen \subseteq Present(payload)
  /\ \A k, l \in Seen : turn[k] = turn[l] => k = l
  /\ \A k \in Keys : turn[k] <= clock
  /\ stage \in {"received", "rules"} => Seen = {}
  /\ stage = "received" => /\ pending = {}
                           /\ \A k \in Keys : payload[k] # Absent => k \in raw
  /\ Matched => Unseen = {}

(* The loop over the rules, on its way.                                     *)
RulesInv ==
  Independent /\ stage # "received" =>
    \A k \in Keys :
      /\ k \in raw /\ ~(Applies(k) /\ k \notin pending) =>
           payload[k] = Normalized(k)
      /\ Applies(k) /\ k \notin pending =>
           payload[k] = Absent /\ payload[rules[k]] = Normalized(k)
      /\ payload[k] # Absent /\ k \notin raw =>
           \E s \in Keys : Applies(s) /\ s \notin pending /\ rules[s] = k

(* The fields in use are those some key was matched with, and each holds    *)
(* the value of its own key or of a winner.                                 *)
FilledBy(e, x) ==
  /\ x \in Seen
  /\ Match(x) = e
  /\ healed[e] = payload[x]
  /\ x = e \/ Winner(x)

FieldsInv ==
  /\ \A k \in Seen : Match(k) # Absent => Match(k) \in used
  /\ ~Triaged => \A e \in used : \E x \in Keys : FilledBy(e, x)
  /\ ~Triaged => \A k \in Seen : \/ \E f \in Keys : healed[f] = payload[k]
                                 \/ /\ Match(k) \in Seen \ {k}
                                    /\ turn[k] < turn[Match(k)]

(* What the verdict has seen to.                                            *)
VerdictInv ==
  /\ stage \in {"uncertain", "healed", "validated"} =>
       Required \subseteq Present(healed)
  /\ stage \in {"healed", "validated"} => Uncertain = {}
  /\ parked \cap expected = {}
  /\ stage = "uncertain" => parked = Uncertain /\ parked # {}

(* A rule that did what it declares is on record, until triage.             *)
RulesRecorded ==
  Independent /\ stage # "received" /\ ~Triaged =>
    \A s \in Keys : Applies(s) /\ s \notin pending => mappings[s] = rules[s]

(* What is under a name is a value matched with it, or one that kept its    *)
(* own; each value is there once, and it is one of those that arrived.      *)
PlacedBy(f, x) == healed[f] = payload[x] /\ (f = x \/ mappings[x] = f)

PlacedInv ==
  /\ ~Triaged => \A f \in Present(healed) : \E x \in Seen : PlacedBy(f, x)
  /\ ~Triaged => \A f, g \in Present(healed) : healed[f] = healed[g] => f = g
  /\ \A x \in Present(payload) : payload[x].of \in raw
  /\ stage # "received" => \A x \in Present(payload) : payload[x].normal
  /\ ~Triaged => \A f \in Present(healed) : healed[f].normal

=============================================================================
