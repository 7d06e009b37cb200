------------------------ MODULE MCIdempotencyClaims ------------------------
(* Small instances of IdempotencyClaims for TLC.                           *)
EXTENDS IdempotencyClaims, TLC

Interchangeable ==
  Permutations(Jobs) \cup Permutations(Bridges) \cup Permutations(Procs)
    \cup Permutations(Copies)

(* Two jobs whatever they do, and a further one until the second POST, or   *)
(* until the first where there has been a fault.                            *)
TwoJobsOrFewSteps ==
  \/ \E j \in Jobs : status[j] = "absent"
  \/ Cardinality(posted) + faults < 2
=============================================================================
