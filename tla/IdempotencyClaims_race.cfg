SPECIFICATION Spec
CONSTANTS
  Jobs = {j1, j2, j3}
  Bridges = {b1, b2}
  Procs = {p1, p2}
  Copies = {c1, c2}
  NoJob = NoJob
  NoProc = NoProc
  FaultCap = 1
CONSTRAINT TwoJobsOrFewSteps
SYMMETRY Interchangeable
CHECK_DEADLOCK FALSE
INVARIANTS
  TypeOK
  ClaimedPostsAgree
  BlockedInFavour
