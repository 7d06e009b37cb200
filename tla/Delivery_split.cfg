SPECIFICATION Spec
CONSTANTS
  j1 = j1
  j2 = j2
  j3 = j3
  p1 = p1
  p2 = p2
  w1 = w1
  w2 = w2
  NoJob = NoJob
  NoHost = NoHost
  ApiRole = ApiRole
  Jobs = {j1, j2, j3}
  Procs = {p1, p2}
  Workers = {w1, w2}
  HomeOf <- TwoHomes
  Hosts = {ApiRole, p1}
  MaxAttempts = 2
  JobHasAttemptCount = TRUE
  Watched = {"delivered", "dead_lettered"}
  CanAge = FALSE
  FaultKinds = {"crash", "raise", "poll"}
  MaxFaults = 2
  MaxRefetches = 1
CONSTRAINT Focus
CHECK_DEADLOCK FALSE
INVARIANTS
  TypeOK
  FreshJobHeldOnce
  FreshAttemptsInOrder
  ClaimsAreEvidenced
  ReplayLineageIsFlat
PROPERTIES
  FreshSettledIsFinal
