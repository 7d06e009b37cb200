SPECIFICATION FairSpec
CONSTANTS
  j1 = j1
  j2 = j2
  j3 = j3
  p1 = p1
  p2 = p2
  w1 = w1
  w2 = w2
  NoJob = NoJob
  NoHost = NoHost
  ApiRole = ApiRole
  Jobs = {j1}
  Procs = {p1, p2}
  Workers = {w1, w2}
  HomeOf <- TwoHomes
  Hosts = {ApiRole}
  MaxAttempts = 2
  JobHasAttemptCount = TRUE
  Watched = {}
  CanAge = TRUE
  FaultKinds = {"crash", "raise", "poll"}
  MaxFaults = 1
  MaxRefetches = 1
CONSTRAINT Unkeyed
ACTION_CONSTRAINT FaultsComeEarly
CHECK_DEADLOCK FALSE
INVARIANTS
  OutcomeIsEvidenced
PROPERTIES
  QueuedIsAttempted
  QueuedIsSettled
  ImplementsPromise
