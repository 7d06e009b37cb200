SPECIFICATION FairSpec
CONSTANTS
  j1 = j1
  j2 = j2
  j3 = j3
  p1 = p1
  p2 = p2
  w1 = w1
  w2 = w2
  NoJob = NoJob
  NoHost = NoHost
  ApiRole = ApiRole
  Jobs = {j1}
  Procs = {p1, p2}
  Workers = {w1, w2}
  HomeOf <- TwoHomes
  Hosts = {p1}
  MaxAttempts = 2
  JobHasAttemptCount = FALSE
  Watched = {"delivered", "dead_lettered"}
  CanAge = TRUE
  FaultKinds = {}
  MaxFaults = 0
  MaxRefetches = 1
CHECK_DEADLOCK FALSE
PROPERTIES
  QueuedIsAttempted
