SPECIFICATION FairSpec
CONSTANTS
  main = main
  worker = worker
  w1 = w1
  w2 = w2
  b1 = b1
  b2 = b2
  e1 = e1
  Procs = {main, worker}
  Servers = {main}
  Workers = {w1, w2}
  HomeOf <- BothInMain
  Copy = Copy
  Sentinel = Sentinel
  None = None
  JobHasAttemptCount = TRUE
  Bridges = {b1}
  Events = {e1}
  BridgeOf <- FromFirst
  MaxWeek = 1
  MaxStarts = 2
  MaxPuts = 1
  MaxFaults = 1
CONSTRAINT NoCopyOnceFailed
CHECK_DEADLOCK FALSE
INVARIANTS
  TypeOK
  OneDigestAWeek
  ClaimsAreAccountedFor
  LastWeekIsMailed
  NobodyWaitsInVain
PROPERTIES
  ShutdownEnds
