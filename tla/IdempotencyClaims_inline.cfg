SPECIFICATION Spec
CONSTANTS
  Jobs = {j1, j2}
  Bridges = {b1}
  Procs = {p1}
  Copies = {c1, c2}
  NoJob = NoJob
  NoProc = NoProc
  FaultCap = 0
CHECK_DEADLOCK FALSE
INVARIANTS
  OneEventPosted
