SPECIFICATION FairSpec
CONSTANTS
  Events = {e1}
  Operators = {o1, o2, o3}
  NoEvent = NoEvent
  Fields = {f1, f2}
  FaultCap = 2
CHECK_DEADLOCK FALSE
INVARIANTS
  TypeOK
  OneJobPerEvent
  DecidedIsInHand
  QueuedIsBacked
PROPERTIES
  EventsKeepPromise
  DecidedIsQueuedOrLost
