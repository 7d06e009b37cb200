SPECIFICATION FairSpec
CONSTANTS
  Events = {e1}
  Operators = {o1}
  NoEvent = NoEvent
  Fields = {f1}
  FaultCap = 0
CHECK_DEADLOCK FALSE
PROPERTIES
  DecidedIsQueued
