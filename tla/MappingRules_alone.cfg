SPECIFICATION Spec
CONSTANTS
  Rules = {1, 2}
  Sessions = {s1}
  NoSession = NoSession
  NoRule = NoRule
CHECK_DEADLOCK FALSE
INVARIANTS
  LoneRequestSucceeds
