SPECIFICATION FairSpec
CONSTANTS
  Rules = {1, 2, 3}
  Sessions = {s1, s2}
  NoSession = NoSession
  NoRule = NoRule
CHECK_DEADLOCK FALSE
INVARIANTS
  TypeOK
  OneActive
  RevisionIdentifiesRule
PROPERTIES
  InactiveReturnsByRollback
  RequestsAreAtomic
  RequestsEnd
