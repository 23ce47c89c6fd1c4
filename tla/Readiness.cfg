\* Three services whose condition changes up to three times during a probe.
CONSTANTS
  catalog = catalog
  auth = auth
  cart = cart
  Services <- MCServices
  Checkers <- MCCheckers
  Configured <- MCConfigured
  DefaultCheck = 4
  ReadyTimeout = 3
  MaxChanges = 3
SPECIFICATION Spec
INVARIANTS
  TypeOK
  ReadyMeansServing
  NotReadyHasCause
  NoConnectionLeft
PROPERTIES
  AnsweredInTime
\* A probe ends with its answer.
CHECK_DEADLOCK FALSE
