\* The limiter when scripts run late and are sent again.
CONSTANTS
  Request = {r1, r2, r3}
  Limit = 1
  Window = 4
  MaxDelay = 1
  MaxSkew = 0
  MaxRetries = 1
  TicksPerSecond = 2
  MaxTime = 5
SYMMETRY RequestSymmetry
SPECIFICATION Spec
INVARIANTS
  TypeOK
  WindowBound
  DeniedOnlyWhenFull
  RetryAfterHonest
  OnlyAdmissionsBlock
\* A client may stop sending, and the clock of the model ends at MaxTime.
CHECK_DEADLOCK FALSE
