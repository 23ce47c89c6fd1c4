\* The claim that deactivation takes effect at once.
CONSTANTS
  Attempt = {a1, a2}
  Token = {t1}
  Key = {k1}
  Body = {b1}
  MaxInFlight = 1
  Faults = {}
SPECIFICATION Spec
INVARIANTS
  RevokedIsRefused
\* Every attempt may be over.
CHECK_DEADLOCK FALSE
