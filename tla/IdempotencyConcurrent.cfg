\* The claim of one result per key, with overlapping attempts.
CONSTANTS
  Attempt = {a1, a2}
  Token = {t1}
  Key = {k1}
  Body = {b1}
  MaxInFlight = 2
  Faults = {}
SPECIFICATION Spec
INVARIANTS
  AppliedOnce
\* Every attempt may be over.
CHECK_DEADLOCK FALSE
