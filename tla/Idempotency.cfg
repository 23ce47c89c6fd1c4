\* Overlapping attempts of two users, every fault.
CONSTANTS
  Attempt = {a1, a2, a3}
  Token = {t1, t2}
  Key = {k1}
  Body = {b1, b2}
  MaxInFlight = 3
  Faults <- AllFaults
SYMMETRY Symmetry
SPECIFICATION Spec
INVARIANTS
  TypeOK
  ReplayIsGenuine
  StoredProtects
  ConflictIsGenuine
  RevokedChangesNothing
PROPERTIES
  KeepsPromise
\* Every attempt may be over.
CHECK_DEADLOCK FALSE
