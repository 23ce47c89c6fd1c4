\* Every order of start, signal, server failure, requests and deadline.
CONSTANTS
  Requests = {r1, r2}
  MaxRetries = 3
SPECIFICATION Spec
INVARIANTS
  TypeOK
  CleanExitCutsNobody
PROPERTIES
  KeepsPromise
  ProcessEnds
  StartDecided
