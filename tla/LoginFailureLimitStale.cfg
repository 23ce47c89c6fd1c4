\* The claim that 429 is the answer when the address is blocked.
CONSTANTS
  Worker = {w1, w2, w3}
  Limit = 2
  Window = 2
SYMMETRY WorkerSymmetry
SPECIFICATION Spec
PROPERTIES
  RefusedOnlyWhenBlocked
