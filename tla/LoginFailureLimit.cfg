\* Three logins of one address in flight, limit two.
CONSTANTS
  Worker = {w1, w2, w3}
  Limit = 2
  Window = 3
SPECIFICATION FairSpec
INVARIANTS
  TypeOK
  FailureBound
PROPERTIES
  KeepsPromise
  OnlyGuessesCount
  EventuallyForgotten
