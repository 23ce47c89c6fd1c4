\* What the README says of a signal during the retries.
CONSTANTS
  Requests = {r1, r2}
  MaxRetries = 3
SPECIFICATION Spec
PROPERTIES
  SignalIgnoredDuringStart
