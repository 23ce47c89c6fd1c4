\* A catalog that stops sending.
CONSTANTS
  MaxProducts = 1
  DefaultLimit = 1
  MaxLimit = 1
  MaxWord = 1
  Numbers <- MCNumbers
SPECIFICATION Spec
PROPERTIES
  NeverWaitsForever
\* A stream ends.
CHECK_DEADLOCK FALSE
