\* A catalog of four products, streamed over either protocol a page at a time:
\* every limit and offset up to one more than a word holds.
CONSTANTS
  MaxProducts = 4
  DefaultLimit = 2
  MaxLimit = 3
  MaxWord = 5
  Numbers <- MCNumbers
SPECIFICATION Spec
INVARIANTS
  TypeOK
  PageAsked
  EndMeansComplete
  NeverCutSilently
PROPERTIES
  KeepsPromise
  HandlerEnds
\* A stream ends.
CHECK_DEADLOCK FALSE
