\* A request of a user whose session and product change under it.
CONSTANTS
  Request = {r1}
  Price <- MCPrices
  PartsPerCent = 10
  Drift = 4
  MaxChanges = 3
SPECIFICATION Spec
INVARIANTS
  TypeOK
  ClientErrorChangedNothing
  RevokedStaysOut
  AdminOnly
  UnauthorizedIsGenuine
  PriceWasReal
PROPERTIES
  KeepsPromise
  EveryCallAnswered
\* The request is answered in the end.
CHECK_DEADLOCK FALSE
