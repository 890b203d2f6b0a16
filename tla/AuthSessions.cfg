\* One tab with two requests side by side: three tokens over three refreshes, those of
\* pages that were reloaded among them, and one that breaks down.
SPECIFICATION FairSpec
CONSTANTS
  b1 = b1
  r1 = r1
  r2 = r2
  None = None
  Tab <- OneTab
  Request <- TwoRequests
  TabOf <- AllInFirst
  Pair = {1, 2, 3}
  Call = {1, 2, 3}
  MaxFaults = 1
INVARIANTS
  NeverRefusedByItself
  HoldsNoUsedToken
  ExchangedIsRevoked
PROPERTY RequestsSettle
CHECK_DEADLOCK FALSE   \* bounds
