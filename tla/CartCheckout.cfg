\* Two requests side by side, two carts, one item, two POSTs.
SPECIFICATION FairSpec
CONSTANTS
  None = None
  Cart = {1, 2}
  Item = {1}
  Caller = {c1, c2}
  Post = {1, 2}
  MaxFaults = 1
INVARIANTS
  OneOrderPerCart
  AnsweredStaysClosed
  ClosedIsOrdered
  OrderIsTheCart
PROPERTY ClaimSettles
CHECK_DEADLOCK FALSE   \* bounds
