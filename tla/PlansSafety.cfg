\* Two orders of one user, one with an installment to follow: refunds, disputes,
\* transport retries, two restarts.
SPECIFICATION Spec
CONSTANTS
  o1 = o1
  o2 = o2
  i1 = i1
  u1 = u1
  None = None
  Order <- TwoOrders
  Installment <- OneInstallment
  User <- OneUser
  OrderOf <- OfO1
  UserOf <- PlacedByU1
  PaidInFull = {}
  Total = 2
  MAX_RETRIES = 2
  MaxTransport = 1
  MaxCharges = 2
  MaxEvents = 2
  MaxRestarts = 2
INVARIANTS
  CapturedOnce
  CancelledPlanIsClosed
  ProfileFollowsPlan
  RefundedOnce
PROPERTY NoReopening
CHECK_DEADLOCK FALSE   \* a plan comes to an end
