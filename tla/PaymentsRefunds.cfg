\* One order and one row, no faults: partial refunds, disputes, voids, and what the
\* timeout and the late reconciliation must bring about.
SPECIFICATION FairSpec
CONSTANTS
  o1 = o1
  i1 = i1
  None = None
  Order <- OneOrder
  Installment <- NoInstallment
  OrderOf <- NoOwner
  Tx = {t1}
  Caller = {c1, c2}
  Amount = 3
  MaxRefunds = 3
  MaxFaults = 0
INVARIANT RefundStatusAgrees
PROPERTIES
  PendingResolves
  LateHoldReleased
