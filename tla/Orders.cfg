\* One order: two rows, of the order or of its installment, read by two workers.
SPECIFICATION Spec
CONSTANTS
  o1 = o1
  i1 = i1
  None = None
  Order <- OneOrder
  Installment <- OneInstallment
  OrderOf <- BelongsToO1
  Tx = {1, 2}
  MethodOf <- AlternatingMethods
  Worker = {w1, w2}
  MaxFailed = 1
SYMMETRY Interchangeable
INVARIANTS
  HistoryIsAPath
  ConfirmedWasPaid
  HandledIsApplied
PROPERTY ImplementsLifecycle
CHECK_DEADLOCK FALSE   \* an order comes to an end
