\* Two concurrent handlers paying for one order and one of its installments.
SPECIFICATION Spec
CONSTANTS
  o1 = o1
  i1 = i1
  None = None
  Order <- OneOrder
  Installment <- OneInstallment
  OrderOf <- BelongsToO1
  Tx = {t1, t2}
  Caller = {c1, c2}
  Amount = 1
  MaxRefunds = 1
  MaxFaults = 1
SYMMETRY Interchangeable
INVARIANTS
  TypeOK
  AtMostOneInFlight
  LateHoldWatched
  CapturedMeansCaptured
PROPERTY ImplementsLifecycle
