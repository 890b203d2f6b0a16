\* One capture and one refund: duplicate deliveries, retries, a fault.
SPECIFICATION InboxSpec
CONSTANTS
  o1 = o1
  None = None
  Order <- OneOrder
  Installment <- NoInstallment
  OrderOf <- NoOwner
  Tx = {t1}
  Caller = {c1}
  Handler = {h1, h2}
  Worker = {w1, w2}
  Amount = 2
  MaxRefunds = 1
  MaxFaults = 1
  MaxRetries = 1
SYMMETRY Interchangeable
INVARIANTS
  ReceivedIsQueued
  ProcessedCaptureIsApplied
PROPERTY ImplementsPayments
