\* Every installment settles, whatever a restart drops or replays.
SPECIFICATION FairSpec
CONSTANTS
  o1 = o1
  o2 = o2
  i1 = i1
  u1 = u1
  None = None
  Order <- OneOrder
  Installment <- OneInstallment
  User <- OneUser
  OrderOf <- OfO1
  UserOf <- PlacedByU1
  PaidInFull = {}
  Total = 1
  MAX_RETRIES = 2
  MaxTransport = 0
  MaxCharges = 1
  MaxEvents = 2
  MaxRestarts = 1
PROPERTY InstallmentsSettle
CHECK_DEADLOCK FALSE   \* a plan comes to an end
