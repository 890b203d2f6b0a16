\* Two refunds of one row, confirmed side by side, and no crash: no update is lost and
\* every stored webhook settles.
SPECIFICATION FairInboxSpec
CONSTANTS
  o1 = o1
  None = None
  Order <- OneOrder
  Installment <- NoInstallment
  OrderOf <- NoOwner
  Tx = {t1}
  Caller = {c1}
  Handler = {h1}
  Worker = {w1, w2}
  Amount = 2
  MaxRefunds = 2
  MaxFaults = 0
  MaxRetries = 0
PROPERTIES
  ImplementsPayments
  ReceivedSettles
