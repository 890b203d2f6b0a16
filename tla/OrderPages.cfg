\* One tab, one order, three rows.
SPECIFICATION TabSpec
CONSTANTS
  o1 = o1
  i1 = i1
  None = None
  Order <- OneOrder
  Viewed = o1
  Installment <- OneInstallment
  OrderOf <- BelongsToO1
  Tx = {1, 2, 3}
INVARIANTS
  FreshWizardIsAccepted
