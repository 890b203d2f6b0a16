\* Every split of up to 13 cents and every sequence of partial refunds.
SPECIFICATION AmountsSpec
CONSTANT Totals <- SmallTotals
INVARIANTS
  SplitIsExact
  BalanceWithinOneCent
PROPERTY RefundsOnlyShrink
CHECK_DEADLOCK FALSE   \* a plan comes to an end
