SPECIFICATION Spec
CONSTANTS
  Quantity = 15
  Amounts = {5, 10}
  Counters = {4, 8}
  exactSettleSplitHeight = 4
  MaxRollbackDepth = 2
  PeriodLength = 2
  MaxHeight = 7
INVARIANTS
  LedgerFollowsChain
  ReservationCovered
  PaidInTime
  SharesBounded
