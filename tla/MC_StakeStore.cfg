SPECIFICATION Spec
CONSTANTS
  a = a
  b = b
  Addresses = {a, b}
  InitialBalance <- MCBalance
  Amounts = {1}
  Works = {3}
  PeriodLength = 2
  MaxHeight = 6
  MaxStakes = 2
  MaxRollbackDepth = 2
INVARIANTS
  StakeAtIsLastSet
  StakeBacked
  PayoutOnlyOwed
