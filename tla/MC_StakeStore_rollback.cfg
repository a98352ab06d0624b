SPECIFICATION Spec
CONSTANTS
  a = a
  b = b
  Addresses = {a}
  InitialBalance <- MCBalance
  Amounts = {1}
  Works = {0}
  PeriodLength = 2
  MaxHeight = 6
  MaxStakes = 1
  MaxRollbackDepth = 1
INVARIANT
  PayoutComplete
