CONSTANTS
  alice = alice
  bob = bob
  None = None
  Addresses = {alice, bob}
  GenesisCommitted <- MCGenesisCommitted
  InitialBalance <- MCInitialBalance
  DepositInEmbers = 1
  MinimalEffectiveBalanceForGenerator = 1
  BlockReward = 1
  Transfers <- MCTransfers
  PeriodLength = 2
  MaxHeight = 5
  MaxMicroBlocks = 1
  MaxRollbackDepth = 1
SPECIFICATION Spec
INVARIANT
  MinerHashMatches
