CONSTANTS
  alice = alice
  bob = bob
  None = None
  Addresses = {alice, bob}
  GenesisCommitted <- MCGenesisCommitted
  InitialBalance <- MCInitialBalance
  DepositInEmbers = 1
  MinimalEffectiveBalanceForGenerator = 1
  BlockReward = 1
  Transfers <- MCTransfers
  PeriodLength = 2
  MaxHeight = 6
  MaxMicroBlocks = 1
  MaxRollbackDepth = 2
SPECIFICATION Spec
INVARIANTS
  CachesFollowStore
  DepositsAgree
  
  SupplyIsSum
PROPERTIES
  CommitmentsKept
