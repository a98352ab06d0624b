CONSTANTS
  Generators = {0, 1, 2, 3}
  Balance <- MCBalance
  MaxValidEndorsers = 2
  MaxSyncRollback = 2
  Filters <- MCFilters
  EndorsedIds = {1, 2}
  MaxFinalized = 1
  Me = 0
  VotingFinalizedHeight = 1
SPECIFICATION RoundSpec
INVARIANTS
  OneSidePerEndorser
  RelayBounded
  VotingFinalizes
  ResultUpToDate
  StorageAgrees
  WholeBlockAgrees

  
