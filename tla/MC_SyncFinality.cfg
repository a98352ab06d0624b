CONSTANTS
  Generators = {0, 1}
  Balance <- EqualBalance
  Votings <- MCVotings
  MaxValidEndorsers = 2
  MaxSyncRollback = 2
  Timestamps = {1}
  MaxHeight = 4
  MaxParts = 1
  MaxVotings = 2
  MaxExtension = 2
  MaxRollbackDepth = 2
SPECIFICATION SyncSpec
INVARIANTS
  SyncKeepsFinality
