CONSTANTS
  Generators = {0, 1}
  Balance <- UnequalBalance
  Votings <- MCVotings
  MaxValidEndorsers = 2
  MaxSyncRollback = 2
  Timestamps = {1, 2}
  MaxHeight = 4
  MaxParts = 3
  MaxVotings = 2
  MaxExtension = 0
  MaxRollbackDepth = 2
SPECIFICATION Spec
INVARIANTS
  ChainLinked
  ForgedMatchesId
