SPECIFICATION Spec
CONSTANTS
  a = a
  b = b
  rogue = rogue
  None = None
  Peers = {a}
  Responsive = {a}
  Faulty = {rogue}
  Miners = {a}
  InitChain <- Ahead
  InitLocal <- AtGenesis
  MaxRollback = 2
  PeerBatch = 2
  MaxIds = 5
  MaxHeight = 4
  MicroHeights = {3}
  MaxFuture = 0
  MaxPending = 2
  MaxEvents = 1
INVARIANTS ExtensionLinked HonestNotBlamed
PROPERTIES CatchUp
CHECK_DEADLOCK FALSE
