SPECIFICATION Spec
CONSTANTS
  a = a
  b = b
  rogue = rogue
  None = None
  Peers = {a, b}
  Responsive = {a}
  Faulty = {rogue}
  Miners = {a}
  InitChain <- Forked
  InitLocal <- OnFork
  MaxRollback = 2
  PeerBatch = 1
  MaxIds = 5
  MaxHeight = 4
  MicroHeights = {}
  MaxFuture = 1
  MaxPending = 2
  MaxEvents = 1
INVARIANTS AppliedIsExpected AnchoredOnExtension
PROPERTIES ShorterOnlyOnTheWay CatchUp
CHECK_DEADLOCK FALSE
