SPECIFICATION Spec
CONSTANTS
  b1 = b1
  b2 = b2
  Upload = {u1}
  Location = {l1}
  Client = {c1, c2}
  Worker = {}
  Claimer = {}
  Block = {b1, b2}
  BlockList <- TwoOrders
  Whole = Whole
  None = None
  MaxBlockListEntries = 2
  HeartbeatInterval = 1
  TakeoverIdleTimeout = 1
  CleanupIdleTimeout = 1
  MaxFinished = 2
SYMMETRY ProcessSymmetry
INVARIANTS FinalizedBoundariesKept
CHECK_DEADLOCK FALSE
