SPECIFICATION Spec
CONSTANTS
  b1 = b1
  b2 = b2
  Upload = {u1, u2}
  Location = {l1, l2}
  Client = {c1, c2}
  Worker = {}
  Claimer = {}
  Block = {b1}
  BlockList <- OneBlock
  Whole = Whole
  None = None
  MaxBlockListEntries = 2
  HeartbeatInterval = 1
  TakeoverIdleTimeout = 1
  CleanupIdleTimeout = 1
  MaxFinished = 1
SYMMETRY RowSymmetry
INVARIANT SessionInv
PROPERTY ActiveNotTakenOver
CHECK_DEADLOCK FALSE
