SPECIFICATION FairSpec
CONSTANTS
  b1 = b1
  b2 = b2
  Upload = {u1}
  Location = {l1}
  Client = {c1, c2}
  Worker = {w1}
  Claimer = {k1}
  Block = {b1}
  BlockList = {}
  Whole = Whole
  None = None
  MaxBlockListEntries = 1
  HeartbeatInterval = 1
  TakeoverIdleTimeout = 1
  CleanupIdleTimeout = 1
  MaxFinished = 1
INVARIANTS OwnedFoldersKept
PROPERTIES UnownedReclaimed AbandonedSessionsEnd
CHECK_DEADLOCK FALSE
