SPECIFICATION ProcessSpec
CONSTANTS
  q1 = q1 q2 = q2 q3 = q3
  Request <- MCRequest
  Load <- MCLoad
  MergeConcurrency = 1
  BatchSize = 2
  MaxPending = 2
  RetryInitial = 1
  RetryMaximum = 3
  Row = {1, 2, 3}
  PageSize = 2
  RetryBase = 1
  RetryMost = 4
  StuckFolders <- MCStuckFolders
  MaxAttempts = 3
  MaxTroubles = 1
INVARIANTS ProcessInv RunsInv
PROPERTIES SignalEndsProcess NothingForgotten
CHECK_DEADLOCK FALSE
