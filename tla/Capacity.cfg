SPECIFICATION Spec
CONSTANTS
  Location = {1, 2, 3}
  Initial = {1, 2}
  Size <- MCSize
  Budget = 2
  OtherBytes = 0
  CandidatePageSize = 2
  MaxClock = 1
INVARIANTS PassInv
PROPERTIES EvictsOnlyWhatItMust PassAdvances
CHECK_DEADLOCK FALSE
