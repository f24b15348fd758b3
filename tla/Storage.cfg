CONSTANTS
  Block = "block"
  Part = "part"
  Temp = {"t1", "t2"}
  Inode = {"i1", "i2", "i3", "i4"}
  Content = {"x", "y"}
  Chunks = 2
  Writer = {"w1", "w2"}
  Missing = Missing
  Torn = Torn
  Scenarios <- MCScenarios
  MaxFaults = 1
  Keys = 3
  PageSize = 1
  NoProgressLimit = 3
  MaxPages = 5
  MaxBytes = 2
  MinPart = 2
  MaxPart = 5
  MaxParts = 3
  MaxSize = 11
  MaxSources = 2
  MaxChanges = 2
  None = None
SPECIFICATION StorageSpec
INVARIANT StorageInv
PROPERTIES ImplementsObjectStore SparesSessions 
CHECK_DEADLOCK FALSE
