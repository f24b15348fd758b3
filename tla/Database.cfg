CONSTANTS
  Entry = {"e1", "e2", "e3"}
  Location = {"l1", "l2", "l3"}
  Lease = {"d1", "d2", "d3"}
  Deletion = {"t1", "t2", "t3", "t4"}
  Upload = {"u1", "u2", "u3"}
  Null = Null
  Engine = {"sqlite", "postgres", "mysql"}
  Kinds <- MCKinds
  Stores <- MCStores
  Lasts = 2
  MaxJobs = 2
  MaxClock = 2
  Server = {"s1", "s2"}
  NoServer = NoServer
  Steps = 2
  MaxFaults = 2
SPECIFICATION DatabaseSpec
INVARIANTS RowsInv MigrationInv
PROPERTIES FoldersKept LooksOnce CompletionServed StartsEnd
