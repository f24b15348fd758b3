SPECIFICATION FairSpec
CONSTANTS
  Location = {1, 2}
  Layout <- MCLayout
  Unreadable = {1}
  MaxIndexedObjects = 2
  MaxLocationRechecks = 2
  PageSize = 1
  MaxVersion = 1
  MaxFaults = 1
INVARIANTS ReconcileInv
PROPERTIES PurgesOnlyUnservable EverySizeKnown
CHECK_DEADLOCK FALSE
