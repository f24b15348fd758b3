SPECIFICATION FairSpec
CONSTANTS
  Location = {l1}
  MultiPart = {l1}
  Entry = {e1}
  Reader = {r1}
  Composer = {c1}
  Prober = {o1}
  Worker = {w1}
  None = None
  ReaderLeaseDuration = 1
  DirectDownloadLeaseDuration = 1
  DirectDownloadTTL = 1
  DeletionGracePeriod = 2
  MaterializationLeaseDuration = 1
PROPERTIES PurgeOnlyDangling StorageReclaimed
CHECK_DEADLOCK FALSE
