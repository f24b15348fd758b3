SPECIFICATION Spec
CONSTANTS
  Location = {l1, l2}
  MultiPart = {l1}
  Entry = {e1}
  Reader = {r1}
  Composer = {c1, c2}
  Prober = {}
  Worker = {w1}
  None = None
  ReaderLeaseDuration = 1
  DirectDownloadLeaseDuration = 2
  DirectDownloadTTL = 2
  DeletionGracePeriod = 1
  MaterializationLeaseDuration = 2
SYMMETRY ProcessSymmetry
INVARIANTS  IssuedUrlSafe EntriesServable 
PROPERTIES MergeLeaseKept
CHECK_DEADLOCK FALSE
