SPECIFICATION FairCacheSpec
CONSTANTS
  k1 = k1 k2 = k2 k3 = k3 k4 = k4
  Key <- MCKey
  Weight <- MCWeight
  Capacity = 3
  Caller = {c1, c2, c3}
  MaxCalls = 1
  Nobody = nobody
INVARIANTS CacheInv
PROPERTIES RoomAndDelay EveryCallReturns
CHECK_DEADLOCK FALSE
