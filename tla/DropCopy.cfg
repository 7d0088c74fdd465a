SPECIFICATION StoreSpec
CONSTANTS
  OrderId = {o1, o2, o3}
  CacheCapacity = 2
  MaxEvents = 6
  MaxRestarts = 2
INVARIANTS CacheIsNewest LookupIsSuffix
CHECK_DEADLOCK FALSE
