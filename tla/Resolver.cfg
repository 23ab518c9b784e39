SPECIFICATION MCSpec
CONSTANTS
  Addrs = {a1, a2, a3, a4, a5}
  Extra = a5
  MaxConcurrent = 2
  MaxCacheEntries = 2
  MaxStrays = 1
INVARIANTS SlotsAccounted CacheConsistent
PROPERTIES OnlyColdAddressesLost ImplementsNames BacklogDrains
