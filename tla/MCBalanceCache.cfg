SPECIFICATION Spec
CONSTANTS
  Readers = {r1}
  Placers = {p1}
  Monitors = {m1}
  Nobody = nobody
  MaxVersion = 2
  Faults = {"api", "old"}
INVARIANTS IndInv NoRedundantFetch BalanceSinceInvalidation
PROPERTIES CacheNeverGoesBack CallsReturn
