SPECIFICATION CacheSpec
CONSTANTS
  Procs = {g, w}
  Gateway = g
  Changes = {k1, k2}
  Loads = {l1}
  MaxFaults = 1
INVARIANTS
  CacheIsCurrent
CHECK_DEADLOCK FALSE
