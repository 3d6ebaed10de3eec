CONSTANTS
  Dirs = {d1, d2}
  Names = {n1, n2, n3}
  CacheMaxEntries = 4
  CacheMaxAccess = 2
  CacheTimeout = 1
  CountModulus = 8
  AccessCap = 3
SPECIFICATION FillSpec
INVARIANTS CacheTypeOK AccessLimit CountExact EntriesWithinLimit
