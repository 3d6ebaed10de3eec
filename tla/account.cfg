CONSTANTS
  Dirs = {top}
  Names = {"a"}
  CacheMaxEntries <- Unlimited
  CacheMaxAccess <- Unlimited
  CacheTimeout = 0
  CountModulus = 2
  AccessCap = 0
  Procs = {p, q}
  Top = top
  Segments <- MCSegments
  Units = {u}
  Options <- MCOptions
  NoTarget = "none"
  MaxFaults = 1
  MaxChanges = 1
  BlockSize = 1
  MaxInt = 7
SPECIFICATION FairSpec
INVARIANTS TypeOK ServedInPairs RemovedInPairs AccountInvariant StatfsCountsAll
PROPERTY SegmentsReturn
