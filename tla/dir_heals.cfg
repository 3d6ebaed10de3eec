CONSTANTS
  Dirs = {top}
  Names = {f, g}
  CacheMaxEntries = 2
  CacheMaxAccess = 2
  CacheTimeout = 1
  CountModulus = 3
  AccessCap = 3
  Procs = {p1, p2}
  Top = top
  Files = {f, g}
  Symlinks = {}
  TransferMode = {}
  OpenModes = {"write", "readwrite"}
  VFSLock = "shared"
  InitialStore <- AnyStore
  MaxFaults = 1
  MaxChanges = 1
SPECIFICATION FairSpec
INVARIANTS RenameKeepsObject
PROPERTIES GoneIsForgotten
