CONSTANTS
  Dirs = {top, sub}
  Names = {f, sub}
  CacheMaxEntries = 2
  CacheMaxAccess = 2
  CacheTimeout = 1
  CountModulus = 5
  AccessCap = 3
  Procs = {p1, p2}
  Top = top
  Files = {f}
  Symlinks = {}
  TransferMode = {}
  OpenModes = {"write"}
  VFSLock = "shared"
  InitialStore <- MarkedStores
  MaxFaults = 0
  MaxChanges = 0
SPECIFICATION Spec
SYMMETRY Symmetry
INVARIANT LookupExact
