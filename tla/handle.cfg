CONSTANTS
  SegmentSize = 2
  MaxChunk = 3
  MaxUnits = 7
  MaxTime = 1
  MaxFaults = 2
SPECIFICATION Spec
INVARIANTS TypeOK ReadBack NoOrphans SizeIsStored CrashLeavesOneVersion SegmentsBounded HandleInvariant
