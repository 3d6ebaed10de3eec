CONSTANTS
  SegmentSize = 2
  MaxChunk = 3
  MaxUnits = 5
  MaxTime = 1
  MaxFaults = 1
SPECIFICATION Spec
INVARIANT AckedIsStored
