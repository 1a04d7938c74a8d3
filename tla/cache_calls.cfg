SPECIFICATION FairSpec
CONSTANTS
  NExtents = 2
  ExtentBlocks = 2
  Vals = {0, 1}
  Absent = Absent
  NoSlot = NoSlot
  Blank = Blank
  Bound = 1
  Offloading = TRUE
  OffloadFloor = 1
  InFlightMax = 1
  FaultKinds = {"offloadWrite"}
  MaxFaults = 1
  MaxClock = 6
  MaxSpan = 2
INVARIANTS
  WorkerOwnsSlot
  ReadsSeeWrites
PROPERTIES
  BufferedSpec
  CallsReturn
