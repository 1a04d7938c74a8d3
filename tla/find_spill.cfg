SPECIFICATION Spec
CONSTANTS
  NExtents = 2
  ExtentBlocks = 1
  Vals = {0, 1}
  Absent = Absent
  NoSlot = NoSlot
  Blank = Blank
  Bound = 1
  Offloading = TRUE
  OffloadFloor = 4
  InFlightMax = 1
  FaultKinds = {"spillWrite"}
  MaxFaults = 1
  MaxClock = 8
  MaxSpan = 1
INVARIANTS
  ReadsSeeWrites
