SPECIFICATION ImagesSpec
CONSTANTS
  Images <- QcowImages
  Vdis <- VdiImages
  Libraries <- Chains
  Top = "a"
  ClusterUnits = 2
  L2Entries = 2
  RefEntries = 3
  TableLen = 4
  Vals = {0, 1}
  Zero = 0
  MaxWrites = 3
  NoParent = NoParent
  Absent = Absent
  MaxChain = 3
  MaxMeddling = 3
INVARIANTS
  RefcountsExact
  ComposedIsWhole
  RecordingsAreServed
PROPERTIES
  GuestSpec
  VdiDisk
  OpenEnds
CHECK_DEADLOCK FALSE
