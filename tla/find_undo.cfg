SPECIFICATION Spec
CONSTANTS
  MaxBlocks = 3
  ExtentBlocks = 2
  Vals = {0, 1}
  Zero = 0
  ParentSync = TRUE
  FaultKinds <- AllFaultKinds
  MaxFaults = 1
  MaxCommits = 1
  MaxCrashes = 0
PROPERTIES
  FailedCommitLeavesOld
