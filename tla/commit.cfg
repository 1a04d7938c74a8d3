SPECIFICATION MCSpec
CONSTANTS
  MaxBlocks = 3
  ExtentBlocks = 2
  Vals = {0, 1}
  Zero = 0
  ParentSync = TRUE
  FaultKinds <- FaultsButRetireSync
  MaxFaults = 1
  MaxCommits = 2
  MaxCrashes = 2
INVARIANTS
  RecoveryIsWhole
  JournalMatchesImage
  AckedCommitIsDurable
  DriverDescribesImage
PROPERTIES
  ImageChangesUnderJournal
  FailedCommitLeavesOld
  OnDiskSpec
  CommitCallsReturn
