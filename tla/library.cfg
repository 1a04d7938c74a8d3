SPECIFICATION LibrarySpec
CONSTANTS
  Absent = Absent
  NoSlot = NoSlot
  Blank = Blank
  FaultKinds = {"baseRead", "spillCreate", "spillWrite", "spillRead", "offloadCreate", "offloadWrite", "writeThrough"}
  MaxClock = 6
  Copies = {1, 2}
  ClusterCount = 4
  ClusterCells = 3
  RootCells = 3
  Sizes = {0, 2, 4}
  MaxCalls = 3
  Volumes <- SmallVolumes
  Paths <- MCPaths
  Payloads <- MCContents
  Labels <- MCLabels
  Unstorable = {"+"}
  Disks <- PartitionedDisks
  MaxHops = 2
  Floor = 4
  MaxUnit = 5
  MaxClaims = 3
  Classes = {"file", "table"}
  Attachments = {0, 1}
  NoMedium = NoMedium
  MaxLives = 4
  MaxFound = 2
  MaxSessions = 2
  NExtents = 3
  Vals = {0, 1}
  Bound = 2
  Depth = 2
  MaxReads = 3
  MaxCommits = 1
INVARIANTS
  StoresAreTrue
  PlaneIsTheImage
  CleanRowIsWholeChain
  NoStrangers
PROPERTIES
  RefusalChangesNothing
  FilesSpec
  AccountIsExclusive
  DropReturns
CHECK_DEADLOCK FALSE
VIEW View
