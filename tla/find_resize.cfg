CONSTANTS
  Volumes <- SmallVolumes
  Copies = {1}
  ClusterCount = 4
  ClusterCells = 3
  RootCells = 3
  Paths <- TwoPaths
  Unstorable <- NoCharacter
  Payloads <- SomeBytes
  Sizes = {2, 3}
  Labels <- OneLabel
  MaxCalls = 3
SPECIFICATION ShownSpec
PROPERTY GrownReadsZero
VIEW VolumeView
CHECK_DEADLOCK FALSE
