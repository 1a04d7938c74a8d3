SPECIFICATION FairSpec
CONSTANTS
  Procs = {p1, p2, p3}
  Files = {f1, f2}
  NoFile = NoFile
  NoClaim = NoClaim
  NoSidecar = NoSidecar
  Unsealed = Unsealed
  Torn = Torn
  Placers = {p1}
  MaxVersion = 1
  MaxCrashes = 2
INVARIANTS
  WriterSeesWhole
  EarlierCommitReconciled
  LiveCommitKeepsJournal
  AckedVersionRecovered
  OneGetsIn
PROPERTIES
  SessionBytesStandStill
  OpensReturn
