SPECIFICATION Spec
CONSTANTS
  Procs = {p1, p2}
  Files = {f1, f2}
  NoFile = NoFile
  NoClaim = NoClaim
  NoSidecar = NoSidecar
  Unsealed = Unsealed
  Torn = Torn
  Placers = {}
  MaxVersion = 1
  MaxCrashes = 1
INVARIANTS
  ReaderSeesWhole
