SPECIFICATION SessionSpec
CONSTANTS
  hdA = hdA
  hdB = hdB
  arc = arc
  disk = disk
  zip = zip
  Slots = {hdA, hdB, arc}
  ArchiveSlot = arc
  Bay <- MCBay
  Images = {disk}
  Archives = {zip}
  Records <- MCRecords
  Layouts = {hdA}
  ArchiveModes = {"read"}
  NoSlot = NoSlot
  NoMedium = NoMedium
  NoLink = NoLink
  NoFile = NoFile
  Nothing = Nothing
  MaxIds = 3
  Places <- MCPlaces
  Extent = 2
  Written = {1, 2}
  MostUnits = 20
  MaxWrites = 2
  MaxCommits = 2
  HeadCeiling = 3
  TrackCeiling = 3
INVARIANTS
  LinksAgree
  SeatedWhereRecorded
  NothingLeftBehind
  StateIsTrue
PROPERTIES
  IdentityIsForLife
  BytesMoveByOwnCommit
  CallsAreHonest
VIEW View
