--------------------------- MODULE MCMediaSession ---------------------------
(***************************************************************************)
(* A session for TLC: two drive types that share a bay and the archive     *)
(* receiver; an image one type recorded, and an archive of images either   *)
(* could have.  One medium of such a session, worked by its verbs.  The    *)
(* spaces its partitions compose.  The C surface over all of it, and the   *)
(* reports read through it.  The objects a Python host holds.  What an     *)
(* artifact is declared or found to be, and what a drive claims of a       *)
(* capture.  A behaviour is about one of these.                            *)
(***************************************************************************)
EXTENDS MediaSession, Sequences, TLC

CONSTANTS hdA, hdB, arc, disk, zip

MCBay     == [s \in {hdA, hdB, arc} |-> IF s = arc THEN "arc" ELSE "hdd"]
MCPlaces  == {<<"hdd", 0>>, <<"hdd", 1>>, <<"arc", 0>>}
MCRecords == [f \in {disk, zip} |-> IF f = disk THEN {hdA} ELSE {hdA, hdB}]

VARIABLE topic

-----------------------------------------------------------------------------
(* One medium and its verbs *)

CONSTANTS Extent, Written, MostUnits, MaxWrites, MaxCommits, HeadCeiling, TrackCeiling

VARIABLES
  medMedium, medDisk, medSlots, medStorage, medBuffer, medFailed, medAnswer, medSeen,
  medKept, medTorn, medWrites, medCommits

medVars == <<medMedium, medDisk, medSlots, medStorage, medBuffer, medFailed, medAnswer,
             medSeen, medKept, medTorn, medWrites, medCommits>>

Coords(c, h, s, b) == [cylinders |-> c, heads |-> h, sectors |-> s, bytes |-> b]
NoCoords           == Coords(0, 0, 0, 0)

BootSector(small, large, meta) ==
  [recognized |-> TRUE, small |-> small, large |-> large, unit |-> 1, metadata |-> meta]
NoBoot == [BootSector(0, 0, 0) EXCEPT !.recognized = FALSE, !.unit = 0]

\* A plain image that names no file system, one with files, one with a table.
PlainImage ==
  [kind |-> "block", raw |-> TRUE, held |-> 6, boot |-> NoBoot, writable |-> TRUE,
   named |-> TRUE, sectored |-> TRUE, format |-> NoCoords, declared |-> 1, table |-> FALSE,
   entries |-> {}, boots |-> [u \in {} |-> NoCoords], content |-> <<1, 2, 1, 2, 1, 2>>,
   files |-> [n \in {} |-> {}]]
FilesImage ==
  [PlainImage EXCEPT
     !.boot = BootSector(6, 0, 2), !.boots = [u \in {0} |-> Coords(0, 1, 2, 1)],
     !.files = [n \in {"F", "G"} |-> [path |-> {0, 1}, record |-> 1,
                                      chain |-> IF n = "F" THEN <<2, 4>> ELSE <<3>>]]]
TableImage ==
  [PlainImage EXCEPT !.raw = FALSE, !.sectored = FALSE, !.declared = 0, !.table = TRUE,
                     !.held = 5, !.writable = FALSE]

EndTuple(c, h, s, n) ==
  [cylinder |-> c, cylinders |-> c, head |-> h, sector |-> s, start |-> 1, sectors |-> n]

MCArtifacts ==
  {FilesImage, [FilesImage EXCEPT !.writable = FALSE], [FilesImage EXCEPT !.named = FALSE],
   [FilesImage EXCEPT !.boot = BootSector(6, 7, 2)],
   [FilesImage EXCEPT !.boot = BootSector(0, 7, 2)],
   [FilesImage EXCEPT !.boot = BootSector(0, 7, 8)],
   [FilesImage EXCEPT !.kind = "flux"],
   [FilesImage EXCEPT !.kind = "archive", !.sectored = FALSE]}
  \cup {[FilesImage EXCEPT !.held = n] : n \in {0, 1, 3, 4, 5}}
  \cup {[FilesImage EXCEPT !.writable = FALSE, !.held = n, !.boot = BootSector(n, 0, 2),
                           !.format = f] :
          n \in {5, 6}, f \in {Coords(3, 1, 2, 1), Coords(2, 1, 2, 1), Coords(3, 2, 1, 1)}}
  \cup {[PlainImage EXCEPT !.writable = FALSE, !.held = n, !.declared = d,
                           !.boots = [u \in {0, 2} |-> IF u = 0 THEN Coords(0, 1, 2, d) ELSE r]] :
          n \in {3, 5, 6}, d \in 1 .. 2, r \in {NoCoords, Coords(0, 1, 0, 2), Coords(0, 0, 1, 1)}}
  \cup {[TableImage EXCEPT !.entries = {EndTuple(c, h, s, n), EndTuple(0, 1, 1, 3)}] :
          c \in 1 .. 2, h \in 0 .. 1, s \in 0 .. 2, n \in 3 .. 4}

MCKinds ==
  {[article |-> "hard", coords |-> g] :
     g \in {NoCoords, Coords(2, 1, 3, 1), Coords(3, 1, 1, 2), Coords(2, 0, 1, 1), Coords(9, 9, 1, 1)}}
  \cup {[article |-> "soft", coords |-> NoCoords]}
MCLayouts ==
  {[name |-> "dos", article |-> "hard", coords |-> Coords(2, 2, 2, 1), reserved |-> 1,
    copies |-> 2, fat |-> 2]}

Med == INSTANCE MediumVerbs WITH
  Artifacts <- MCArtifacts, Kinds <- MCKinds, Layouts <- MCLayouts,
  medium <- medMedium, disk <- medDisk, slots <- medSlots, storage <- medStorage,
  buffer <- medBuffer, failed <- medFailed, answer <- medAnswer, seen <- medSeen,
  kept <- medKept, torn <- medTorn, writes <- medWrites, commits <- medCommits

-----------------------------------------------------------------------------
(* The spaces a medium's partitions compose *)

VARIABLES spcMedium, spcCells, spcPool, spcSpace, spcFile, spcAnswer, spcWrites

spcVars == <<spcMedium, spcCells, spcPool, spcSpace, spcFile, spcAnswer, spcWrites>>

Data(n)      == <<"data", n>>
VolumeCells  == <<<<"fat", 3>>, <<"root", [label |-> "none", size |-> 1, dir |-> FALSE]>>, Data(1)>>
CatalogCells(head) == <<<<head, 0>>, Data(1)>>
TableCells   == <<Data(7)>> \o VolumeCells \o <<Data(1)>>
Row(number, type, start, length) ==
  [number |-> number, type |-> type, start |-> start, length |-> length]
Bearing(family, writable, content, held) ==
  [family |-> family, writable |-> writable, content |-> content, cells |-> held, rows |-> {}]

\* A table of a volume, a container and a type nobody reads; one whose rows
\* leave the volume short, reach past the end and start there.
MCMedia ==
  {[Bearing("image", w, "table", TableCells) EXCEPT
      !.rows = {Row(1, "06", 1, 3), Row(2, "05", 4, 1), Row(3, "83", 4, 1)}] : w \in BOOLEAN}
  \cup {[Bearing("image", TRUE, "table", TableCells) EXCEPT
           !.rows = {Row(1, "01", 1, 2), Row(2, "01", 4, 2), Row(3, "06", 6, 1)}],
        Bearing("image", TRUE, "volume", VolumeCells),
        Bearing("image", FALSE, "unknown", CatalogCells("hdos")),
        Bearing("image", TRUE, "unknown", CatalogCells("cpm")),
        Bearing("archive", FALSE, "volume", CatalogCells("zip")),
        Bearing("authored", TRUE, "blank", <<Data(0), Data(0)>>),
        Bearing("blank", TRUE, "blank", <<>>),
        Bearing("flux", FALSE, "volume", CatalogCells("cbmdos")),
        Bearing("flux", FALSE, "volume", CatalogCells("unread")),
        Bearing("blocks", FALSE, "volume", CatalogCells("cbmdos")),
        Bearing("device", FALSE, "volume", VolumeCells),
        Bearing("device", FALSE, "volume", CatalogCells("hdos"))}

Spc == INSTANCE StorageSpaces WITH
  Media <- MCMedia, Values <- {Data(8), Data(9)}, MaxAddress <- 9,
  medium <- spcMedium, cells <- spcCells, pool <- spcPool, space <- spcSpace,
  file <- spcFile, answer <- spcAnswer, writes <- spcWrites

-----------------------------------------------------------------------------
(* What a caller of the C surface holds *)

VARIABLES
  srfSession, srfPool, srfMinted, srfBays, srfMedia, srfDevices, srfHandles, srfFiles,
  srfClaims, srfOuts, srfAnswer

srfVars == <<srfSession, srfPool, srfMinted, srfBays, srfMedia, srfDevices, srfHandles,
             srfFiles, srfClaims, srfOuts, srfAnswer>>

MCFamily == [f \in {"flx", "zip"} |-> IF f = "flx" THEN "flux" ELSE "archive"]

Srf == INSTANCE CSurface WITH
  Files <- DOMAIN MCFamily, Paths <- {"zip"}, Family <- MCFamily, Types <- {"hdd"},
  Attachments <- {"a0"}, MaxIds <- 2, MaxHeld <- 2,
  session <- srfSession, pool <- srfPool, minted <- srfMinted, bays <- srfBays,
  media <- srfMedia, devices <- srfDevices, handles <- srfHandles, files <- srfFiles,
  claims <- srfClaims, outs <- srfOuts, answer <- srfAnswer

-----------------------------------------------------------------------------
(* What a caller reads of a report *)

VARIABLES vwsKind, vwsCore, vwsHeld, vwsTaken, vwsView, vwsChanges

vwsVars == <<vwsKind, vwsCore, vwsHeld, vwsTaken, vwsView, vwsChanges>>

May(S)       == {{}} \cup {{x} : x \in S}
Count        == May({0, 1})
Said         == {<<>>, <<<<"a">>, <<"a", "nul", "b">>>>}
AnIssue      == May({[category |-> "io", message |-> "m"]})
Of(kinds, S) == {[kind |-> k, says |-> x] : k \in kinds, x \in S}

SectorsOf ==
  {[layout |-> "unknown"], [layout |-> "fixed", every |-> 0], [layout |-> "fixed", every |-> 2],
   [layout |-> "variable", tracks |-> <<>>],
   [layout |-> "variable", tracks |-> <<[size |-> {}], [size |-> {0}]>>]}
LayoutsOf ==
  {[kind |-> "unknown"], [kind |-> "physical", disk |-> {}]}
  \cup {[kind |-> "archive", path |-> p, entry |-> "e", size |-> z] : p \in May({"p"}), z \in Count}
  \cup {[kind |-> k, offset |-> o, length |-> z] :
          k \in {"image", "filesystem"}, o \in May({0}), z \in Count}
  \cup {[kind |-> "physical", disk |-> {[is |-> "disk", sectors |-> s]}] : s \in SectorsOf}
Layer(k, c, e, layout) ==
  [kind |-> k, is |-> "layer", current |-> c, expected |-> e, layout |-> layout]
Plainly == Layer("image", {0}, {}, [kind |-> "unknown"])
Identified ==
  {[modified |-> m, evidence |-> e, layers |-> x] :
     m \in BOOLEAN, e \in Said, x \in {<<>>, <<Plainly>>}}
  \cup {[modified |-> FALSE, evidence |-> <<>>, layers |-> <<Plainly, Layer("disk", {}, {1}, x)>>] :
          x \in LayoutsOf}

LabelsOf ==
  May({[name |-> n, by |-> b, readings |-> r] :
         n \in May({"", "x"}), b \in May({"boot"}),
         r \in {<<>>, <<[source |-> "boot", stored |-> {}], [source |-> "root", stored |-> {""}]>>}})
FilesystemOf(kind, label, clusters, issues) ==
  [is |-> "system", kind |-> kind, label |-> label, clusters |-> clusters, heads |-> {},
   issues |-> issues]
BareDevice ==
  [is |-> "disk", content |-> [kind |-> "blank"], schema |-> {}, regions |-> <<>>,
   volumes |-> <<>>, filesystems |-> <<>>]
Inspected ==
  {[BareDevice EXCEPT !.content = c, !.schema = s] :
     c \in {[kind |-> "blank"], [kind |-> "unknown", why |-> "w"]},
     s \in May({[kind |-> "mbr", evidence |-> e] : e \in {<<>>, <<"x">>}})}
  \cup {[BareDevice EXCEPT !.regions = <<[is |-> "r", role |-> r, claimed |-> c, issue |-> i]>>] :
          r \in {"data", "structure"}, c \in BOOLEAN, i \in AnIssue}
  \cup {[BareDevice EXCEPT !.volumes = <<[is |-> "v", origin |-> "whole"],
                                         [is |-> "w", origin |-> "regions", regions |-> r]>>] :
          r \in {<<>>, <<1, 2>>}}
  \cup {[BareDevice EXCEPT !.filesystems =
           <<FilesystemOf(k, l, {1}, i), FilesystemOf({"fat"}, {}, {}, <<>>)>>] :
          k \in May({"fat"}), l \in LabelsOf,
          i \in {<<>>} \cup {<<[category |-> g, message |-> "m"]>> : g \in {"io", "invalid"}}}

Assured ==
  {[outcome |-> o, condition |-> c, access |-> "read-only", claim |-> "caller", evidence |-> e,
    declared |-> d, missing |-> m, readable |-> r] :
     o \in {"verified", "degraded"}, c \in May({"short"}), e \in Said, d \in Count, m \in May({0}),
     r \in {<<>>, <<<<0, 2>>, <<3, 4>>>>}}
Readings(c, b) ==
  <<[source |-> "boot", cylinders |-> c, bytes |-> b],
    [source |-> "table", cylinders |-> {}, bytes |-> {0}]>>
Geometries ==
  {[state |-> IF d = {} THEN "undetermined" ELSE "determined", determined |-> d,
    conflicts |-> c, unsettled |-> u, readings |-> r] :
     d \in May({7}), c \in {<<>>, <<"c">>}, u \in {<<>>, <<"heads">>},
     r \in {<<>>} \cup {Readings(x, y) : x, y \in Count}}
PartitionsOf ==
  {[is |-> "p", type |-> t, reading |-> {}, role |-> "data", start |-> s, volume |-> v,
    addressable |-> (v # {}), issue |-> i, provenance |-> o, evidence |-> e] :
     t \in May({0, 6}), s \in May({0}), v \in May({0}), i \in AnIssue, o \in May({"declared"}),
     e \in Said}
EntriesOf ==
  {<<>>} \cup {<<[name |-> "a", kind |-> k, size |-> z, facts |-> f],
                 [name |-> "b", kind |-> "file", size |-> 0, facts |-> <<>>]>> :
                 k \in {"file", "directory"}, z \in {0, 3}, f \in {<<>>, <<<<"k", "">>, <<"j", "v">>>>}}
Discovered ==
  {[is |-> "i", path |-> p, type |-> t, format |-> f, size |-> IF f = {} THEN {} ELSE {z},
    mode |-> "read-only", accepting |-> <<"hdd", "fdd">>, recorded |-> r] :
     p \in May({"p"}), t \in May({"hdd"}), f \in May({"raw"}), z \in {0, 4}, r \in {<<>>, <<"hdd">>}}
Losses == {<<>>, <<[what |-> "w", amount |-> 2], [what |-> "x", amount |-> 0]>>}
Streams ==
  {[is |-> "s", losses |-> l, evidence |-> e, clock |-> 5, locations |-> x] :
     l \in Losses, e \in Said, x \in {<<>>, <<[is |-> "t", surface |-> {}], [is |-> "u", surface |-> {0}]>>}}
Claim(s, r) == [is |-> "c", surface |-> s, rule |-> r]
Sectors ==
  {[is |-> "s", claims |-> c, contested |-> k, evidence |-> e] :
     c \in {<<>>} \cup {<<Claim(s, r), Claim({}, {})>> : s \in Count, r \in May({"r"})},
     k \in {<<>>, <<"1">>}, e \in Said}
Rendered ==
  {[path |-> p, is |-> "r", losses |-> l, parts |-> x] :
     p \in May({"p"}), l \in Losses, x \in {<<>>, <<"h", "k">>}}
Tables ==
  {<<>>, <<[id |-> "x", name |-> "X", takes |-> TRUE, devices |-> <<>>],
           [id |-> "y", name |-> "Y", takes |-> FALSE, devices |-> <<"d", "e">>]>>}

Vws == INSTANCE CViews WITH
  Moments <- Of({"identification"}, Identified) \cup Of({"inspection"}, Inspected)
              \cup Of({"assurance"}, Assured) \cup Of({"geometry"}, Geometries)
              \cup Of({"partition"}, PartitionsOf) \cup Of({"entries"}, EntriesOf)
              \cup Of({"discovery"}, Discovered) \cup Of({"stream"}, Streams)
              \cup Of({"sectors"}, Sectors) \cup Of({"rendition"}, Rendered)
              \cup Of({"table"}, Tables),
  MaxChanges <- 1,
  kind <- vwsKind, core <- vwsCore, held <- vwsHeld, taken <- vwsTaken, view <- vwsView,
  changes <- vwsChanges

NoReport ==
  /\ vwsKind = "none" /\ vwsCore = <<>> /\ vwsHeld = FALSE /\ vwsTaken = <<>>
  /\ vwsView = {} /\ vwsChanges = 0

-----------------------------------------------------------------------------
(* What a Python host holds *)

VARIABLES
  bndPool, bndNext, bndSession, bndContent, bndImages, bndObjects, bndMade, bndTaken,
  bndLoaded, bndAnswer

bndVars == <<bndPool, bndNext, bndSession, bndContent, bndImages, bndObjects, bndMade,
             bndTaken, bndLoaded, bndAnswer>>

\* Each family with a file of its own; a file's second part is its entry.
MCArrivals ==
  {[family |-> f, files |-> {<<"F", 1>>}] : f \in {"zip", "cbm", "ibm", "table"}}
  \cup {[family |-> "blank", files |-> {}]}

Bnd == INSTANCE Bindings WITH
  Arrivals <- MCArrivals, MaxLives <- 2, MaxObjects <- 2, MaxTaken <- 1, MaxSessions <- 2,
  MaxWrites <- 1,
  pool <- bndPool, next <- bndNext, session <- bndSession, content <- bndContent,
  images <- bndImages, objects <- bndObjects, made <- bndMade, taken <- bndTaken,
  loaded <- bndLoaded, answer <- bndAnswer

\* What the lives hold that anything still leads to.
BndStanding ==
  [l \in DOMAIN bndContent |->
     IF \/ \E id \in DOMAIN bndPool : bndPool[id] = l
        \/ l \in bndImages
        \/ \E o \in bndObjects : o.life = l
     THEN bndContent[l] ELSE [family |-> "gone"]]

-----------------------------------------------------------------------------
(* What a drive claims of a capture *)

VARIABLES drvDrive, drvArm, drvPassed, drvCapture, drvVerdict, drvMedium, drvRungs, drvAnswer

drvVars == <<drvDrive, drvArm, drvPassed, drvCapture, drvVerdict, drvMedium, drvRungs, drvAnswer>>

\* Records of two landmarks each, laid round a track from one of their cells on.
Round(record, copies, from) ==
  LET n == Len(record) * copies IN [k \in 1 .. n |-> record[((k - 1 + from) % Len(record)) + 1]]

\* The times a turn's transitions are seen at, each out by at most so much.
Turn(cells, width, out) ==
  LET t[k \in 1 .. Len(cells)] == IF k = 1 THEN 5 ELSE t[k - 1] + cells[k - 1] * width
  IN  [k \in DOMAIN cells |-> t[k] + out * ((k % 3) - 1)]

Evenly == <<1, 1, 2, 1, 1, 3>>

Recorded(copies, from, width, out) ==
  [observations |-> <<Turn(Round(Evenly, copies, from), width, out),
                      Turn(Round(Evenly, copies, from), width + 1, 0)>>,
   laid |-> {[records |-> copies, whole |-> from \in {0, 3}, damaged |-> from \notin {0, 3}]}]

Noise == [observations |-> <<<<1, 18, 22, 97, 99, 160, 161, 240>>>>, laid |-> {}]

Scratched(copies) ==
  [observations |-> <<Turn(Round(<<1, 1, 2, 1, 1, 9>>, copies, 0), 10, 0)>>,
   laid |-> {[records |-> copies, whole |-> FALSE, damaged |-> TRUE]}]

Disagreeing ==
  [observations |-> <<Turn(Round(Evenly, 3, 0), 10, 0), Turn(Round(Evenly, 4, 0), 10, 0)>>,
   laid |-> {[records |-> 3, whole |-> FALSE, damaged |-> FALSE]}]

Blank == [observations |-> <<<<3, 90>>>>, laid |-> {}]

MCTurns ==
  {Recorded(n, from, seen[1], seen[2]) :
     n \in 3 .. 4, from \in {0, 3}, seen \in {<<10, 0>>, <<30, 2>>}}
  \cup {Recorded(4, from, 10, 0) : from \in {1, 2, 5}}
  \cup {Noise, Scratched(4), Disagreeing, Blank}

Under(head, position, recording) == [head |-> head, position |-> position] @@ recording

MCCaptures ==
  {<<Under("0", <<0, 1>>, Recorded(3, 0, 10, 0)), Under(h, <<p, 1>>, r)>> :
     h \in {"0", "1", "none"}, p \in 1 .. 2, r \in MCTurns}
  \cup {<<Under("none", <<0, 1>>, Recorded(3, 0, 10, 0))>>,
        <<Under("0", <<1, 2>>, Recorded(3, 0, 10, 0))>>}

MCSmall ==
  [id |-> "small", article |-> "flexible-5.25-soft",
   stepping |-> [drive |-> 96, recorded |-> 48, first |-> 1],
   rotation |-> [cycles |-> 3200000, clock |-> 16000000, index |-> FALSE], surfaces |-> 1,
   encoding |-> [multiples |-> <<1, 2, 3>>, band |-> <<3, 10>>, landmark |-> 1, least |-> 2, per |-> 2],
   density |-> <<[first |-> 1, last |-> 1, rate |-> <<16000000, 52>>, records |-> 3],
                 [first |-> 2, last |-> 3, rate |-> <<16000000, 56>>, records |-> 4]>>,
   origin |-> "longest gap", alignment |-> 10, codec |-> "gcr"]

Drv == INSTANCE DriveProfiles WITH
  SmallDrives <- {MCSmall}, Captures <- MCCaptures, Fewest <- 6, Sample <- 12, Refinements <- 4,
  Unmeasured <- 999, LastStep <- 84,
  drive <- drvDrive, arm <- drvArm, passed <- drvPassed, capture <- drvCapture, verdict <- drvVerdict,
  medium <- drvMedium, rungs <- drvRungs, answer <- drvAnswer

-----------------------------------------------------------------------------
(* What an artifact is declared or found to be *)

VARIABLES decArtifact, decFound, decMedium, decHeads, decAnswer

decVars == <<decArtifact, decFound, decMedium, decHeads, decAnswer>>

PlainFile ==
  [head |-> "none", version |-> "read", creator |-> "none", length |-> "other",
   extension |-> "none", origin |-> "file", decodes |-> {}, laid |-> TRUE]

Headed(head) == {[PlainFile EXCEPT !.head = head, !.decodes = d] : d \in {{}, {head}}}

MCHeld ==
  UNION {Headed(h) : h \in {"qcow2", "imd", "p64", "zip", "7z", "mfi", "hxc-mfm"}}
  \cup {[PlainFile EXCEPT !.laid = l, !.length = n, !.extension = e, !.origin = o] :
          l \in BOOLEAN, n \in {"short", "h17", "other"}, e \in {"none", "h8d", "imd", "zip"},
          o \in {"file", "entry"}}
  \cup {[PlainFile EXCEPT !.head = "qcow2", !.version = v, !.length = n, !.extension = e,
                          !.creator = c, !.decodes = {"qcow2", "vdi"}] :
          v \in {"old", "read"}, n \in {"short", "h17", "other"}, e \in {"none", "h8d"},
          c \in {"none", "read", "new"}}
  \cup {[PlainFile EXCEPT !.creator = c, !.decodes = d] :
          c \in {"old", "read", "new"}, d \in {{}, {"vdi"}}}
  \cup {[PlainFile EXCEPT !.head = "zip", !.extension = "zip", !.origin = o, !.decodes = d] :
          o \in {"file", "entry"}, d \in {{}, {"zip"}}}
  \cup {[PlainFile EXCEPT !.origin = "set", !.decodes = d] : d \in {{}, {"kryoflux"}}}
  \cup {[PlainFile EXCEPT !.head = "p64", !.origin = "entry", !.decodes = {"p64"}],
        [PlainFile EXCEPT !.head = "imd", !.length = "h17", !.decodes = {"imd"}]}

Dec == INSTANCE Declarations WITH
  Artifacts <- MCHeld, MaxHeads <- 2, artifact <- decArtifact, found <- decFound,
  medium <- decMedium, heads <- decHeads, answer <- decAnswer

NoArtifact ==
  /\ decArtifact = PlainFile /\ decFound = {} /\ decMedium = {} /\ decHeads = 0
  /\ decAnswer = Dec!Said("init", "ok", "none")

\* Every path a device type is read by is a drive's, served the same article.
PathsAreDrives ==
  \A device \in Dec!DeviceTypes : device.path # "none" =>
    \E drive \in Drv!Declared : drive.id = device.path /\ drive.article = device.article

-----------------------------------------------------------------------------

SessionInit ==
  /\ topic \in {"pools", "medium", "spaces", "surface", "views", "bindings", "drives", "declarations"}
  /\ Init /\ Med!MediumInit /\ Spc!SpacesInit /\ Srf!SurfaceInit /\ Bnd!BindingsInit
  /\ Drv!DriveInit
  /\ IF topic = "declarations" THEN Dec!DeclarationsInit ELSE NoArtifact
  /\ IF topic = "views" THEN Vws!ViewsInit ELSE NoReport

SessionNext ==
  /\ UNCHANGED topic
  /\ topic # "pools" => UNCHANGED vars
  /\ topic # "medium" => UNCHANGED medVars
  /\ topic # "spaces" => UNCHANGED spcVars
  /\ topic # "surface" => UNCHANGED srfVars
  /\ topic # "views" => UNCHANGED vwsVars
  /\ topic # "bindings" => UNCHANGED bndVars
  /\ topic # "drives" => UNCHANGED drvVars
  /\ topic # "declarations" => UNCHANGED decVars
  /\ \/ topic = "pools" /\ Next
     \/ topic = "medium" /\ Med!MediumNext
     \/ topic = "spaces" /\ Spc!SpacesNext
     \/ topic = "surface" /\ Srf!SurfaceNext
     \/ topic = "views" /\ Vws!ViewsNext
     \/ topic = "bindings" /\ Bnd!BindingsNext
     \/ topic = "drives" /\ Drv!DriveNext
     \/ topic = "declarations" /\ Dec!DeclarationsNext

SessionSpec ==
  SessionInit /\ [][SessionNext]_<<topic, vars, medVars, spcVars, srfVars, vwsVars, bndVars,
                                   drvVars, decVars>>

\* What was answered last tells no two states apart, nor what is out of reach.
View == <<topic, vars, medMedium, medDisk, medSlots, medStorage, medBuffer, medFailed,
          medSeen, medKept, medTorn, medWrites, medCommits,
          spcMedium, spcCells, spcPool, spcSpace, spcFile, spcWrites,
          srfSession, srfPool, srfMinted, srfBays, srfMedia, srfDevices, srfHandles,
          srfFiles, srfClaims, vwsVars, bndPool, bndNext, bndSession, BndStanding,
          bndImages, bndObjects, bndMade, bndTaken, bndLoaded,
          drvDrive, drvArm, drvPassed, drvCapture, drvVerdict, drvMedium, drvRungs,
          decArtifact, decFound, decMedium, decHeads>>

\* A medium's content is what its caller is owed, and lies where its coordinates
\* say; a space holds of its volume what the volume says; a view is of what the
\* session holds, every claim has its owner, and what is loaded once is consumed;
\* a drive claims what is there, and a medium is one its format records.
StateIsTrue ==
  /\ topic = "medium" => Med!ContentIsOwed /\ Med!CoordinatesFit
  /\ topic = "spaces" => Spc!SpaceIsTrue
  /\ topic = "surface" => Srf!SurfaceIsTrue
  /\ topic = "views" => Vws!ViewsAreWhole
  /\ topic = "bindings" => Bnd!TakenOnce
  /\ topic = "drives" => Drv!DrivesAreTrue
  /\ topic = "declarations" => Dec!DeclarationsHold /\ PathsAreDrives

\* What a medium answers is inside its source, what is rendered is committed,
\* the arc is one act, a space reaches nothing outside itself, and a handle
\* answers for nothing but what it was minted over, in C as in Python; what is
\* discovered is what a declaration loads.
CallsAreHonest ==
  /\ Med!DegradedIsHonest
  /\ Med!RenditionIsCommitted
  /\ Med!ArcIsOneAct
  /\ Spc!SpaceKeepsToItself
  /\ Srf!SurfaceKeepsToItself
  /\ Bnd!AnswersAreTrue
  /\ Dec!LoadsAgree
=============================================================================
