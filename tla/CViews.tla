-------------------------------- MODULE CViews --------------------------------
(***************************************************************************)
(* What a caller of the C surface reads of a report (crates/remanence-ffi).*)
(*                                                                         *)
(* A report is taken whole, in one call, and read back one fact at a time: *)
(* a count, then each item by its index, each of its facts by a reader of  *)
(* its own.  A reader of nothing, or past the end, answers a default; what *)
(* the core leaves out is null or false.  A stream's handle keeps only its *)
(* words and asks the medium for its numbers.                              *)
(*                                                                         *)
(* An optional value, a pointer and a handle are sets of at most one; text *)
(* is a sequence of characters where its characters matter.  Indices are   *)
(* counted from 1.  A group of facts that are kept and read alike stands   *)
(* as one: "is" of what a thing is, "said" of what it says.                *)
(***************************************************************************)
EXTENDS Integers, Sequences, FiniteSets

CONSTANTS
  Moments,      \* what the core can say at one moment: a kind and what it says
  MaxChanges    \* bound: changes of what it says

VARIABLES
  kind,         \* of what: an identification, an inspection, a stream
  core,         \* what it says now
  held,         \* its medium is held
  taken,        \* what it said when the report was taken
  view,         \* the report, as the handle keeps it
  changes       \* how often it changed

vars == <<kind, core, held, taken, view, changes>>

-----------------------------------------------------------------------------
(* Crossing the boundary *)

Nul  == "nul"
Mark == "mark"

\* Text with a NUL inside has it replaced, so that its end is its end.
ToCString(text) == [n \in DOMAIN text |-> IF text[n] = Nul THEN Mark ELSE text[n]]

\* What a caller sees of it: everything before the first NUL.
Seen(text) ==
  SubSeq(text, 1, Cardinality({n \in DOMAIN text : \A m \in 1 .. n : text[m] # Nul}))

EvidenceViews(lines) == [n \in DOMAIN lines |-> ToCString(lines[n])]

\* as_ref and map_or: the fact of a thing that may not be there.
Else(value, default) == IF value = {} THEN default ELSE CHOOSE v \in value : TRUE

\* get: the item at an index, where there is one.
Get(list, index) == IF index \in DOMAIN list THEN {list[index]} ELSE {}

\* A caller's walk of a list: the count, then every item.
Walk(count, item) == [n \in 1 .. count |-> item[n]]

\* write_opt: true and the value written, or false and the out left alone.
WriteOpt(value, out) == <<value # {}, Else(value, out)>>

\* What the caller makes of it.
Told(written) == IF written[1] THEN {written[2]} ELSE {}

Untouched == "untouched"

\* An index no list reaches.
Past == 9

-----------------------------------------------------------------------------
(* Identification: layers, and a layout for some *)

\* A disk's sectors are of an unknown layout, so many to every track, or
\* listed track by track.
DiskView(disk) ==
  [is     |-> disk.is,
   layout |-> disk.sectors.layout,
   every  |-> IF disk.sectors.layout = "fixed" THEN disk.sectors.every ELSE 0,
   tracks |-> IF disk.sectors.layout = "variable" THEN disk.sectors.tracks ELSE <<>>]

\* Mutant of LayerViewOf: a disk of unknown layout is a disk nobody described.
LayerViewOfKnown(layer) ==
  [kind |-> layer.kind, is |-> layer.is, current |-> layer.current, expected |-> layer.expected,
   layout |-> IF layer.layout.kind = "physical"
                THEN [kind |-> "physical",
                      disk |-> {DiskView(d) : d \in {x \in layer.layout.disk :
                                                       x.sectors.layout # "unknown"}}]
                ELSE layer.layout]

LayerViewOf(layer) ==
  [kind |-> layer.kind, is |-> layer.is, current |-> layer.current, expected |-> layer.expected,
   layout |-> IF layer.layout.kind = "physical"
                THEN [kind |-> "physical", disk |-> {DiskView(d) : d \in layer.layout.disk}]
                ELSE layer.layout]

Identify(says) ==
  [modified |-> says.modified, evidence |-> EvidenceViews(says.evidence),
   layers |-> [n \in DOMAIN says.layers |-> LayerViewOf(says.layers[n])]]

IdentificationReads(handle) ==
  [modified |-> Else({h.modified : h \in handle}, FALSE),
   layers   |-> Else({Len(h.layers) : h \in handle}, 0),
   lines    |-> Else({Len(h.evidence) : h \in handle}, 0)]

LayerView(handle, index) == UNION {Get(h.layers, index) : h \in handle}

LayerReads(handle, index) ==
  LET layer == LayerView(handle, index) IN
  [kind     |-> Else({x.kind : x \in layer}, "unknown"),
   is       |-> Else({x.is : x \in layer}, "null"),
   current  |-> WriteOpt(UNION {x.current : x \in layer}, Untouched),
   expected |-> WriteOpt(UNION {x.expected : x \in layer}, Untouched),
   layout   |-> Else({x.layout.kind : x \in layer}, "unknown")]

\* The readers of one layout answer for a layer of that layout only.
Laid(handle, index, layout) ==
  {x.layout : x \in {layer \in LayerView(handle, index) : layer.layout.kind = layout}}

ArchiveReads(handle, index) ==
  LET layout == Laid(handle, index, "archive") IN
  [path  |-> UNION {x.path : x \in layout},
   entry |-> Else({x.entry : x \in layout}, "null"),
   size  |-> WriteOpt(UNION {x.size : x \in layout}, Untouched)]

ImageReads(handle, index) ==
  LET layout == Laid(handle, index, "image") IN
  [offset |-> WriteOpt(UNION {x.offset : x \in layout}, Untouched),
   length |-> WriteOpt(UNION {x.length : x \in layout}, Untouched)]

FilesystemLayerReads(handle, index) ==
  LET layout == Laid(handle, index, "filesystem") IN
  [offset |-> WriteOpt(UNION {x.offset : x \in layout}, Untouched),
   length |-> WriteOpt(UNION {x.length : x \in layout}, Untouched)]

DiskOf(handle, index) == UNION {x.disk : x \in Laid(handle, index, "physical")}

DiskReads(handle, index) ==
  LET of == DiskOf(handle, index) IN
  [has    |-> of # {},
   is     |-> Else({d.is : d \in of}, "null"),
   layout |-> Else({d.layout : d \in of}, "unknown"),
   every  |-> Else({d.every : d \in of}, 0),
   tracks |-> Else({Len(d.tracks) : d \in of}, 0)]

\* A track and whether it states its sectors' size, in one call.
TrackRead(handle, index, at) ==
  LET track == UNION {Get(d.tracks, at) : d \in DiskOf(handle, index)} IN
  [found |-> track # {}, has |-> UNION {t.size : t \in track} # {},
   size  |-> IF track = {} THEN Untouched ELSE Else(UNION {t.size : t \in track}, 0)]

-----------------------------------------------------------------------------
(* Inspection: regions, volumes, file systems *)

\* What no scheme settled is said with its evidence.
ContentOf(says) ==
  [content |-> says.content.kind,
   why     |-> IF says.content.kind = "unknown" THEN {says.content.why} ELSE {}]

\* A volume is the whole device's, or of the regions it names.
VolumeViewOf(volume) ==
  [is |-> volume.is, origin |-> volume.origin,
   regions |-> IF volume.origin = "regions" THEN volume.regions ELSE <<>>]

Inspect(says) ==
  [is |-> says.is, said |-> ContentOf(says), schema |-> says.schema,
   regions |-> says.regions, filesystems |-> says.filesystems,
   volumes |-> [n \in DOMAIN says.volumes |-> VolumeViewOf(says.volumes[n])]]

DeviceReads(handle) ==
  [is      |-> Else({h.is : h \in handle}, "null"),
   content |-> Else({h.said.content : h \in handle}, "blank"),
   why     |-> UNION {h.said.why : h \in handle},
   schema  |-> UNION {h.schema : h \in handle} # {},
   scheme  |-> {s.kind : s \in UNION {h.schema : h \in handle}},
   lines   |-> Else({Len(s.evidence) : s \in UNION {h.schema : h \in handle}}, 0)]

SchemaLine(handle, index) ==
  UNION {Get(s.evidence, index) : s \in UNION {h.schema : h \in handle}}

RegionView(handle, index) == UNION {Get(h.regions, index) : h \in handle}

RegionReads(handle, index) ==
  LET region == RegionView(handle, index) IN
  [is       |-> Else({r.is : r \in region}, "null"),
   role     |-> Else({r.role : r \in region}, "data"),
   claimed  |-> Else({r.claimed : r \in region}, FALSE),
   category |-> WriteOpt({i.category : i \in UNION {r.issue : r \in region}}, Untouched),
   issue    |-> {i.message : i \in UNION {r.issue : r \in region}}]

VolumeView(handle, index) == UNION {Get(h.volumes, index) : h \in handle}

VolumeReads(handle, index) ==
  LET volume == VolumeView(handle, index) IN
  [is      |-> Else({v.is : v \in volume}, "null"),
   origin  |-> Else({v.origin : v \in volume}, "whole"),
   regions |-> Else({Len(v.regions) : v \in volume}, 0)]

OriginRegion(handle, index, at) ==
  Else(UNION {Get(v.regions, at) : v \in VolumeView(handle, index)}, 0)

FilesystemView(handle, index) == UNION {Get(h.filesystems, index) : h \in handle}
LabelView(handle, index)      == UNION {f.label : f \in FilesystemView(handle, index)}

FilesystemReads(handle, index) ==
  LET system == FilesystemView(handle, index)  label == LabelView(handle, index) IN
  [is       |-> Else({f.is : f \in system}, "null"),
   kind     |-> UNION {f.kind : f \in system},
   answered |-> label # {},
   label    |-> UNION {l.name : l \in label},
   by       |-> UNION {l.by : l \in label},
   readings |-> Else({Len(l.readings) : l \in label}, 0)]

\* Whether the format has the field, and what it holds: an empty one is there.
LabelReadingReads(handle, index, at) ==
  LET reading == UNION {Get(l.readings, at) : l \in LabelView(handle, index)} IN
  [source  |-> Else({r.source : r \in reading}, "null"),
   present |-> UNION {r.stored : r \in reading} # {},
   stored  |-> UNION {r.stored : r \in reading}]

ShapeReads(handle, index) ==
  LET system == FilesystemView(handle, index) IN
  [clusters |-> WriteOpt(UNION {f.clusters : f \in system}, Untouched),
   heads    |-> WriteOpt(UNION {f.heads : f \in system}, Untouched),
   issues   |-> Else({Len(f.issues) : f \in system}, 0)]

IssueReads(handle, index, at) ==
  LET issue == UNION {Get(f.issues, at) : f \in FilesystemView(handle, index)} IN
  [category |-> WriteOpt({i.category : i \in issue}, Untouched),
   message  |-> {i.message : i \in issue}]

\* The file systems a caller can go on and read.
ReadableCount(handle) ==
  Else({Cardinality({n \in DOMAIN h.filesystems :
                       h.filesystems[n].kind # {} /\ h.filesystems[n].issues = <<>>}) :
          h \in handle}, 0)

-----------------------------------------------------------------------------
(* Assurance and geometry *)

AssuranceView(says) == [says EXCEPT !.evidence = EvidenceViews(@)]

AssuranceReads(handle) ==
  [outcome   |-> Else({h.outcome : h \in handle}, "verified"),
   condition |-> UNION {h.condition : h \in handle},
   access    |-> Else({h.access : h \in handle}, "read-only"),
   claim     |-> Else({h.claim : h \in handle}, "library"),
   lines     |-> Else({Len(h.evidence) : h \in handle}, 0),
   ranges    |-> Else({Len(h.readable) : h \in handle}, 0),
   declared  |-> WriteOpt(UNION {h.declared : h \in handle}, Untouched),
   missing   |-> WriteOpt(UNION {h.missing : h \in handle}, Untouched)]

\* Both ends of a readable range, in one call.
RangeRead(handle, index) ==
  LET range == UNION {Get(h.readable, index) : h \in handle} IN
  <<range # {}, Else({r[1] : r \in range}, Untouched), Else({r[2] : r \in range}, Untouched)>>

GeometryView(says) == says

GeometryReads(handle) ==
  [state     |-> Else({h.state : h \in handle}, "unstated"),
   at        |-> WriteOpt(UNION {h.determined : h \in handle}, Untouched),
   conflicts |-> Else({Len(h.conflicts) : h \in handle}, 0),
   unsettled |-> Else({Len(h.unsettled) : h \in handle}, 0),
   readings  |-> Else({Len(h.readings) : h \in handle}, 0)]

\* A reading's words, and the parts of a geometry it states.
ReadingReads(handle, index) ==
  LET reading == UNION {Get(h.readings, index) : h \in handle} IN
  [source    |-> Else({r.source : r \in reading}, "null"),
   cylinders |-> WriteOpt(UNION {r.cylinders : r \in reading}, Untouched),
   bytes     |-> WriteOpt(UNION {r.bytes : r \in reading}, Untouched)]

-----------------------------------------------------------------------------
(* Partitions, listings and discoveries *)

PartitionView(says) == [says EXCEPT !.evidence = EvidenceViews(@)]

PartitionReads(handle) ==
  [is          |-> Else({h.is : h \in handle}, "null"),
   type        |-> WriteOpt(UNION {h.type : h \in handle}, Untouched),
   reading     |-> UNION {h.reading : h \in handle},
   role        |-> Else({h.role : h \in handle}, "data"),
   start       |-> WriteOpt(UNION {h.start : h \in handle}, Untouched),
   volume      |-> WriteOpt(UNION {h.volume : h \in handle}, Untouched),
   addressable |-> Else({h.addressable : h \in handle}, FALSE),
   category    |-> WriteOpt({i.category : i \in UNION {h.issue : h \in handle}}, Untouched),
   issue       |-> {i.message : i \in UNION {h.issue : h \in handle}},
   provenance  |-> UNION {h.provenance : h \in handle},
   lines       |-> Else({Len(h.evidence) : h \in handle}, 0)]

\* Entries, each with the facts it declares.
EntryViews(says) == says

EntryReads(handle, index) ==
  LET entry == UNION {Get(h, index) : h \in handle} IN
  [name |-> Else({e.name : e \in entry}, "null"), kind |-> Else({e.kind : e \in entry}, "file"),
   size |-> Else({e.size : e \in entry}, 0), facts |-> Else({Len(e.facts) : e \in entry}, 0)]

\* A fact's key and its value, by two readers.
FactReads(handle, index, at) ==
  LET fact == UNION {Get(e.facts, at) : e \in UNION {Get(h, index) : h \in handle}} IN
  <<{f[1] : f \in fact}, {f[2] : f \in fact}>>

DiscoveryView(says) == says

\* Not a block image: no format is written out, and no size is known.
DiscoveryReads(handle) ==
  [is        |-> Else({h.is : h \in handle}, "null"),
   path      |-> UNION {h.path : h \in handle},
   type      |-> UNION {h.type : h \in handle},
   format    |-> WriteOpt(UNION {h.format : h \in handle}, Untouched),
   size      |-> Else(UNION {h.size : h \in handle}, 0),
   mode      |-> Else({h.mode : h \in handle}, "read-only"),
   accepting |-> Else({Len(h.accepting) : h \in handle}, 0),
   recorded  |-> Else({Len(h.recorded) : h \in handle}, 0)]

-----------------------------------------------------------------------------
(* Streams and record layers *)

\* What was lost: its code and detail kept as words, its amount where it is.
LossWords(losses) == [n \in DOMAIN losses |-> losses[n].what]

StreamView(says) ==
  [is |-> says.is, losses |-> LossWords(says.losses), evidence |-> EvidenceViews(says.evidence)]

\* The medium's stream, while the medium is held.
Stream(handle) == IF handle # {} /\ held THEN {core} ELSE {}

StreamReads(handle) ==
  [is        |-> Else({h.is : h \in handle}, "null"),
   losses    |-> Else({Len(h.losses) : h \in handle}, 0),
   lines     |-> Else({Len(h.evidence) : h \in handle}, 0),
   clock     |-> Else({s.clock : s \in Stream(handle)}, 0),
   locations |-> Else({Len(s.locations) : s \in Stream(handle)}, 0)]

LossReads(handle, index) ==
  [what   |-> UNION {Get(h.losses, index) : h \in handle},
   amount |-> Else(UNION {{l.amount : l \in Get(s.losses, index)} : s \in Stream(handle)}, 0)]

\* A location and whether it states a surface, in one call.
LocationRead(handle, index) ==
  LET at == UNION {Get(s.locations, index) : s \in Stream(handle)} IN
  [found |-> at # {}, is |-> Else({l.is : l \in at}, Untouched),
   has   |-> UNION {l.surface : l \in at} # {},
   surface |-> IF at = {} THEN Untouched ELSE Else(UNION {l.surface : l \in at}, 0)]

\* A record layer is the caller's own; a claim's rule and refusal are words
\* beside it, empty where there is none.
SectorsView(says) ==
  [is |-> says.is, claims |-> says.claims, contested |-> says.contested,
   rules |-> [n \in DOMAIN says.claims |-> Else(says.claims[n].rule, "")],
   evidence |-> EvidenceViews(says.evidence)]

ClaimRead(handle, index) ==
  LET claim == UNION {Get(h.claims, index) : h \in handle} IN
  [found |-> claim # {}, is |-> Else({c.is : c \in claim}, Untouched),
   has   |-> UNION {c.surface : c \in claim} # {},
   surface |-> IF claim = {} THEN Untouched ELSE Else(UNION {c.surface : c \in claim}, 0)]

ClaimRule(handle, index) == UNION {Get(h.rules, index) : h \in handle}

ContestedRead(handle, index) ==
  LET contested == UNION {Get(h.contested, index) : h \in handle} IN
  <<contested # {}, Else(contested, Untouched)>>

-----------------------------------------------------------------------------
(* Renditions, and the tables a caller looks names up in *)

\* A description has no path; a writing has the one it wrote.
RenditionView(says) ==
  [path |-> says.path, losses |-> LossWords(says.losses), report |-> says]

RenditionReads(handle) ==
  [path   |-> UNION {h.path : h \in handle},
   is     |-> Else({h.report.is : h \in handle}, 0),
   losses |-> Else({Len(h.report.losses) : h \in handle}, 0),
   parts  |-> Else({Len(h.report.parts) : h \in handle}, 0)]

RenditionLoss(handle, index) ==
  [what   |-> UNION {Get(h.losses, index) : h \in handle},
   amount |-> Else(UNION {{l.amount : l \in Get(h.report.losses, index)} : h \in handle}, 0)]

\* A half-track, an orbit, a hole: found, and written where there is an out.
PartRead(handle, index, out) ==
  LET part == UNION {Get(h.report.parts, index) : h \in handle} IN
  <<part # {}, IF out THEN Else(part, Untouched) ELSE Untouched>>

\* A missing block is not even found where there is no out.
MissingRead(handle, index, out) ==
  IF out THEN PartRead(handle, index, out) ELSE <<FALSE, Untouched>>

\* The tables are made once and never change: formats and their devices,
\* kinds, layouts, slots, spellings.
TableRead(table, index) ==
  LET row == Get(table, index) IN
  [id |-> {r.id : r \in row}, name |-> {r.name : r \in row},
   takes |-> Else({r.takes : r \in row}, FALSE), devices |-> Else({Len(r.devices) : r \in row}, 0)]

DeviceIn(table, index, at) == UNION {Get(r.devices, at) : r \in Get(table, index)}

-----------------------------------------------------------------------------
(* The same reports as the Python binding's objects (crates/remanence-py): *)
(* copied once, item by item; what is not there is None.                   *)

PyDisk(disk) ==
  [is |-> disk.is, layout |-> disk.sectors.layout,
   every  |-> IF disk.sectors.layout = "fixed" THEN {disk.sectors.every} ELSE {},
   tracks |-> IF disk.sectors.layout = "variable" THEN disk.sectors.tracks ELSE <<>>]

\* A layer says the kind of its layout beside the layout, which may be None.
PyLayer(layer) ==
  [kind |-> layer.kind, is |-> layer.is, current |-> layer.current, expected |-> layer.expected,
   layoutKind |-> layer.layout.kind,
   layout |-> CASE layer.layout.kind = "physical" -> {PyDisk(d) : d \in layer.layout.disk}
                [] layer.layout.kind = "unknown"  -> {}
                [] OTHER                          -> {layer.layout}]

PyIdentification(says) ==
  [modified |-> says.modified, evidence |-> says.evidence,
   layers |-> [n \in DOMAIN says.layers |-> PyLayer(says.layers[n])]]

\* The one issue a region has keeps its category; the lists keep their words.
PyRegion(region) ==
  [is |-> region.is, role |-> region.role, claimed |-> region.claimed,
   category |-> {i.category : i \in region.issue}, issue |-> {i.message : i \in region.issue}]

PyVolume(volume) ==
  [is |-> volume.is, origin |-> volume.origin,
   regions |-> IF volume.origin = "regions" THEN volume.regions ELSE <<>>]

PyFilesystem(system) ==
  [system EXCEPT !.issues = [n \in DOMAIN @ |-> @[n].message]]

PyDiskReport(says) ==
  [is |-> says.is, content |-> says.content.kind, schema |-> says.schema,
   why |-> IF says.content.kind = "unknown" THEN {says.content.why} ELSE {},
   regions     |-> [n \in DOMAIN says.regions |-> PyRegion(says.regions[n])],
   volumes     |-> [n \in DOMAIN says.volumes |-> PyVolume(says.volumes[n])],
   filesystems |-> [n \in DOMAIN says.filesystems |-> PyFilesystem(says.filesystems[n])]]

\* The file systems a host can go on and read.
PyReadable(report) ==
  Cardinality({n \in DOMAIN report.filesystems :
                 report.filesystems[n].kind # {} /\ report.filesystems[n].issues = <<>>})

PyAssurance(says) ==
  [ends |-> [n \in DOMAIN says.readable |-> says.readable[n][2]], said |-> says]

\* The coordinates are None but where they are determined.
PyGeometry(says) ==
  [state |-> says.state, at |-> says.determined, readings |-> says.readings,
   open |-> <<says.conflicts, says.unsettled>>]

PyEntry(entry) ==
  [name |-> entry.name, kind |-> entry.kind, size |-> entry.size, declared |-> entry.facts]

\* Losses come with their amounts, and locations with their numbers, so
\* nothing is asked of the medium again.
PyLosses(losses) == [n \in DOMAIN losses |-> <<losses[n].what, losses[n].amount>>]

PyBitstream(says) ==
  [is |-> says.is, clock |-> says.clock, locations |-> says.locations,
   losses |-> PyLosses(says.losses), evidence |-> says.evidence]

\* A claim that reads has neither rule nor refusal.
PySectors(says) ==
  [is |-> says.is, claims |-> says.claims, contested |-> says.contested,
   evidence |-> says.evidence]

\* A rendition or a container described: its parts, and no path, or written.
PyRendition(says) ==
  [path |-> says.path, is |-> says.is, parts |-> says.parts, losses |-> PyLosses(says.losses)]

PyViewOf(of, says) ==
  CASE of = "identification" -> PyIdentification(says)
    [] of = "inspection"     -> PyDiskReport(says)
    [] of = "assurance"      -> PyAssurance(says)
    [] of = "geometry"       -> PyGeometry(says)
    [] of = "entries"        -> [n \in DOMAIN says |-> PyEntry(says[n])]
    [] of = "stream"         -> PyBitstream(says)
    [] of = "sectors"        -> PySectors(says)
    [] of = "rendition"      -> PyRendition(says)
    [] OTHER                 -> says

-----------------------------------------------------------------------------
(* Taking a report, and what may happen to what it is of *)

ViewOf(says) ==
  CASE kind = "identification" -> Identify(says)
    [] kind = "inspection"     -> Inspect(says)
    [] kind = "assurance"      -> AssuranceView(says)
    [] kind = "geometry"       -> GeometryView(says)
    [] kind = "partition"      -> PartitionView(says)
    [] kind = "entries"        -> EntryViews(says)
    [] kind = "discovery"      -> DiscoveryView(says)
    [] kind = "stream"         -> StreamView(says)
    [] kind = "sectors"        -> SectorsView(says)
    [] kind = "rendition"      -> RenditionView(says)
    [] OTHER                   -> says

\* What a write or a recording changes; the others never change.
Changing == {"identification", "inspection", "assurance", "geometry", "partition", "entries"}

Take ==
  /\ view = {} /\ held
  /\ view' = {ViewOf(core)} /\ taken' = core
  /\ UNCHANGED <<kind, core, held, changes>>

Change ==
  /\ held /\ kind \in Changing /\ changes < MaxChanges
  /\ \E m \in Moments : m.kind = kind /\ core' = m.says
  /\ changes' = changes + 1
  /\ UNCHANGED <<kind, held, taken, view>>

Release == held /\ held' = FALSE /\ UNCHANGED <<kind, core, taken, view, changes>>

\* Freeing nothing is freeing nothing.
FreeReport == view' = {} /\ UNCHANGED <<kind, core, held, taken, changes>>

ViewsInit ==
  /\ \E m \in Moments : kind = m.kind /\ core = m.says
  /\ held = TRUE /\ taken = core /\ view = {} /\ changes = 0

ViewsNext == Take \/ Change \/ Release \/ FreeReport

Views == ViewsInit /\ [][ViewsNext]_vars

-----------------------------------------------------------------------------
(* Properties: a caller that walks a report the way its counts and kinds    *)
(* lead it has back what the core said when it was taken.                   *)

\* A line is read to its end, a NUL the core had in it shown for what it was.
LinesBack(h, count) ==
  /\ count = Len(taken.evidence)
  /\ \A n \in 1 .. count :
       LET said == taken.evidence[n]
           read == Seen(Else(Get(h.evidence, n), <<>>)) IN
       /\ Len(read) = Len(said)
       /\ \A c \in DOMAIN said : read[c] = said[c] \/ (said[c] = Nul /\ read[c] = Mark)

TrackBack(n, at) ==
  LET t == TrackRead(view, n, at) IN [size |-> IF t.has THEN {t.size} ELSE {}]

LayoutBack(n) ==
  LET k == LayerReads(view, n).layout
      a == ArchiveReads(view, n)  i == ImageReads(view, n)
      f == FilesystemLayerReads(view, n)  d == DiskReads(view, n) IN
  CASE k = "archive"    -> [kind |-> k, path |-> a.path, entry |-> a.entry, size |-> Told(a.size)]
    [] k = "image"      -> [kind |-> k, offset |-> Told(i.offset), length |-> Told(i.length)]
    [] k = "filesystem" -> [kind |-> k, offset |-> Told(f.offset), length |-> Told(f.length)]
    [] k = "physical"   ->
         [kind |-> k,
          disk |-> IF ~d.has THEN {}
                   ELSE {[is |-> d.is,
                          sectors |->
                            CASE d.layout = "fixed" -> [layout |-> "fixed", every |-> d.every]
                              [] d.layout = "variable" ->
                                   [layout |-> "variable",
                                    tracks |-> Walk(d.tracks, [at \in 1 .. d.tracks |-> TrackBack(n, at)])]
                              [] OTHER -> [layout |-> "unknown"]]}]
    [] OTHER            -> [kind |-> "unknown"]

IdentificationBack(h) ==
  LET r == IdentificationReads(view) IN
  /\ LinesBack(h, r.lines) /\ r.modified = taken.modified
  /\ taken.layers =
       [n \in 1 .. r.layers |->
          LET x == LayerReads(view, n) IN
          [kind |-> x.kind, is |-> x.is, current |-> Told(x.current),
           expected |-> Told(x.expected), layout |-> LayoutBack(n)]]

IssueBack(category, message) ==
  {[category |-> c, message |-> m] : c \in Told(category), m \in message}

RegionBack(n) ==
  LET r == RegionReads(view, n) IN
  [is |-> r.is, role |-> r.role, claimed |-> r.claimed, issue |-> IssueBack(r.category, r.issue)]

VolumeBack(n) ==
  LET v == VolumeReads(view, n)
      regions == [at \in 1 .. v.regions |-> OriginRegion(view, n, at)] IN
  IF v.origin = "whole" THEN [is |-> v.is, origin |-> "whole"]
  ELSE [is |-> v.is, origin |-> "regions", regions |-> regions]

LabelBack(n) ==
  LET f == FilesystemReads(view, n) IN
  IF ~f.answered THEN {}
  ELSE {[name |-> f.label, by |-> f.by,
         readings |-> [at \in 1 .. f.readings |->
                         LET r == LabelReadingReads(view, n, at) IN
                         [source |-> r.source, stored |-> IF r.present THEN r.stored ELSE {}]]]}

FilesystemBack(n) ==
  LET f == FilesystemReads(view, n)  g == ShapeReads(view, n) IN
  [is |-> f.is, kind |-> f.kind, label |-> LabelBack(n), clusters |-> Told(g.clusters),
   heads |-> Told(g.heads),
   issues |-> [at \in 1 .. g.issues |->
                 LET i == IssueReads(view, n, at) IN
                 CHOOSE b \in IssueBack(i.category, i.message) : TRUE]]

InspectionBack(h) ==
  LET r == DeviceReads(view) IN
  /\ taken.is = r.is
  /\ taken.content = IF r.why = {} THEN [kind |-> r.content]
                     ELSE [kind |-> r.content, why |-> Else(r.why, "")]
  /\ taken.schema =
       IF ~r.schema THEN {}
       ELSE {[kind |-> k, evidence |-> [n \in 1 .. r.lines |-> Else(SchemaLine(view, n), "")]] :
               k \in r.scheme}
  /\ taken.regions = [n \in 1 .. Len(h.regions) |-> RegionBack(n)]
  /\ taken.volumes = [n \in 1 .. Len(h.volumes) |-> VolumeBack(n)]
  /\ taken.filesystems = [n \in 1 .. Len(h.filesystems) |-> FilesystemBack(n)]
  /\ ReadableCount(view) =
       Cardinality({n \in DOMAIN taken.filesystems :
                      FilesystemReads(view, n).kind # {} /\ ShapeReads(view, n).issues = 0})

AssuranceBack(h) ==
  LET r == AssuranceReads(view) IN
  /\ LinesBack(h, r.lines)
  /\ taken =
       [outcome |-> r.outcome, condition |-> r.condition, access |-> r.access, claim |-> r.claim,
        evidence |-> taken.evidence, declared |-> Told(r.declared), missing |-> Told(r.missing),
        readable |-> [n \in 1 .. r.ranges |->
                        LET range == RangeRead(view, n) IN <<range[2], range[3]>>]]

GeometryBack(h) ==
  LET r == GeometryReads(view) IN
  taken = [state |-> r.state, determined |-> Told(r.at),
           conflicts |-> [n \in 1 .. r.conflicts |-> h.conflicts[n]],
           unsettled |-> [n \in 1 .. r.unsettled |-> h.unsettled[n]],
           readings  |-> [n \in 1 .. r.readings |->
                            LET x == ReadingReads(view, n) IN
                            [source |-> x.source, cylinders |-> Told(x.cylinders),
                             bytes |-> Told(x.bytes)]]]

PartitionBack(h) ==
  LET r == PartitionReads(view) IN
  /\ LinesBack(h, r.lines)
  /\ taken = [is |-> r.is, type |-> Told(r.type), reading |-> r.reading, role |-> r.role,
              start |-> Told(r.start), volume |-> Told(r.volume),
              addressable |-> r.addressable, issue |-> IssueBack(r.category, r.issue),
              provenance |-> r.provenance, evidence |-> taken.evidence]

EntriesBack(h) ==
  taken = [n \in 1 .. Len(h) |->
             LET e == EntryReads(view, n) IN
             [name |-> e.name, kind |-> e.kind, size |-> e.size,
              facts |-> [at \in 1 .. e.facts |->
                           LET f == FactReads(view, n, at) IN <<Else(f[1], ""), Else(f[2], "")>>]]]

DiscoveryBack(h) ==
  LET r == DiscoveryReads(view) IN
  taken = [is |-> r.is, path |-> r.path, type |-> r.type, format |-> Told(r.format),
           size |-> IF Told(r.format) = {} THEN {} ELSE {r.size}, mode |-> r.mode,
           accepting |-> [n \in 1 .. r.accepting |-> h.accepting[n]],
           recorded |-> [n \in 1 .. r.recorded |-> h.recorded[n]]]

\* The words stand; the numbers are the medium's while it is held, and none
\* afterwards.
StreamBack(h) ==
  LET r == StreamReads(view) IN
  /\ LinesBack(h, r.lines) /\ r.is = taken.is /\ r.losses = Len(taken.losses)
  /\ \A n \in 1 .. r.losses :
       LET l == LossReads(view, n) IN
       /\ l.what = {taken.losses[n].what}
       /\ l.amount = IF held THEN taken.losses[n].amount ELSE 0
  /\ r.clock = IF held THEN taken.clock ELSE 0
  /\ r.locations = IF held THEN Len(taken.locations) ELSE 0
  /\ \A n \in 1 .. r.locations :
       LET l == LocationRead(view, n) IN
       l.found /\ taken.locations[n] = [is |-> l.is, surface |-> IF l.has THEN {l.surface} ELSE {}]

SectorsBack(h) ==
  /\ LinesBack(h, Len(h.evidence))
  /\ taken.claims =
       [n \in 1 .. Len(h.claims) |->
          LET c == ClaimRead(view, n)  rule == Else(ClaimRule(view, n), "") IN
          [is |-> c.is, surface |-> IF c.has THEN {c.surface} ELSE {},
           rule |-> IF rule = "" THEN {} ELSE {rule}]]
  /\ taken.contested = [n \in 1 .. Len(h.contested) |-> ContestedRead(view, n)[2]]

RenditionBack(h) ==
  LET r == RenditionReads(view) IN
  taken = [path |-> r.path, is |-> r.is,
           losses |-> [n \in 1 .. r.losses |->
                         LET l == RenditionLoss(view, n) IN
                         [what |-> Else(l.what, ""), amount |-> l.amount]],
           parts |-> [n \in 1 .. r.parts |-> PartRead(view, n, TRUE)[2]]]

TableBack(h) ==
  taken = [n \in 1 .. Len(h) |->
             LET r == TableRead(h, n) IN
             [id |-> Else(r.id, ""), name |-> Else(r.name, ""), takes |-> r.takes,
              devices |-> [at \in 1 .. r.devices |-> Else(DeviceIn(h, n, at), "")]]]

\* "A snapshot of one disk's layered inspection" (report.rs:28), "a snapshot,
\* not a borrow" (storage/partition.rs:129): whatever became of the medium.
ReadsBackWhatWasTaken ==
  \A h \in view :
    CASE kind = "identification" -> IdentificationBack(h)
      [] kind = "inspection"     -> InspectionBack(h)
      [] kind = "assurance"      -> AssuranceBack(h)
      [] kind = "geometry"       -> GeometryBack(h)
      [] kind = "partition"      -> PartitionBack(h)
      [] kind = "entries"        -> EntriesBack(h)
      [] kind = "discovery"      -> DiscoveryBack(h)
      [] kind = "stream"         -> StreamBack(h)
      [] kind = "sectors"        -> SectorsBack(h)
      [] kind = "rendition"      -> RenditionBack(h)
      [] OTHER                   -> TableBack(h)

\* Past the end, and one item's own index into another's list, a reader says
\* what it says of no report at all: nothing, and no out is written.
NothingPastTheEnd ==
  \A n \in {1, Past} :
    /\ kind = "identification" =>
         /\ LayerReads(view, Past) = LayerReads({}, 1)
         /\ \A at \in 1 .. 2 : TrackRead(view, n, Past) = TrackRead({}, 1, at)
    /\ kind = "inspection" =>
         /\ RegionReads(view, Past) = RegionReads({}, 1)
         /\ VolumeReads(view, Past) = VolumeReads({}, 1)
         /\ FilesystemReads(view, Past) = FilesystemReads({}, 1)
         /\ LabelReadingReads(view, n, Past) = LabelReadingReads({}, 1, 1)
         /\ IssueReads(view, n, Past) = IssueReads({}, 1, 1)
         /\ OriginRegion(view, n, Past) = 0
    /\ kind = "assurance" => RangeRead(view, Past) = RangeRead({}, 1)
    /\ kind = "geometry" => ReadingReads(view, Past) = ReadingReads({}, 1)
    /\ kind = "entries" =>
         EntryReads(view, Past) = EntryReads({}, 1) /\ FactReads(view, n, Past) = FactReads({}, 1, 1)
    /\ kind = "stream" =>
         LossReads(view, Past) = LossReads({}, 1) /\ LocationRead(view, Past) = LocationRead({}, 1)
    /\ kind = "sectors" => ClaimRead(view, Past) = ClaimRead({}, 1)
    /\ kind = "rendition" =>
         \A out \in BOOLEAN :
           /\ PartRead(view, Past, out) = PartRead({}, 1, out)
           /\ MissingRead(view, n, out)[1] => out /\ MissingRead(view, n, out) = PartRead(view, n, out)

\* A file system's issue without its category, which the host is not told.
CategoryAside(says) ==
  IF kind = "inspection"
    THEN [says EXCEPT !.filesystems = [n \in DOMAIN @ |-> PyFilesystem(@[n])]]
    ELSE says

\* A host's object tells apart whatever the core tells apart, but for the
\* category of a file system's issues (remanence-py/src/lib.rs disk_report);
\* asked once, of what the core says before anything happens.
HostToldAsMuch ==
  /\ view = {} /\ held /\ changes = 0 => \A m \in Moments :
       m.kind = kind /\ PyViewOf(kind, m.says) = PyViewOf(kind, core)
         => CategoryAside(m.says) = CategoryAside(core)
  /\ kind = "inspection" /\ view # {} /\ core = taken
       => PyReadable(PyDiskReport(core)) = ReadableCount(view)

ViewsAreWhole == ReadsBackWhatWasTaken /\ NothingPastTheEnd /\ HostToldAsMuch
=============================================================================
