---------------------------- MODULE StorageSpaces ----------------------------
(***************************************************************************)
(* The partitions of a medium, the two doors onto the space one composes,  *)
(* and the verbs of the space and of a file in it                          *)
(* (crates/remanence/src/partition/mod.rs, filesystem/space.rs).           *)
(*                                                                         *)
(* The content is a sequence of cells.  A FAT volume is three of them: a   *)
(* boot record that says how far the volume runs, a root that carries its  *)
(* label, the size of its file "F" and whether a directory "D" is made,    *)
(* and the file's bytes.  A catalog's volume (HDOS, CP/M) is a head and the file's bytes. *)
(* What is inside a volume is FatVolume's and Catalogs'.                   *)
(***************************************************************************)
EXTENDS Integers, Sequences, FiniteSets

CONSTANTS
  Media,         \* what may be in hand: a family, cells, and a table's rows
  Values,        \* what a write may carry
  MaxAddress,    \* the last position a caller may name (2^64 - 1 in the code)
  MaxWrites      \* bound on the writes

VARIABLES
  medium,        \* the family, whether a writer opened it, and the rows read
  cells,         \* the content the session sees
  pool,          \* the partitions, established when the medium came to hand
  space,         \* the space a door answered with
  file,          \* whether a file of the space is in hand
  answer,
  writes

Unloaded == [family |-> "none"]

vars == <<medium, cells, pool, space, file, answer, writes>>

None == "none"

Said(verb, outcome, at) == [verb |-> verb, outcome |-> outcome, at |-> at]
Refused(verb, why) ==
  answer' = Said(verb, why, {}) /\ UNCHANGED <<medium, cells, pool, space, file, writes>>
Answered(verb, at) ==
  /\ answer' = Said(verb, "ok", at)
  /\ UNCHANGED <<medium, cells, pool, space, file, writes>>

Zero          == <<"zero", 0>>
Units(n)      == 0 .. n - 1
Held          == Len(cells)
Cell(u)       == cells[u + 1]
Put(u, value) == cells' = [cells EXCEPT ![u + 1] = value] /\ writes' = writes + 1

NoSpace == medium # Unloaded /\ ~space.open

-----------------------------------------------------------------------------
(* Partitions *)

DosPrimary  == {"01", "06"}
DosExtended == {"05"}
Claimed     == DosPrimary \cup DosExtended

\* The one partition the library composes itself.
Direct(extent, volume, namespace) ==
  [ordinal |-> 0, type |-> None, extent |-> extent, addressable |-> extent # <<>>,
   volume |-> volume, namespace |-> namespace]

\* A row of the table.  Structure and a type nobody reads keep their place and
\* compose nothing; no row is held to the content's end.
Declared(row) ==
  LET readable == row.type \in Claimed \ DosExtended
  IN  [ordinal |-> row.number, type |-> row.type, extent |-> <<row.start, row.length>>,
       addressable |-> readable, volume |-> readable,
       namespace |-> IF readable /\ row.type \in DosPrimary THEN "fat" ELSE None]

\* The pool by the medium's family: an archive's own names, a recording, a
\* blank article, an authored space, and content under a scheme or under none.
PoolOf(m) ==
  LET extent == <<0, Len(m.cells)>>
  IN  CASE m.family = "archive"              -> {Direct(<<>>, FALSE, "native")}
        [] m.family \in {"flux", "blank", "blocks"} -> {Direct(<<>>, FALSE, None)}
        [] m.family \in {"authored", "device"} -> {Direct(extent, FALSE, None)}
        [] m.family = "recorded"             -> {Direct(extent, TRUE, "fat")}
        [] m.family = "image" /\ m.rows # {} -> {Declared(row) : row \in m.rows}
        [] OTHER                             -> {Direct(extent, m.content = "volume", None)}

\* The extent a space may be composed over.
ExtentOf(partition) == IF partition.addressable THEN partition.extent ELSE <<>>

Load ==
  /\ medium = Unloaded
  /\ \E m \in Media :
       /\ medium' = m /\ cells' = m.cells /\ pool' = PoolOf(m)
       /\ answer' = Said("load", "ok", {})
  /\ UNCHANGED <<space, file, writes>>

\* What a caller says the type is, against the byte the table records.
CheckType ==
  /\ NoSpace
  /\ \E p \in pool, declared \in {"dos-primary", "dos-extended"} :
    LET bears == p.type \in (IF declared = "dos-primary" THEN DosPrimary ELSE DosExtended)
    IN  IF p.type = None THEN Refused("check_type", "no-declared-type")
        ELSE IF bears THEN Answered("check_type", {})
        ELSE Refused("check_type", "type-disagrees")

-----------------------------------------------------------------------------
(* Recognition: what a seam finds at a place of the content *)

IsFat(at)    == at + 2 < Held /\ Cell(at)[1] = "fat" /\ Cell(at + 1)[1] = "root"
Root(at)     == Cell(at + 1)[2]
LabelAt(at)  == Root(at).label
FatUnits(at) == at .. at + Cell(at)[2] - 1

Heads == {"hdos", "cpm"}

\* An adapter takes its extent whole.
IsCatalog(id, extent) ==
  /\ extent[1] + extent[2] <= Held /\ extent[2] >= 2
  /\ Cell(extent[1])[1] = id

CopyOf(extent) == SubSeq(cells, extent[1] + 1, extent[1] + extent[2])

-----------------------------------------------------------------------------
(* The doors *)

Fresh  == [label |-> None, size |-> 0, dir |-> FALSE]
Closed == [open |-> FALSE]

Space(extent, volume, names, over, label, copy) ==
  [open |-> TRUE, extent |-> extent, volume |-> volume, names |-> names, medium |-> over,
   label |-> label, copy |-> copy, touched |-> FALSE]

\* The space a partition composes, whichever door was opened: a declared FAT
\* volume is looked for, and where it is not found the space says why.
Compose(p) ==
  LET extent == ExtentOf(p)
      at     == IF extent = <<>> THEN 0 ELSE extent[1]
      names  == CASE p.namespace = "native" /\ medium.family = "archive" -> "archive"
                  [] p.namespace = "fat" /\ IsFat(at)                  -> "fat"
                  [] OTHER                                             -> None
  IN  Space(extent, p.volume, names, TRUE, IF names = "fat" THEN LabelAt(at) ELSE None,
            IF names = "archive" THEN cells ELSE <<>>)

Opens(verb, composed) ==
  /\ space' = composed /\ answer' = Said(verb, "ok", {})
  /\ UNCHANGED <<medium, cells, pool, file, writes>>

\* The addressable door, whose compose has no arm for a layer that is no medium.
OpenVolume ==
  /\ NoSpace
  /\ \E p \in pool :
       CASE ~p.addressable -> Refused("volume", "absent")
         [] p.addressable /\ medium.family = "device" -> Refused("volume", "panic")
         [] OTHER -> Opens("volume", Compose(p))

OpenFilesystem ==
  /\ NoSpace
  /\ \E p \in pool :
    IF p.namespace # None THEN Opens("filesystem", Compose(p)) ELSE Refused("filesystem", "absent")

\* A reading the caller declares.  It is verified, and a space over a layer that
\* is no medium has only its names.
OpenAs ==
  /\ NoSpace
  /\ \E p \in pool, id \in {"fat", "cbmdos", "ntfs"} \cup Heads :
    LET extent == ExtentOf(p)
        Only(names, copy) == Space(<<>>, FALSE, names, FALSE, None, copy)
    IN  CASE id = "ntfs" -> Refused("filesystem_as", "unclaimed-namespace")
          [] id = "cbmdos" /\ medium.family \in {"flux", "blocks"} ->
               IF Cell(0)[1] = "cbmdos" THEN Opens("filesystem_as", Only("cbmdos", cells))
               ELSE Refused("filesystem_as", "not-recognized")
          [] id = "cbmdos" /\ medium.family \notin {"flux", "blocks"} ->
               Refused("filesystem_as", "unclaimed-namespace")
          [] id # "ntfs" /\ id # "cbmdos" /\ medium.family = "blocks" ->
               Refused("filesystem_as", "unclaimed-namespace")
          [] id # "ntfs" /\ id # "cbmdos" /\ medium.family # "blocks" /\ extent = <<>> ->
               Refused("filesystem_as", "no-extent")
          [] id = "fat" /\ extent # <<>> ->
               IF ~IsFat(extent[1]) THEN Refused("filesystem_as", "not-recognized")
               ELSE IF medium.family = "device"
               THEN Opens("filesystem_as", Only("fat-catalog", cells))
               ELSE Opens("filesystem_as",
                          Space(extent, p.volume, "fat", TRUE, LabelAt(extent[1]), <<>>))
          [] OTHER ->
               IF ~IsCatalog(id, extent) THEN Refused("filesystem_as", "not-recognized")
               ELSE IF medium.family = "device"
               THEN Opens("filesystem_as", Only(id, CopyOf(extent)))
               ELSE Opens("filesystem_as", Space(extent, p.volume, id, TRUE, None, CopyOf(extent)))

\* A layout recorded through a partition: onto a blank article, and nothing else.
RecordAs ==
  /\ NoSpace
  /\ IF medium.family # "blank"
    THEN Refused("record_as", IF medium.family \in {"blocks", "device"} THEN "no-extent"
                              ELSE "recorded")
    ELSE /\ medium' = [medium EXCEPT !.family = "recorded"]
         /\ cells' = <<<<"fat", 3>>, <<"root", Fresh>>, Zero>>
         /\ pool' = PoolOf([medium' EXCEPT !.cells = cells'])
         /\ answer' = Said("record_as", "ok", {})
         /\ UNCHANGED <<space, file, writes>>

Close ==
  /\ space.open
  /\ space' = Closed /\ file' = FALSE /\ answer' = Said("close", "ok", {})
  /\ UNCHANGED <<medium, cells, pool, writes>>

-----------------------------------------------------------------------------
(* The addressable vantage *)

\* Mutant of OutsideExtent: the sum is taken as the machine takes it.
OutsideExtentWraps(offset, n) == (offset + n) % (MaxAddress + 1) > space.extent[2]

OutsideExtent(offset, n) == offset + n > MaxAddress \/ offset + n > space.extent[2]

\* Where a position of the space lies in the content.
Place(offset) == (space.extent[1] + offset) % (MaxAddress + 1)

\* Why the content refuses a span, a write's permission first.
ContentRefusal(at, n, writing) ==
  CASE writing /\ ~medium.writable -> "read-only"
    [] at + n > Held               -> "past-end"
    [] OTHER                       -> None

SpaceInHand == space.open /\ ~file

SpaceRefusal(offset, n, writing) ==
  CASE space.extent = <<>>      -> "not-addressable"
    [] OutsideExtent(offset, n) -> "outside-extent"
    [] OTHER                    -> ContentRefusal(Place(offset), n, writing)

ReadAt ==
  /\ SpaceInHand
  /\ \E offset \in 0 .. MaxAddress, n \in 0 .. 1 :
       LET why == SpaceRefusal(offset, n, FALSE)
           at  == {Place(offset) + k : k \in Units(n)}
       IN  IF why # None THEN Refused("read_at", why) ELSE Answered("read_at", at)

WriteAt ==
  /\ SpaceInHand /\ writes < MaxWrites
  /\ \E offset \in 0 .. MaxAddress, value \in Values :
       LET why == SpaceRefusal(offset, 1, TRUE)
       IN  IF why # None THEN Refused("write_at", why)
           ELSE /\ Put(Place(offset), value)
                /\ space' = [space EXCEPT !.touched = TRUE]
                /\ answer' = Said("write_at", "ok", {Place(offset)})
                /\ UNCHANGED <<medium, pool, file>>

-----------------------------------------------------------------------------
(* The namespace vantage *)

At == IF space.extent = <<>> THEN 0 ELSE space.extent[1]

\* Why a name is not answered: no namespace, or a volume no longer found where
\* it was.
NamesRefusal ==
  CASE space.names = None                -> "absent"
    [] space.names = "fat" /\ ~IsFat(At) -> "not-recognized"
    [] OTHER                             -> None

\* The one file, as its namespace answers it: a volume is read where it lies,
\* a catalog answers from what it read when it was opened.
FileBytes ==
  CASE space.names = "fat"         -> IF Root(At).size = 0 THEN <<>> ELSE <<Cell(At + 2)>>
    [] space.names = "fat-catalog" -> IF space.copy[2][2].size = 0 THEN <<>> ELSE <<space.copy[3]>>
    [] OTHER                       -> <<space.copy[2]>>

Label ==
  /\ SpaceInHand
  /\ IF space.names = None THEN Refused("label", "absent")
     ELSE Answered("label", {})

\* entries, stat and read_file; a path that names nothing is an answer to stat
\* and a refusal of the others.
ReadNames ==
  /\ SpaceInHand
  /\ \E verb \in {"entries", "stat", "read_file"}, path \in {"F", "D", "missing"} :
       CASE NamesRefusal # None -> Refused(verb, NamesRefusal)
         [] NamesRefusal = None /\ path = "F" ->
              IF verb = "entries" THEN Refused(verb, "not-a-directory")
              ELSE Answered(verb, {})
         [] NamesRefusal = None /\ path = "D" /\ space.names = "fat" /\ Root(At).dir ->
              IF verb = "read_file" THEN Refused(verb, "is-directory")
              ELSE Answered(verb, {})
         [] OTHER ->
              IF verb = "stat" THEN Answered(verb, {}) ELSE Refused(verb, "not-found")

GetFile ==
  /\ SpaceInHand
  /\ \E path \in {"F", "missing"} :
       CASE NamesRefusal # None -> Refused("get_file", NamesRefusal)
         [] NamesRefusal = None /\ path = "missing" -> Refused("get_file", "not-found")
         [] OTHER ->
              /\ file' = TRUE /\ answer' = Said("get_file", "ok", {})
              /\ UNCHANGED <<medium, cells, pool, space, writes>>

\* Where a namespace's files may be taken as a load's sources: an archive.
SourceRefusal ==
  CASE space.names = None  -> "absent"
    [] space.names = "fat" -> "not-addressable"
    [] space.names \notin {None, "fat"} /\ ~space.medium -> "not-addressable"
    [] space.names \notin {None, "fat"} /\ space.medium /\ medium.family # "archive" -> "no-archive"
    [] OTHER               -> None

Files ==
  /\ SpaceInHand
  /\ IF SourceRefusal # None THEN Refused("files", SourceRefusal)
     ELSE Answered("files", {})

\* What refuses a write by name.
WritesRefusal ==
  CASE space.names = None   -> "absent"
    [] space.names # None /\ space.names # "fat" -> "not-writable"
    [] space.names = "fat" /\ ~medium.writable   -> "read-only"
    [] OTHER                -> NamesRefusal

\* The cells a name verb wrote, as `now` leaves them.
WritesCells(verb, now) ==
  /\ cells' = now /\ writes' = writes + 1
  /\ answer' = Said(verb, "ok", {u \in Units(Held) : now[u + 1] # Cell(u)})
  /\ UNCHANGED <<medium, pool, file>>

WithRoot(root) == [cells EXCEPT ![At + 2] = <<"root", root>>]

\* Mutant of Relabelled: the label is not read again.
KeepsLabel(label) == space

\* set_label reads the label the write has just changed.
Relabelled(label) == [space EXCEPT !.label = label]

SetLabel ==
  /\ SpaceInHand /\ writes < MaxWrites
  /\ \E label \in {None, "NEW"} :
       IF WritesRefusal # None THEN Refused("set_label", WritesRefusal)
       ELSE /\ WritesCells("set_label", WithRoot([Root(At) EXCEPT !.label = label]))
            /\ space' = Relabelled(label)

WriteFile ==
  /\ SpaceInHand /\ writes < MaxWrites
  /\ \E value \in Values, size \in 0 .. 1 :
       LET root == WithRoot([Root(At) EXCEPT !.size = size])
       IN  IF WritesRefusal # None THEN Refused("write_file", WritesRefusal)
           ELSE /\ WritesCells("write_file",
                              IF size = 0 THEN root ELSE [root EXCEPT ![At + 3] = value])
                /\ UNCHANGED space

\* Kept bytes stay in place and a grown region reads as zeros.
ResizeFile ==
  /\ SpaceInHand /\ writes < MaxWrites
  /\ \E size \in 0 .. 1 :
       LET root == WithRoot([Root(At) EXCEPT !.size = size])
       IN  IF WritesRefusal # None THEN Refused("resize_file", WritesRefusal)
           ELSE /\ WritesCells("resize_file", IF size <= Root(At).size THEN root
                                              ELSE [root EXCEPT ![At + 3] = Zero])
                /\ UNCHANGED space

\* A directory that is there already succeeds unchanged.
MakeDirectory ==
  /\ SpaceInHand /\ writes < MaxWrites
  /\ IF WritesRefusal # None THEN Refused("make_directory", WritesRefusal)
     ELSE /\ WritesCells("make_directory", WithRoot([Root(At) EXCEPT !.dir = TRUE]))
          /\ UNCHANGED space

-----------------------------------------------------------------------------
(* A file in hand: each verb finds it by its path again, and while it is borrowed
   nothing else can move it *)

FileRead ==
  /\ file
  /\ \E n \in 0 .. 2 :
       IF n > Len(FileBytes) THEN Refused("file_read", "past-end") ELSE Answered("file_read", {})

\* In place: the span lies in the file's current size.
FileWrite ==
  /\ file /\ writes < MaxWrites
  /\ \E value \in Values :
       CASE WritesRefusal # None -> Refused("file_write", WritesRefusal)
         [] WritesRefusal = None /\ FileBytes = <<>> -> Refused("file_write", "past-end")
         [] OTHER -> WritesCells("file_write", [cells EXCEPT ![At + 3] = value]) /\ UNCHANGED space

\* discover and source: the nested journey.
FileSource ==
  /\ file
  /\ IF SourceRefusal # None THEN Refused("source", SourceRefusal)
     ELSE Answered("source", {})

DropFile ==
  /\ file /\ file' = FALSE /\ answer' = Said("drop", "ok", {})
  /\ UNCHANGED <<medium, cells, pool, space, writes>>

-----------------------------------------------------------------------------

SpacesInit ==
  /\ medium = Unloaded /\ cells = <<>> /\ pool = {} /\ space = Closed /\ file = FALSE
  /\ answer = Said("none", "ok", {}) /\ writes = 0

SpacesNext ==
  \/ Load \/ CheckType \/ OpenVolume \/ OpenFilesystem \/ OpenAs \/ RecordAs \/ Close
  \/ ReadAt \/ WriteAt \/ Label \/ ReadNames \/ GetFile \/ Files
  \/ SetLabel \/ WriteFile \/ ResizeFile \/ MakeDirectory
  \/ FileRead \/ FileWrite \/ FileSource \/ DropFile

-----------------------------------------------------------------------------
(* Properties *)

\* What a space holds of its volume (a label, a catalog's own copy) is what the
\* volume says, by whatever verbs it was written, until a caller writes by
\* position.
SpaceIsTrue ==
  space.open =>
    /\ ~space.touched /\ space.names = "fat" => IsFat(At) /\ space.label = LabelAt(At)
    /\ ~space.touched /\ space.names \in Heads /\ space.extent # <<>> => space.copy = CopyOf(space.extent)

\* No position of a space reaches what lies outside it, whatever the caller
\* names; a write by name stays in the volume its boot record declares; and a
\* verb that refuses has changed nothing.
SpaceKeepsToItself ==
  [][ /\ answer'.verb \in {"read_at", "write_at"} =>
           \A u \in answer'.at : u \in space.extent[1] .. space.extent[1] + space.extent[2] - 1
      /\ answer'.verb \in {"set_label", "write_file", "resize_file", "make_directory", "file_write"} =>
           \A u \in answer'.at : u \in FatUnits(At)
      /\ answer'.outcome # "ok" => UNCHANGED <<medium, cells, pool, space, file>> ]_vars
=============================================================================
