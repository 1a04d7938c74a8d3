----------------------------- MODULE MediumVerbs -----------------------------
(***************************************************************************)
(* One medium and the verbs it is worked by (crates/remanence/src/model/   *)
(* media.rs, disk/mod.rs, disk/state.rs, disk/files.rs, assurance.rs,      *)
(* geometry.rs, authored.rs, recording.rs and rendition.rs).               *)
(*                                                                         *)
(* A medium is a block image, a flux recording, an archive, or one an      *)
(* author made.  What a load or an author establishes about it -- the      *)
(* bytes that are there, the right to write, the coordinates -- decides    *)
(* what every later verb answers.  Lengths are counted in units of one     *)
(* boot sector (512 bytes), so a position is a unit and never inside one.  *)
(* The session cache is what it does (SessionCache is how): buffer holds   *)
(* the altered extents whole.  How FAT finds a file is FatVolume's; here a *)
(* file is the units its path, its record and its chain lie in.            *)
(***************************************************************************)
EXTENDS Integers, Sequences, FiniteSets

CONSTANTS
  Artifacts,     \* what a load may find
  Kinds,         \* what an author may make: an article, and coordinates
  Layouts,       \* what an author may record onto an article
  Extent,        \* units of one extent of the cache and of the backing
  Written,       \* the values a write may carry; 0 is what a blank holds
  MostUnits,     \* what a length may count to (2^64 bytes in the code)
  MaxWrites,     \* bound on the writes buffered
  MaxCommits     \* bound on the commits and renditions asked for

VARIABLES
  medium,        \* what was established, NoArticle before
  disk,          \* the committed content of an artifact
  slots,         \* the extents of an authored medium that have a slot, in order
  storage,       \* the session storage their slots lie in
  buffer,        \* the altered extents: what the session sees in their units
  failed,        \* a commit could neither be finished nor undone
  answer,        \* what the last verb answered
  seen, kept,    \* the content the caller is owed, before and after a commit
  torn,          \* the units a commit failed in the middle of
  writes, commits

contentVars == <<disk, slots, storage, buffer, failed, seen, kept, torn>>
mediumVars  == <<medium, disk, slots, storage, buffer, failed, answer, seen, kept, torn,
                 writes, commits>>

NoArticle == [kind |-> "nothing"]
Whole     == -1                       \* no bound on what is read
Unaltered     == [u \in {} |-> 0]

Said(verb, outcome) == [verb |-> verb, outcome |-> outcome, at |-> <<>>, units |-> <<>>,
                        file |-> {}]
Refused(verb, why)  == answer' = Said(verb, why)

-----------------------------------------------------------------------------
(* The coordinates: what each source states, and what they settle.  Nothing *)
(* stated is 0, which is what the boot record writes for it as well.        *)

Parts == {"cylinders", "heads", "sectors", "bytes"}

Reading(c, h, s, b) == [cylinders |-> c, heads |-> h, sectors |-> s, bytes |-> b]
NoReading           == Reading(0, 0, 0, 0)

Stated(part, readings)  == {r[part] : r \in readings} \ {0}
Settled(part, readings) ==
  IF Cardinality(Stated(part, readings)) = 1
  THEN CHOOSE n \in Stated(part, readings) : TRUE ELSE 0

CeilDiv(n, d) == (n + d - 1) \div d

\* Mutant of ExtentReading: a last cylinder that is not whole is left out.
WholeCylinders(size, h, s, b) ==
  IF size \div b = 0 THEN {} ELSE {Reading((size \div b) \div (h * s), 0, 0, 0)}

\* The content states a cylinder count once the rest is settled.
ExtentReading(size, h, s, b) ==
  IF size \div b = 0 THEN {} ELSE {Reading(CeilDiv(size \div b, h * s), 0, 0, 0)}

\* Mutant of SettleAll: the format's own coordinates win over the others'.
SettleFirst(readings, size) ==
  LET whole == {r \in readings : \A part \in Parts : r[part] # 0}
      all == IF whole = {} THEN readings ELSE whole
  IN  [coords |-> [part \in Parts |-> Settled(part, all)], readings |-> readings]

SettleAll(readings, size) ==
  LET h == Settled("heads", readings)
      s == Settled("sectors", readings)
      b == Settled("bytes", readings)
      all == readings \cup (IF 0 \in {h, s, b} THEN {} ELSE ExtentReading(size, h, s, b))
  IN  [coords |-> [part \in Parts |-> Settled(part, all)], readings |-> all]

Stating(coords) == [coords |-> coords, readings |-> {coords}]
Unstated        == SettleAll({}, 0)

State(geometry) ==
  IF \A part \in Parts : geometry.coords[part] # 0 THEN "determined"
  ELSE IF \E part \in Parts : Cardinality(Stated(part, geometry.readings)) > 1
       THEN "geometry-undetermined" ELSE "geometry-unstated"

Total(g) == g.cylinders * g.heads * g.sectors * g.bytes

Covers(g, c, h, s) == c < g.cylinders /\ h < g.heads /\ s \in 1 .. g.sectors

OffsetOf(g, c, h, s) == ((c * g.heads + h) * g.sectors + (s - 1)) * g.bytes

\* What the end tuple of a table's entry implies, where it implies one thing.
CONSTANTS HeadCeiling, TrackCeiling

Implied(entry) ==
  LET base == entry.start + entry.sectors - 1 - (entry.sector - 1)
      Fits(h, s) == (entry.cylinder * h + entry.head) * s = base
      solved == {<<h, s>> \in (entry.head + 1 .. HeadCeiling) \X (entry.sector .. TrackCeiling) :
                   Fits(h, s)}
  IN  IF \/ entry.sector = 0 \/ entry.sectors = 0 \/ entry.cylinder = 0 \/ base < 0
         \/ Cardinality(solved) # 1
      THEN {} ELSE {Reading(0, hs[1], hs[2], 0) : hs \in solved}

-----------------------------------------------------------------------------
(* The assurance gate *)

Bytes(boot) == (IF boot.small # 0 THEN boot.small ELSE boot.large) * boot.unit

Larger(m, n) == IF m > n THEN m ELSE n

\* What sector 0 declares about the size of its volume.
DeclaredVolume(boot) ==
  CASE ~boot.recognized -> [says |-> "absent", bytes |-> 0]
    [] boot.recognized /\ boot.small # 0 /\ boot.large # 0 /\ boot.small # boot.large ->
         [says |-> "conflicted", bytes |-> Larger(boot.small, boot.large) * boot.unit]
    [] OTHER ->
         [says |-> IF Bytes(boot) = 0 \/ boot.metadata > Bytes(boot)
                   THEN "conflicted" ELSE "bounded",
          bytes |-> Bytes(boot)]

Assess(found) ==
  LET volume == DeclaredVolume(found.boot)
      short  == found.raw /\ found.held >= 1 /\ volume.bytes > found.held
  IN  CASE short /\ volume.says = "bounded"    -> "degraded"
        [] short /\ volume.says = "conflicted" -> "refused"
        [] OTHER -> "verified"

\* Every source that speaks about the coordinates, read once at the load.
Establish(found, bound) ==
  LET Readable(u) == u < found.held /\ (bound = Whole \/ u < bound)
      format == IF found.format # NoReading THEN {found.format}
                ELSE IF found.declared # 0 THEN {Reading(0, 0, 0, found.declared)} ELSE {}
      table  == IF found.table
                THEN {Reading(0, 0, 0, 1)} \cup
                     (IF Readable(0) /\ ~found.boot.recognized
                      THEN UNION {Implied(e) : e \in found.entries} ELSE {})
                ELSE {}
      boots  == {found.boots[u] : u \in {v \in DOMAIN found.boots : Readable(v)}}
  IN  SettleAll(format \cup table \cup boots, found.held)

Opened(found) ==
  LET degraded == Assess(found) = "degraded"
      bound    == IF degraded THEN found.held ELSE Whole
  IN  [kind |-> found.kind, held |-> found.held, bound |-> bound,
       writable |-> found.writable /\ ~degraded, named |-> found.named,
       sectored |-> found.sectored, stated |-> FALSE,
       geometry |-> IF found.kind = "block" THEN Establish(found, bound) ELSE Unstated,
       article |-> "artifact", layout |-> "none", files |-> found.files]

Load ==
  \E found \in Artifacts :
    IF found.kind = "block" /\ Assess(found) = "refused"
    THEN Refused("load", "evidence-conflict") /\ UNCHANGED <<medium, disk, seen, kept>>
    ELSE /\ medium' = Opened(found)
         /\ disk'   = [u \in 0 .. found.held - 1 |-> found.content[u + 1]]
         /\ seen'   = disk' /\ kept' = disk'
         /\ answer' = Said("load", "ok")

-----------------------------------------------------------------------------
(* What an author makes *)

\* The declaration is checked against itself: whole coordinates, or none.
KindHolds(kind) ==
  \/ kind.coords = NoReading
  \/ (\A part \in Parts : kind.coords[part] # 0) /\ Total(kind.coords) <= MostUnits

Zeroed(held) == [u \in 0 .. held - 1 |-> 0]

Author ==
  \E kind \in Kinds :
    IF ~KindHolds(kind)
    THEN Refused("new_media", "unsupported") /\ UNCHANGED <<medium, disk, seen, kept>>
    ELSE /\ medium' = [kind |-> "authored", held |-> Total(kind.coords), bound |-> Whole,
                       writable |-> TRUE, named |-> TRUE,
                       sectored |-> kind.coords # NoReading,
                       stated |-> kind.coords # NoReading,
                       geometry |-> IF kind.coords = NoReading THEN Unstated
                                    ELSE Stating(kind.coords),
                       article |-> kind.article, layout |-> "none",
                       files |-> [n \in {} |-> {}]]
         /\ seen' = Zeroed(Total(kind.coords)) /\ kept' = seen'
         /\ UNCHANGED disk
         /\ answer' = Said("new_media", "ok")

Make ==
  /\ medium = NoArticle
  /\ Load \/ Author
  /\ UNCHANGED <<slots, storage, buffer, failed, torn, writes, commits>>

\* Mutant of SlotAt: the first slot is everyone's.
FirstSlot(e) == 1

-----------------------------------------------------------------------------
(* The backing of an authored medium: sparse, one slot per committed extent. *)
(* A slot is recorded before its bytes are written.                          *)

ExtentOf(u) == u \div Extent
UnitsOf(e)  == {u \in 0 .. medium.held - 1 : ExtentOf(u) = e}

Slotted   == {slots[k] : k \in 1 .. Len(slots)}
SlotAt(e) == CHOOSE k \in 1 .. Len(slots) : slots[k] = e
Backed(e) == e \in Slotted => SlotAt(e) * Extent <= Len(storage)

Committed(u) ==
  IF medium.kind # "authored" THEN disk[u]
  ELSE IF ExtentOf(u) \notin Slotted THEN 0
  ELSE storage[(SlotAt(ExtentOf(u)) - 1) * Extent + (u % Extent) + 1]

View(u) == IF u \in DOMAIN buffer THEN buffer[u] ELSE Committed(u)

\* The units a read fetches from beneath the cache are there to be fetched.
Fetched(units) ==
  medium.kind = "authored" =>
    \A u \in units \ DOMAIN buffer : Backed(ExtentOf(u))

Cells(e) == [i \in 1 .. Extent |->
               IF (e * Extent + i - 1) \in DOMAIN buffer THEN buffer[e * Extent + i - 1] ELSE 0]

\* A slot written whole, or the first n cells of it before the host fails.
\* What lies before it in the file and was never written reads as zero.
Patched(stored, k, cells, n) ==
  [i \in 1 .. (IF n = 0 THEN Len(stored) ELSE Larger(Len(stored), (k - 1) * Extent + n)) |->
     IF i > (k - 1) * Extent /\ i <= (k - 1) * Extent + n THEN cells[i - (k - 1) * Extent]
     ELSE IF i <= Len(stored) THEN stored[i] ELSE 0]

-----------------------------------------------------------------------------
(* Spans *)

Span(at, n) == at .. at + n - 1

\* Why a span of the content is not read, checked in the code's order.
ReadRefusal(at, n) ==
  CASE medium.kind \in {"archive", "flux"}                -> "no-space"
    [] medium.kind = "authored" /\ medium.held = 0        -> "no-content"
    [] medium.bound # Whole /\ at + n > medium.bound      -> "unavailable"
    [] at + n > medium.held                               -> "past-end"
    [] ~Fetched(Span(at, n))                              -> "host"
    [] OTHER                                              -> "none"

WriteRefusal(at, n) ==
  CASE medium.kind \in {"archive", "flux"}                -> "no-space"
    [] medium.kind = "authored" /\ medium.held = 0        -> "no-content"
    [] ~medium.writable                                   -> "read-only"
    [] at + n > medium.held                               -> "past-end"
    [] ~Fetched(UNION {UnitsOf(ExtentOf(u)) : u \in Span(at, n)}) -> "host"
    [] OTHER                                              -> "none"

Answered(verb, at, file) ==
  answer' = [verb |-> verb, outcome |-> "ok", at |-> at,
             units |-> [i \in 1 .. Len(at) |-> View(at[i])], file |-> file]

Upto(at, n) == [i \in 1 .. n |-> at + i - 1]

\* A write brings the extents it touches into the cache whole, altered.
Buffer(units, value) ==
  LET touched == UNION {UnitsOf(ExtentOf(u)) : u \in units}
      Put(f)  == [u \in DOMAIN f |-> IF u \in units THEN value ELSE f[u]]
  IN  /\ buffer' = [u \in DOMAIN buffer \cup touched |->
                      IF u \in units THEN value ELSE View(u)]
      /\ seen' = Put(seen)
      /\ writes' = writes + 1
      /\ UNCHANGED <<medium, disk, slots, storage, failed, kept, torn, commits>>

Unmoved == UNCHANGED <<medium, disk, slots, storage, buffer, failed, seen, kept, torn,
                       writes, commits>>

ReadSpace ==
  \E at \in 0 .. medium.held, n \in 1 .. 2 :
    /\ Unmoved
    /\ IF ReadRefusal(at, n) # "none" THEN Refused("read_at", ReadRefusal(at, n))
       ELSE Answered("read_at", Upto(at, n), {})

\* The units of a span before the first extent that cannot be fetched.
Reached(at, n) ==
  {u \in Span(at, n) : \A v \in at .. u : Fetched(UnitsOf(ExtentOf(v)))}

\* A write the host fails in is buffered up to the extent it failed at.
WriteSpan(verb, at, n) ==
  LET why == WriteRefusal(at, n)
  IN  \/ /\ why \in {"none", "host"} /\ Reached(at, n) # {} /\ writes < MaxWrites
         /\ \E value \in Written : Buffer(Reached(at, n), value)
         /\ answer' = Said(verb, IF why = "none" THEN "ok" ELSE "host")
      \/ /\ why # "none" /\ (why = "host" => Reached(at, n) = {})
         /\ Refused(verb, why) /\ Unmoved

WriteSpace ==
  \E at \in 0 .. medium.held, n \in 1 .. 2 : WriteSpan("write_at", at, n)

-----------------------------------------------------------------------------
(* Sectors *)

\* Why a coordinate is not addressed, the largest true thing first.
SectorRefusal(c, h, s, n) ==
  LET g == medium.geometry.coords
  IN  CASE ~medium.sectored                          -> "not-sector-addressed"
        [] State(medium.geometry) # "determined"     -> State(medium.geometry)
        [] n # g.bytes                               -> "partial-sector"
        [] ~Covers(g, c, h, s)                       -> "outside-geometry"
        [] OffsetOf(g, c, h, s) + g.bytes > medium.held -> "outside-geometry"
        [] OTHER                                     -> "none"

Coordinates ==
  LET g == medium.geometry.coords
  IN  (0 .. g.cylinders) \X (0 .. g.heads) \X (0 .. g.sectors + 1)

ReadSector ==
  \E a \in Coordinates, n \in 1 .. 2 :
    LET g    == medium.geometry.coords
        why  == SectorRefusal(a[1], a[2], a[3], n)
        from == OffsetOf(g, a[1], a[2], a[3])
    IN  /\ Unmoved
        /\ CASE why # "none"                  -> Refused("read_sector", why)
             [] why = "none" /\ ReadRefusal(from, n) # "none" ->
                  Refused("read_sector", ReadRefusal(from, n))
             [] OTHER -> Answered("read_sector", Upto(from, n), {})

WriteSector ==
  \E a \in Coordinates, n \in 1 .. 2 :
    LET g    == medium.geometry.coords
        why  == SectorRefusal(a[1], a[2], a[3], n)
        from == OffsetOf(g, a[1], a[2], a[3])
    IN  IF why # "none" THEN Refused("write_sector", why) /\ Unmoved
        ELSE WriteSpan("write_sector", from, n)

-----------------------------------------------------------------------------
(* Files *)

Elements(chain) == {chain[i] : i \in 1 .. Len(chain)}
Lies(file)      == {file.record} \cup Elements(file.chain)

\* Mutant of Withheld: what is asked for decides, not where the file lies.
WithheldByPart(file, part) ==
  medium.bound # Whole /\ \E u \in Elements(part) : u >= medium.bound

\* A degraded medium answers a file whole or not at all: finding it, and all
\* it lies in, must be inside the bound.
Withheld(file, part) ==
  medium.bound # Whole /\ \E u \in file.path \cup Lies(file) : u >= medium.bound

FileRefusal(file, part) ==
  CASE medium.kind # "block"                                       -> "no-space"
    [] Withheld(file, part)                                        -> "unavailable"
    [] \E u \in file.path \cup {file.record} \cup Elements(part) :
         u >= medium.held                                          -> "past-end"
    [] OTHER                                                       -> "none"

ReadFile ==
  \E name \in DOMAIN medium.files :
    LET file == medium.files[name]
        why  == FileRefusal(file, file.chain)
    IN  /\ Unmoved
        /\ IF why # "none" THEN Refused("read_file", why)
           ELSE Answered("read_file", file.chain, Lies(file))

ReadFileAt ==
  \E name \in DOMAIN medium.files :
    LET file == medium.files[name]
    IN  \E from \in 1 .. Len(file.chain) :
          LET part == SubSeq(file.chain, from, from)
              why  == FileRefusal(file, part)
          IN  /\ Unmoved
              /\ IF why # "none" THEN Refused("read_file_at", why)
                 ELSE Answered("read_file_at", part, Lies(file))

WriteFileAt ==
  \E name \in DOMAIN medium.files, value \in Written :
    LET file == medium.files[name]
        why  == IF medium.kind = "block" /\ ~medium.writable THEN "read-only"
                ELSE FileRefusal(file, file.chain)
    IN  \E i \in 1 .. Len(file.chain) :
          IF why # "none" THEN Refused("write_file_at", why) /\ Unmoved
          ELSE /\ writes < MaxWrites /\ Buffer({file.chain[i]}, value)
               /\ answer' = Said("write_file_at", "ok")

-----------------------------------------------------------------------------
(* Commits.  Those of an artifact are CommitJournal's: done, undone, or      *)
(* neither.                                                                  *)

Done ==
  /\ kept' = seen
  /\ buffer' = Unaltered
  /\ answer' = Said("commit", "ok")

CommitArtifact ==
  /\ UNCHANGED <<medium, slots, storage, seen>>
  /\ LET why == CASE medium.kind # "block" -> "no-space"
                  [] failed                -> "failed"
                  [] ~medium.writable      -> "read-only"
                  [] DOMAIN buffer # {} /\ ~medium.named -> "unnamed"
                  [] OTHER                 -> "none"
         landed == [u \in DOMAIN disk |-> View(u)]
     IN  IF why # "none"
         THEN Refused("commit", why) /\ UNCHANGED <<disk, kept, buffer, failed, torn>>
         ELSE \/ /\ disk' = landed /\ Done /\ UNCHANGED <<failed, torn>>
              \/ /\ DOMAIN buffer # {}
                 /\ Refused("commit", "undone")
                 /\ UNCHANGED <<disk, kept, buffer, failed, torn>>
              \/ /\ DOMAIN buffer # {}
                 /\ disk' \in {disk, landed}
                 /\ failed' = TRUE
                 /\ torn' = torn \cup DOMAIN buffer
                 /\ Refused("commit", "failed")
                 /\ UNCHANGED <<kept, buffer>>

Altered == {ExtentOf(u) : u \in DOMAIN buffer}
InOrder == CHOOSE s \in [1 .. Cardinality(Altered) -> Altered] :
             \A i, j \in DOMAIN s : i < j => s[i] < s[j]

\* The altered extents in order, each read, given its slot, and written: all of
\* them, or up to one the host fails in the middle of.
WriteBack(order, whole, part) ==
  LET reached == SubSeq(order, 1, IF whole = Len(order) THEN whole ELSE whole + 1)
      fresh   == SelectSeq(reached, LAMBDA e : e \notin Slotted)
      named   == slots \o fresh
      At(e)   == CHOOSE k \in 1 .. Len(named) : named[k] = e
      after[i \in 0 .. Len(reached)] ==
        IF i = 0 THEN storage
        ELSE Patched(after[i - 1], At(reached[i]), Cells(reached[i]),
                     IF i <= whole THEN Extent ELSE part)
  IN  [slots |-> named, storage |-> after[Len(reached)], reached |-> Elements(reached)]

\* The first commit of all makes the storage file, or fails to.
NoStorageFile == slots = <<>> /\ UNCHANGED <<slots, storage, torn>>

CommitAuthored ==
  /\ UNCHANGED <<medium, disk, failed, seen>>
  /\ IF medium.held = 0
     THEN Refused("commit", "no-content") /\ UNCHANGED <<slots, storage, buffer, kept, torn>>
     ELSE LET order == InOrder
              lost  == {i \in 1 .. Len(order) : ~Backed(order[i])}
          IN  \/ /\ lost = {}
                 /\ LET w == WriteBack(order, Len(order), 0)
                    IN  slots' = w.slots /\ storage' = w.storage
                 /\ torn' = torn \ DOMAIN buffer
                 /\ Done
              \/ /\ order # <<>> /\ NoStorageFile
                 /\ Refused("commit", "host") /\ UNCHANGED <<buffer, kept>>
              \/ \E whole \in 0 .. Len(order) - 1, part \in 0 .. Extent - 1 :
                   /\ \A i \in lost : whole < i
                   /\ LET stuck == (whole + 1) \in lost
                          w == WriteBack(order, whole, IF stuck THEN 0 ELSE part)
                      IN  /\ stuck => part = 0
                          /\ slots' = w.slots /\ storage' = w.storage
                          /\ torn' = torn \cup UNION {UnitsOf(e) : e \in w.reached}
                          /\ Refused("commit", "host")
                          /\ UNCHANGED <<buffer, kept>>

Commit ==
  /\ commits < MaxCommits /\ commits' = commits + 1 /\ UNCHANGED writes
  /\ \/ medium.kind # "authored" /\ CommitArtifact
     \/ medium.kind = "authored" /\ CommitAuthored

\* What a commit failed in the middle of is the content from here on: whatever
\* of it landed stays, and what the host lost is not read again.
Left(u) ==
  IF medium.kind = "authored" /\ ExtentOf(u) \in Slotted
  THEN LET at == (SlotAt(ExtentOf(u)) - 1) * Extent + (u % Extent) + 1
       IN  IF at <= Len(storage) THEN storage[at] ELSE 0
  ELSE Committed(u)

Rollback ==
  /\ UNCHANGED <<medium, disk, slots, storage, failed, writes, commits>>
  /\ IF medium.kind \in {"archive", "flux"} \/ medium.held = 0
     THEN Refused("rollback", "no-space") /\ UNCHANGED <<buffer, seen, kept, torn>>
     ELSE /\ buffer' = Unaltered
          /\ kept' = [u \in DOMAIN kept |-> IF u \in torn THEN Left(u) ELSE kept[u]]
          /\ seen' = kept'
          /\ torn' = {}
          /\ answer' = Said("rollback", "ok")

-----------------------------------------------------------------------------
(* The arc: a layout recorded onto a blank article *)

\* The boot sector, and the head of each copy of the FAT.
LaidDown(layout) ==
  [u \in {0} \cup {layout.reserved + k * layout.fat : k \in 0 .. layout.copies - 1} |->
     IF u = 0 THEN 1 ELSE 2]

\* Mutant of ArcRefusal: what was recorded before is not asked.
ArcAgain(layout) ==
  CASE medium.kind \in {"archive", "flux"}          -> "no-space"
    [] medium.kind = "block"                        -> "testifies"
    [] medium.stated                                -> "coordinates"
    [] layout.article # medium.article              -> "article"
    [] OTHER                                        -> "none"

ArcRefusal(layout) ==
  CASE medium.kind \in {"archive", "flux"}          -> "no-space"
    [] medium.kind = "block"                        -> "testifies"
    [] medium.layout # "none"                       -> "recorded"
    [] medium.stated                                -> "coordinates"
    [] layout.article # medium.article              -> "article"
    [] OTHER                                        -> "none"

Recorded(layout) ==
  [medium EXCEPT !.held = Total(layout.coords), !.geometry = Stating(layout.coords),
                 !.layout = layout.name, !.sectored = TRUE]

\* The extents the layout alters, committed to a storage of their own.
LaidStorage(layout) ==
  LET laid    == LaidDown(layout)
      touched == {ExtentOf(u) : u \in DOMAIN laid}
      order   == CHOOSE s \in [1 .. Cardinality(touched) -> touched] :
                   \A i, j \in DOMAIN s : i < j => s[i] < s[j]
      CellAt(i) == LET u == order[((i - 1) \div Extent) + 1] * Extent + ((i - 1) % Extent)
                   IN  IF u \in DOMAIN laid THEN laid[u] ELSE 0
  IN  [slots |-> order, storage |-> [i \in 1 .. Len(order) * Extent |-> CellAt(i)]]

\* Mutant of Lay: the medium is a recording before its bytes are there.
LayAtOnce(layout) ==
  /\ medium' = Recorded(layout)
  /\ \/ /\ slots' = LaidStorage(layout).slots /\ storage' = LaidStorage(layout).storage
        /\ answer' = Said("record_as", "ok")
     \/ Refused("record_as", "host") /\ UNCHANGED <<slots, storage>>
  /\ kept' = [u \in 0 .. Total(layout.coords) - 1 |->
                IF u \in DOMAIN LaidDown(layout) THEN LaidDown(layout)[u] ELSE 0]
  /\ seen' = kept'

\* One act: laid down and committed to a storage the medium takes only whole.
Lay(layout) ==
  \/ /\ medium' = Recorded(layout)
     /\ slots' = LaidStorage(layout).slots /\ storage' = LaidStorage(layout).storage
     /\ kept' = [u \in 0 .. Total(layout.coords) - 1 |->
                   IF u \in DOMAIN LaidDown(layout) THEN LaidDown(layout)[u] ELSE 0]
     /\ seen' = kept'
     /\ answer' = Said("record_as", "ok")
  \/ /\ Refused("record_as", "host")
     /\ UNCHANGED <<medium, slots, storage, kept, seen>>

RecordAs ==
  /\ UNCHANGED <<disk, buffer, failed, torn, writes, commits>>
  /\ \E layout \in Layouts :
       IF ArcRefusal(layout) # "none"
       THEN /\ Refused("record_as", ArcRefusal(layout))
            /\ UNCHANGED <<medium, slots, storage, kept, seen>>
       ELSE Lay(layout)

-----------------------------------------------------------------------------
(* The raw rendition: every sector the coordinates address, in their order,  *)
(* off the committed content.                                                *)

\* Mutant of RawOrder: head by head.
HeadMajor(g) ==
  [n \in 1 .. g.cylinders * g.heads * g.sectors |->
     LET k == n - 1
     IN  OffsetOf(g, (k \div g.sectors) % g.cylinders,
                  k \div (g.sectors * g.cylinders), (k % g.sectors) + 1)]

RawOrder(g) ==
  [n \in 1 .. g.cylinders * g.heads * g.sectors |->
     LET k == n - 1
     IN  OffsetOf(g, k \div (g.sectors * g.heads), (k \div g.sectors) % g.heads,
                  (k % g.sectors) + 1)]

\* Mutant of Rendered: what the session sees is written.
RenderedView(at) == [i \in 1 .. Len(at) |-> View(at[i])]
Rendered(at)     == [i \in 1 .. Len(at) |-> Committed(at[i])]

WriteRaw ==
  /\ commits < MaxCommits /\ commits' = commits + 1
  /\ UNCHANGED <<medium, writes, contentVars>>
  /\ LET g == medium.geometry.coords
         order == RawOrder(g)
         at == [i \in 1 .. Len(order) * g.bytes |->
                  order[((i - 1) \div g.bytes) + 1] + ((i - 1) % g.bytes)]
         why == CASE medium.kind \in {"archive", "flux"} \/ medium.held = 0 -> "no-space"
                  [] State(medium.geometry) # "determined" -> State(medium.geometry)
                  [] Total(g) > medium.held                -> "coordinates"
                  [] \E i \in 1 .. Len(at) : medium.kind = "authored" /\ ~Backed(ExtentOf(at[i])) -> "host"
                  [] OTHER -> "none"
     IN  IF why # "none" THEN Refused("write_raw", why)
         ELSE answer' = [verb |-> "write_raw", outcome |-> "ok", at |-> at,
                         units |-> Rendered(at), file |-> {}]

-----------------------------------------------------------------------------

MediumInit ==
  /\ medium = NoArticle /\ disk = Unaltered /\ slots = <<>> /\ storage = <<>>
  /\ buffer = Unaltered /\ failed = FALSE /\ answer = Said("none", "ok")
  /\ seen = Unaltered /\ kept = Unaltered /\ torn = {} /\ writes = 0 /\ commits = 0

MediumNext ==
  \/ Make
  \/ /\ medium # NoArticle
     /\ \/ ReadSpace \/ WriteSpace \/ ReadSector \/ WriteSector
        \/ ReadFile \/ ReadFileAt \/ WriteFileAt
        \/ Commit \/ Rollback \/ RecordAs \/ WriteRaw

-----------------------------------------------------------------------------
(* Properties *)

\* Whatever failed before, the session sees the bytes it wrote last, and
\* beneath it lies what was committed last: an authored medium's slots, reused
\* and cut short by failing commits, are of the extents they were given to, and
\* what nobody wrote reads as zero (disk/state.rs Composed, authored.rs
\* BlankBacking).
ContentIsOwed ==
  \A u \in DOMAIN seen :
    /\ u \in DOMAIN buffer \/ (medium.kind = "authored" => Backed(ExtentOf(u)))
       => View(u) = seen[u]
    /\ u \notin torn /\ (medium.kind = "authored" => Backed(ExtentOf(u)))
       => Committed(u) = kept[u]

\* The coordinates a medium addresses in are stated by some source, and no
\* source states others; each whole sector of the content has exactly one
\* (geometry.rs settle, extent_reading and offset_of).
CoordinatesFit ==
  medium # NoArticle /\ State(medium.geometry) = "determined" =>
    LET g == medium.geometry.coords
    IN  /\ \A r \in medium.geometry.readings, part \in Parts : r[part] \in {0, g[part]}
        /\ \A k \in 0 .. (medium.held \div g.bytes) - 1 :
             Cardinality({a \in Coordinates : /\ Covers(g, a[1], a[2], a[3])
                                             /\ OffsetOf(g, a[1], a[2], a[3]) = k * g.bytes}) = 1

\* A degraded medium buffers nothing, answers no byte past what its source
\* holds, and of a file that reaches past it answers no part (disk/files.rs
\* require_whole).
DegradedIsHonest ==
  [][medium' # NoArticle => (medium'.bound # Whole =>
       /\ buffer' = Unaltered
       /\ \A u \in Elements(answer'.at) \cup answer'.file : u < medium'.bound)]_mediumVars

\* A raw rendition is of the committed content from its first byte on, whatever
\* the session buffers (rendition.rs write_raw_artifact).
RenditionIsCommitted ==
  [][answer'.verb = "write_raw" =>
       \A i \in 1 .. Len(answer'.at) :
         /\ answer'.at[i] = i - 1
         /\ i - 1 \notin torn => answer'.units[i] = kept[i - 1]]_mediumVars

\* The arc is one act onto a medium with no content, and one refused or failed
\* leaves the medium what it was (authored.rs record_as).
ArcIsOneAct ==
  [][medium # NoArticle /\ answer'.verb = "record_as" =>
       IF answer'.outcome = "ok" THEN medium.held = 0
       ELSE UNCHANGED <<medium, contentVars>>]_mediumVars

MediumSpec == MediumInit /\ [][MediumNext]_mediumVars
=============================================================================
