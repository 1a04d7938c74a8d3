----------------------------- MODULE FatVolume -----------------------------
(***************************************************************************)
(* A FAT12/FAT16 volume (crates/remanence/src/filesystem/fat.rs): the      *)
(* allocation table and its copies, directories and their records, and the *)
(* verbs that read and write files by path.                                *)
(*                                                                         *)
(* A volume is a record: fats, the copies of the table, and cells, the     *)
(* root directory (area 0) and the clusters.  A cell is as much as one     *)
(* directory record takes: read as a record it is free, deleted, a label,  *)
(* a directory or a file; read as a file's byte it is its value.  A        *)
(* cluster has ClusterCells of them.                                       *)
(***************************************************************************)
EXTENDS Integers, Sequences, FiniteSets, TLC

CONSTANTS
  Volumes,       \* the volumes the verbs may be called on
  Copies,        \* FAT copies (fat_count)
  ClusterCount,  \* clusters of the data area
  ClusterCells,  \* records, or bytes, a cluster holds (at least 3)
  RootCells,     \* records the root directory holds
  Paths,         \* the paths calls name
  Unstorable,    \* names dos_name::store refuses
  Payloads,      \* byte sequences written
  Sizes,         \* sizes and offsets asked for
  Labels,        \* labels set, as one-name paths
  MaxCalls       \* bound: calls in a behaviour

VARIABLES
  vol,    \* the volume as the session's reads see it
  call,   \* the last call, and whether it was accepted
  calls

vars == <<vol, call, calls>>

Clusters == 2 .. ClusterCount + 1
Free     == 0
End      == -1     \* any value is_end accepts
Within   == 0 .. ClusterCells - 1
NoLoc    == <<-1, -1>>
Locs     == ({0} \X (0 .. RootCells - 1)) \cup (Clusters \X Within)

Cell(kind, name, first, size, byte) ==
  [kind |-> kind, name |-> name, first |-> first, size |-> size, byte |-> byte]

Zero          == Cell("free", "", 0, 0, 0)      \* a zeroed record, or byte
Byte(b)       == IF b = 0 THEN Zero ELSE Cell("byte", "", 0, 0, b)
FileAt(n, c, s) == Cell("file", n, c, s, 9)
DirAt(n, c)   == Cell("directory", n, c, 0, 9)
LabelOf(l)    == Cell("label", l[1], 0, 0, 9)
Deleted       == Cell("deleted", "", 0, 0, 9)

-----------------------------------------------------------------------------
(* The table *)

Entry(v, c) == v.fats[1][c]

\* set_fat_entry: every copy is kept in step.
SetEntry(v, c, value) ==
  [v EXCEPT !.fats = [k \in Copies |-> [v.fats[k] EXCEPT ![c] = value]]]

\* Mutant of SetEntries: the other copies of the table are left behind.
SetEntriesInOneCopy(v, f) ==
  [v EXCEPT !.fats[1] = [c \in Clusters |-> IF c \in DOMAIN f THEN f[c] ELSE v.fats[1][c]]]

SetEntries(v, f) ==
  [v EXCEPT !.fats = [k \in Copies |->
     [c \in Clusters |-> IF c \in DOMAIN f THEN f[c] ELSE v.fats[k][c]]]]

\* chain: follows the table until an end mark.  A value outside the data area,
\* or more clusters than there are, is a corrupt chain.
Onward(v, c) == IF c \in Clusters THEN Entry(v, c) ELSE c
FollowTable(v, first) ==
  LET at[n \in 0 .. ClusterCount] == IF n = 0 THEN first ELSE Onward(v, at[n - 1])
  IN  [n \in 0 .. ClusterCount |-> at[n]]

ChainOK(v, first) == FollowTable(v, first)[ClusterCount] = End
\* The clusters before the end mark.
Until(at) ==
  LET n == Cardinality({i \in DOMAIN at : at[i] \in Clusters})
  IN  [i \in 1 .. n |-> at[i - 1]]
Chain(v, first) == Until(FollowTable(v, first))

\* The chain of a file's record, none below cluster 2.
FileChain(v, r)   == IF r.first >= 2 THEN Chain(v, r.first) ELSE <<>>
FileChainOK(v, r) == r.first < 2 \/ ChainOK(v, r.first)

FreeClusters(v) == {c \in Clusters : Entry(v, c) = Free}

\* claim_clusters: the first free ones, in order.
InOrder(free, n) ==
  [i \in 1 .. n |->
     CHOOSE c \in free : Cardinality({d \in free : d < c}) = i - 1]
ClaimFree(v, n)    == InOrder(FreeClusters(v), n)
CanClaim(v, n) == Cardinality(FreeClusters(v)) >= n

Seqs(s) == {s[i] : i \in DOMAIN s}

-----------------------------------------------------------------------------
(* Directories.  d is a directory's first cluster, 0 for the root. *)

\* read_records: the places a directory's records stand, in order.
ClusterSlots(c) ==
  [i \in 1 .. Len(c) * ClusterCells |->
     <<c[(i - 1) \div ClusterCells + 1], (i - 1) % ClusterCells>>]
DirSlots(v, d) ==
  IF d = 0 THEN [i \in 1 .. RootCells |-> <<0, i - 1>>]
  ELSE ClusterSlots(Chain(v, d))

DirReadable(v, d) == d = 0 \/ ChainOK(v, d)
At(v, loc)     == v.cells[loc]

\* entries_of: up to the first free record, deleted and label records and the
\* dot names passed over.
Listed(v, s) ==
  {j \in DOMAIN s :
     /\ At(v, s[j]).kind \in {"file", "directory"}
     /\ At(v, s[j]).name \notin {".", ".."}
     /\ \A k \in 1 .. j : At(v, s[k]).kind # "free"}

FirstOf(s, is) == IF is = {} THEN NoLoc ELSE s[CHOOSE i \in is : \A j \in is : i <= j]

\* The first entry of the name, as find gives it.
FindAmong(v, s, name)  == FirstOf(s, {i \in Listed(v, s) : At(v, s[i]).name = name})
FindIn(v, d, name)     == FindAmong(v, DirSlots(v, d), name)
FreeRecord(v, s) ==
  FirstOf(s, {i \in DOMAIN s : At(v, s[i]).kind \in {"free", "deleted"}})

\* The directory the first n segments lead to, or -1.
Into(v, l) ==
  IF l = NoLoc \/ At(v, l).kind # "directory" THEN -1 ELSE At(v, l).first
Below(v, d, name) ==
  IF d = -1 \/ ~DirReadable(v, d) THEN -1 ELSE Into(v, FindIn(v, d, name))
Directory(v, p, n) ==
  LET w[i \in 0 .. n] == IF i = 0 THEN 0 ELSE Below(v, w[i - 1], p[i])
  IN  w[n]

Leaf(p) == p[Len(p)]

\* locate: where a path stands - the directory it is in, the place of its
\* record, and the place a write would put one.
Nowhere == [can |-> FALSE, parent |-> -1, loc |-> NoLoc, slot |-> NoLoc, record |-> Zero]
Placed(v, d, l, free) ==
  [can |-> TRUE, parent |-> d, loc |-> l,
   slot   |-> IF l = NoLoc THEN free ELSE l,
   record |-> IF l = NoLoc THEN Zero ELSE At(v, l)]
LookAmong(v, d, s, name) == Placed(v, d, FindAmong(v, s, name), FreeRecord(v, s))
LookIn(v, d, name) ==
  IF d = -1 \/ ~DirReadable(v, d) THEN Nowhere ELSE LookAmong(v, d, DirSlots(v, d), name)
Locate(v, p) == LookIn(v, Directory(v, p, Len(p) - 1), Leaf(p))

-----------------------------------------------------------------------------
(* Reading a file *)

CellsFor(size) == (size + ClusterCells - 1) \div ClusterCells

\* Where byte n of the chain's file stands.
CellOf(chain, n) == <<chain[n \div ClusterCells + 1], n % ClusterCells>>

\* read_file: the chain must hold the recorded size.
Legible(v, r, chain) == FileChainOK(v, r) /\ Len(chain) >= CellsFor(r.size)

ReadFile(v, chain, at, n) ==
  [i \in 1 .. n |-> v.cells[CellOf(chain, at + i - 1)].byte]

\* read_file_at and write_file_at: the span lies within the recorded size, and
\* the chain reaches its end.
SpanOK(v, k, at, n) ==
  /\ k.loc # NoLoc /\ k.record.kind = "file" /\ at + n <= k.record.size
  /\ n > 0 => /\ ChainOK(v, k.record.first)
              /\ Len(Chain(v, k.record.first)) >= CellsFor(at + n)

-----------------------------------------------------------------------------
(* Writing.  Every verb validates first and then mutates step by step; a   *)
(* step that still fails leaves what the earlier ones did.  The work so    *)
(* far is the volume, whether every step succeeded, the record slot taken  *)
(* and the clusters claimed.                                               *)

Work(v, slot) == [v |-> v, ok |-> TRUE, slot |-> slot, got |-> <<>>]
Refusal(v)    == [Work(v, NoLoc) EXCEPT !.ok = FALSE]
Then(w, Step(_)) == IF w.ok THEN Step(w) ELSE w

ClaimClusters(w, n) ==
  IF CanClaim(w.v, n) THEN [w EXCEPT !.got = ClaimFree(w.v, n)]
  ELSE [w EXCEPT !.ok = FALSE]

ZeroCluster(v, c) ==
  [v EXCEPT !.cells = [l \in DOMAIN v.cells |->
                         IF l[1] = c THEN Zero ELSE v.cells[l]]]

\* The chain's entries, each naming the next and the last an end mark.
LinkChain(v, chain) ==
  LET place(c) == CHOOSE i \in DOMAIN chain : chain[i] = c
  IN  SetEntries(v, [c \in Seqs(chain) |->
        IF place(c) = Len(chain) THEN End ELSE chain[place(c) + 1]])

Release(v, chain) == SetEntries(v, [c \in Seqs(chain) |-> Free])

\* grow_directory: one more cluster, linked and then zeroed; its first record
\* is the slot.
GrowDirectory(w, d) ==
  Then(ClaimClusters(w, 1), LAMBDA x :
    LET new   == x.got[1]
        chain == Chain(x.v, d)
        grown == SetEntries(x.v, [c \in {chain[Len(chain)], new} |->
                                    IF c = new THEN End ELSE new])
    IN  [x EXCEPT !.v = ZeroCluster(grown, new), !.slot = <<new, 0>>])

TakeSlot(w, d) == IF w.slot = NoLoc THEN GrowDirectory(w, d) ELSE w

WriteRecord(w, cell) == [w EXCEPT !.v.cells[w.slot] = cell]

\* Mutant of Growth: the directory's own growth is not counted.
GrowthUncounted(slot) == 0

Growth(slot)   == IF slot = NoLoc THEN 1 ELSE 0

\* What write_file and resize_file validate alike, of the place k.
MayPlace(v, name, k) ==
  /\ k.can
  /\ name \notin Unstorable
  /\ k.loc # NoLoc => k.record.kind = "file" /\ FileChainOK(v, k.record)
  /\ k.slot = NoLoc => k.parent # 0      \* the root cannot grow

\* Whole clusters are written, the last one padded with zeros.
Fill(v, chain, b) ==
  LET n(l) == CHOOSE i \in 0 .. Len(chain) * ClusterCells - 1 : CellOf(chain, i) = l
  IN  [v EXCEPT !.cells = [l \in DOMAIN v.cells |->
        IF l[1] \notin Seqs(chain) THEN v.cells[l]
        ELSE IF n(l) < Len(b) THEN Byte(b[n(l) + 1]) ELSE Zero]]

FirstCluster(chain) == IF chain = <<>> THEN 0 ELSE chain[1]

\* write_file: the clusters released count toward those needed.
WriteAs(v, name, b, k, old, needed) ==
  IF \/ ~MayPlace(v, name, k)
     \/ Cardinality(FreeClusters(v)) + Len(old) < needed + Growth(k.slot)
  THEN Refusal(v)
  ELSE Then(TakeSlot(Work(Release(v, old), k.slot), k.parent), LAMBDA w :
       Then(ClaimClusters(w, needed), LAMBDA x :
         WriteRecord([x EXCEPT !.v = Fill(LinkChain(x.v, x.got), x.got, b)],
                     FileAt(name, FirstCluster(x.got), Len(b)))))
WriteInto(v, name, b, k) ==
  WriteAs(v, name, b, k, FileChain(v, k.record), CellsFor(Len(b)))
WriteFile(v, p, b) == WriteInto(v, Leaf(p), b, Locate(v, p))

\* resize_file: the kept clusters stay, new ones are zeroed, and the last kept
\* one is scrubbed past the old size - when clusters are claimed.
Scrub(v, c, from) ==
  [v EXCEPT !.cells = [l \in DOMAIN v.cells |->
     IF l[1] = c /\ l[2] >= from THEN Zero ELSE v.cells[l]]]

\* Mutant of Extend: the tail of the last kept cluster is left as it was.
ExtendUnscrubbed(v, kept, got, oldSize) == Fill(v, got, <<>>)

Extend(v, kept, got, oldSize) ==
  LET tail   == oldSize % ClusterCells
      zeroed == Fill(v, got, <<>>)
  IN  IF got # <<>> /\ tail # 0 /\ kept # <<>>
      THEN Scrub(zeroed, kept[Len(kept)], tail) ELSE zeroed

ResizeAs(v, name, size, k, old, needed, n) ==
  LET kept == SubSeq(old, 1, n)
  IN  IF \/ ~MayPlace(v, name, k)
         \/ needed > n /\ ~CanClaim(v, needed - n + Growth(k.slot))
      THEN Refusal(v)
      ELSE Then(TakeSlot(Work(Release(v, SubSeq(old, n + 1, Len(old))), k.slot),
                         k.parent), LAMBDA w :
           Then(ClaimClusters(w, needed - n), LAMBDA x :
             WriteRecord([x EXCEPT !.v = LinkChain(Extend(x.v, kept, x.got, k.record.size),
                                              kept \o x.got)],
                         FileAt(name, FirstCluster(kept \o x.got), size))))
ResizeOver(v, name, size, k, old) ==
  ResizeAs(v, name, size, k, old, CellsFor(size),
           IF Len(old) < CellsFor(size) THEN Len(old) ELSE CellsFor(size))
ResizeInto(v, name, size, k) == ResizeOver(v, name, size, k, FileChain(v, k.record))
ResizeFile(v, p, size)       == ResizeInto(v, Leaf(p), size, Locate(v, p))

\* write_file_at: in place, within the recorded size.
Overwritten(v, at, b, c) ==
  LET place(cell) == CHOOSE i \in 0 .. Len(b) - 1 : CellOf(c, at + i) = cell
      hit         == {CellOf(c, at + i) : i \in 0 .. Len(b) - 1}
  IN  [v EXCEPT !.cells = [x \in DOMAIN v.cells |->
                  IF x \in hit THEN Byte(b[place(x) + 1]) ELSE v.cells[x]]]
WriteOver(v, at, b, k) ==
  IF ~k.can \/ ~SpanOK(v, k, at, Len(b)) THEN Refusal(v)
  ELSE Work(Overwritten(v, at, b, FileChain(v, k.record)), NoLoc)
WriteFileAt(v, p, at, b) == WriteOver(v, at, b, Locate(v, p))

\* create_directory: a zeroed cluster with its two dot records, recorded at the
\* slot; the slot of a child is its third record.
CreateDirectory(w, d, name) ==
  Then(ClaimClusters(w, 1), LAMBDA x :
    LET c    == x.got[1]
        made == ZeroCluster(SetEntry(x.v, c, End), c)
        dots == [made EXCEPT !.cells[<<c, 0>>] = DirAt(".", c),
                             !.cells[<<c, 1>>] = DirAt("..", d)]
    IN  [WriteRecord([x EXCEPT !.v = dots], DirAt(name, c)) EXCEPT !.slot = <<c, 2>>])

\* The missing directories of a path, one inside another: below d, at the slot,
\* the names after the first have.
CreateInside(w, d, name) ==
  Then(w, LAMBDA x : CreateDirectory(x, IF x.got = <<>> THEN d ELSE x.got[1], name))
CreateAll(w, d, names) ==
  LET made[i \in 0 .. Len(names)] ==
        IF i = 0 THEN [TakeSlot(w, d) EXCEPT !.got = <<>>]
        ELSE CreateInside(made[i - 1], d, names[i])
  IN  made[Len(names)]

MakeBelow(v, names, k) ==
  IF \/ ~k.can
     \/ k.loc # NoLoc                                    \* a file is in the way
     \/ Seqs(names) \cap Unstorable # {}
     \/ k.slot = NoLoc /\ k.parent = 0
     \/ ~CanClaim(v, Len(names) + Growth(k.slot))
  THEN Refusal(v)
  ELSE CreateAll(Work(v, k.slot), k.parent, names)

\* ds: the directory each number of segments leads to.
MakeAlong(v, p, ds) ==
  LET have == CHOOSE n \in DOMAIN ds :
                ds[n] # -1 /\ \A m \in n + 1 .. Len(p) : ds[m] = -1
  IN  IF have = Len(p) THEN Work(v, NoLoc)
      ELSE MakeBelow(v, SubSeq(p, have + 1, Len(p)),
                     LookIn(v, ds[have], p[have + 1]))
MakeDirectory(v, p) == MakeAlong(v, p, [n \in 0 .. Len(p) |-> Directory(v, p, n)])

\* volume_id_entry: the first label record before a free one.
RootSlots == [i \in 1 .. RootCells |-> <<0, i - 1>>]
LabelRecord(v) ==
  FirstOf(RootSlots, {i \in 1 .. RootCells :
    /\ At(v, <<0, i - 1>>).kind = "label"
    /\ \A k \in 1 .. i : At(v, <<0, k - 1>>).kind # "free"})

\* label: the root's entry answers where it exists, the boot record's field
\* otherwise; a blank one, or the format's own spelling of unlabeled, is none.
Named(stored)     == IF stored \in {"", "NO NAME"} THEN <<>> ELSE <<stored>>
LabelAt(v, place) == Named(IF place # NoLoc THEN At(v, place).name ELSE v.boot)
Label(v)          == LabelAt(v, LabelRecord(v))

Relabel(v, l, slot) ==
  IF slot = NoLoc \/ Named(l[1]) = <<>> THEN Refusal(v)
  ELSE WriteRecord(Work(v, slot), LabelOf(l))
SetLabel(v, l) ==
  Relabel(v, l, IF LabelRecord(v) # NoLoc THEN LabelRecord(v)
                ELSE FreeRecord(v, RootSlots))

RemoveLabel(v) ==
  IF LabelRecord(v) = NoLoc THEN Work(v, NoLoc)
  ELSE WriteRecord(Work(v, LabelRecord(v)), Deleted)

-----------------------------------------------------------------------------

Asked(verb, p, at, b, ok) ==
  [verb |-> verb, path |-> p, at |-> at, bytes |-> b, accepted |-> ok]

FatInit == vol \in Volumes /\ call = Asked("none", <<>>, 0, <<>>, FALSE) /\ calls = 0

Called(verb, p, at, b, w) ==
  /\ calls < MaxCalls /\ calls' = calls + 1
  /\ vol' = w.v
  /\ call' = Asked(verb, p, at, b, w.ok)

CallWrite == \E p \in Paths, b \in Payloads :
  Called("write", p, 0, b, WriteFile(vol, p, b))
CallWriteAt == \E p \in Paths, at \in Sizes, b \in Payloads \ {<<>>} :
  Called("writeAt", p, at, b, WriteFileAt(vol, p, at, b))
CallResize == \E p \in Paths, n \in Sizes :
  Called("resize", p, n, <<>>, ResizeFile(vol, p, n))
CallMakeDirectory == \E p \in Paths :
  Called("mkdir", p, 0, <<>>, MakeDirectory(vol, p))
CallSetLabel == \E l \in Labels :
  Called("label", l, 0, <<>>, SetLabel(vol, l))
CallRemoveLabel == Called("unlabel", <<>>, 0, <<>>, RemoveLabel(vol))

\* A streamed read answers with the bytes it found.
ReadAt(p, at, n, k) ==
  IF SpanOK(vol, k, at, n)
  THEN Called("readAt", p, at, ReadFile(vol, FileChain(vol, k.record), at, n),
              Work(vol, NoLoc))
  ELSE Called("readAt", p, at, <<>>, Refusal(vol))
CallReadAt == \E p \in Paths, at \in Sizes, n \in Sizes :
  ReadAt(p, at, n, Locate(vol, p))

FatNext ==
  \/ CallWrite \/ CallWriteAt \/ CallResize \/ CallMakeDirectory
  \/ CallSetLabel \/ CallRemoveLabel \/ CallReadAt

FatSpec == FatInit /\ [][FatNext]_vars

-----------------------------------------------------------------------------
(* Properties *)

\* What the namespace shows of a path: nothing, a directory, a file, or a file
\* whose chain cannot be read.
ShownAs(v, k, chain) ==
  IF k.loc = NoLoc THEN [kind |-> "none", bytes |-> <<>>]
  ELSE IF k.record.kind = "directory" THEN [kind |-> "directory", bytes |-> <<>>]
  ELSE IF Legible(v, k.record, chain)
       THEN [kind |-> "file", bytes |-> ReadFile(v, chain, 0, k.record.size)]
  ELSE [kind |-> "broken", bytes |-> <<>>]
ShownAt(v, k) == ShownAs(v, k, FileChain(v, k.record))
Shown(v, p)   == ShownAt(v, Locate(v, p))

\* The tables and the directories agree after any history of calls: a readable
\* file's chain holds exactly the clusters its size needs, no cluster belongs
\* to two names, and every cluster in use is reached from a name - none is
\* lost by a shrink, an overwrite or a call refused half way
\* (write_file, resize_file, make_directory, grow_directory).
Exact(places, chains) ==
  /\ \A p \in Paths :
       places[p].record.kind = "file" /\ Legible(vol, places[p].record, chains[p]) =>
         Len(chains[p]) = CellsFor(places[p].record.size)
  /\ \A p, q \in Paths : p # q => Seqs(chains[p]) \cap Seqs(chains[q]) = {}
  /\ Clusters \ FreeClusters(vol) = UNION {Seqs(chains[p]) : p \in Paths}
ExactAt(places) == Exact(places, [p \in Paths |-> FileChain(vol, places[p].record)])
ChainsExact     == ExactAt([p \in Paths |-> Locate(vol, p)])

\* Every copy of the table says the same (set_fat_entry: "Every FAT copy is
\* kept in step").
CopiesAgree == \A j, k \in Copies : vol.fats[j] = vol.fats[k]

\* Both: what the tables say of the clusters is one account, and it is right.
VolumeIsWhole == ChainsExact /\ CopiesAgree

\* A refused call has changed no byte of the volume: everything a later step
\* of a verb could refuse was validated before its first write (P6).
RefusalChangesNothing == [][call'.accepted \/ vol' = vol]_vars

\* What the namespace shows, for the refinement of NamedFiles.
Tree(v) == [p \in Paths |-> Shown(v, p)]

-----------------------------------------------------------------------------
(* Small volumes to call the verbs on: a fresh one, one whose directory is  *)
(* one record from full, and one on which a file's chain does not end.      *)
(* What the namespace shows of the volume is kept beside it as shown, so    *)
(* that each state's is worked out once.                                    *)

VARIABLE shown

ShownInit == FatInit /\ shown = Tree(vol)
ShownNext == FatNext /\ shown' = Tree(vol')
ShownSpec == ShownInit /\ [][ShownNext]_<<vars, shown>>

\* The last call and the count of calls tell no two volumes apart.
VolumeView == vol

Table(f) == [k \in Copies |-> [c \in Clusters |-> IF c \in DOMAIN f THEN f[c] ELSE Free]]
Cells(f) == [l \in Locs |-> IF l \in DOMAIN f THEN f[l] ELSE Zero]

Volume(table, cells, boot) ==
  [fats |-> Table(table), cells |-> Cells(cells), boot |-> boot]

Fresh == Volume(<<>>, <<>>, "NO NAME")

\* D holds one file, so that its next child but one needs a second cluster.
Populated ==
  Volume(2 :> End @@ 3 :> 4 @@ 4 :> End,
         (<<0, 0>> :> DirAt("D", 2)) @@ (<<0, 1>> :> Deleted)
           @@ (<<2, 0>> :> DirAt(".", 2)) @@ (<<2, 1>> :> DirAt("..", 0))
           @@ (<<2, 2>> :> FileAt("X", 3, 4)) @@ (<<3, 1>> :> Byte(1)),
         "OLD")

\* B's chain runs in a circle.
Cyclic ==
  Volume(2 :> 3 @@ 3 :> 2,
         (<<0, 0>> :> LabelOf(<<"WORK">>)) @@ (<<0, 1>> :> FileAt("B", 2, 4)), "OLD")

SmallVolumes == {Fresh, Populated, Cyclic}

TwoPaths    == {<<"A">>, <<"D", "X">>}
NoCharacter == {"+"}
SomeBytes   == {<<>>, <<2, 1, 2, 1>>}
OneLabel    == {<<"DOS">>}

-----------------------------------------------------------------------------

\* The volume is a tree of named files: each call does to the one name it is
\* about what the verb says, reads answer what was written, and no other file,
\* directory or label changes.
Files == INSTANCE NamedFiles WITH
  tree <- shown, label <- Label(vol), formatted <- Named(vol.boot),
  Slack <- ClusterCells
FilesSpec == Files!Spec

\* resize_file's comment (fat.rs:1192): "bytes within the kept prefix are
\* preserved in place, a grown region reads as zeros".
GrownReadsZero ==
  [][call'.verb = "resize" /\ call'.accepted =>
       LET old == shown[call'.path].bytes
           new == shown'[call'.path].bytes
       IN  \A n \in DOMAIN new : new[n] = IF n <= Len(old) THEN old[n] ELSE 0]_shown

-----------------------------------------------------------------------------
(* The inductive invariant behind RefusalChangesNothing *)

\* The copies of every volume's table start in step.
InStep == \A v \in Volumes : \A j, k \in Copies : v.fats[j] = v.fats[k]

\* The table and the records say what they please: a chain may leave the data
\* area, circle or meet another.  Copies that start in step are in step.
VolumeOK(v) ==
  /\ v = [fats |-> v.fats, cells |-> v.cells, boot |-> v.boot]
  /\ v.fats \in [Copies -> [Clusters -> Int]]
  /\ DOMAIN v.cells = Locs
  /\ \A l \in Locs : v.cells[l].first \in Int
  /\ InStep => \A j, k \in Copies : v.fats[j] = v.fats[k]

FatIInv == VolumeOK(vol)

ASSUME FatAssumption ==
  /\ 1 \in Copies
  /\ ClusterCount \in Nat /\ ClusterCells \in Nat \ {0} /\ RootCells \in Nat
  /\ \A p \in Paths : p \in Seq(STRING)
  /\ \A b \in Payloads : b \in Seq(Nat)
  /\ Sizes \subseteq Nat
  /\ \A v \in Volumes : VolumeOK(v)
=============================================================================
