------------------------------ MODULE MCImages ------------------------------
(***************************************************************************)
(* Composing a chain of block images, writing through either driver, and   *)
(* the flux layers, on small instances: topic picks which of them a        *)
(* behaviour is about, the others staying where they are.                  *)
(***************************************************************************)
EXTENDS Qcow2, ChainOpen

CONSTANTS Vdis   \* the VDI images the driver may be opened over

VARIABLES
  topic,
  disk, keptDisk, diskBatch, diskWrites,   \* img, keptImg, batch, writes of Vdi
  part, x1, x2, x3, x4, x5, x6, x7, x8, x9, x10, x11, x12, x13, x14

-----------------------------------------------------------------------------
(* The drivers behind OpenedImage                                          *)
(* (crates/remanence/src/image/adapters.rs): one opened image, of one      *)
(* format for its life; a commit stages its writes through the format's    *)
(* driver, over the host file and the driver's own cache, and puts both    *)
(* back when it does not land.                                             *)

V == INSTANCE Vdi WITH
  Images <- Vdis, BlockUnits <- ClusterUnits,
  img <- disk, keptImg <- keptDisk, batch <- diskBatch, writes <- diskWrites

vdiVars == <<disk, keptDisk, diskBatch, diskWrites>>

-----------------------------------------------------------------------------
(* Images for the drivers: clusters and blocks of two units, three guest  *)
(* clusters under two L2 tables, refcount blocks of three counts so that   *)
(* an allocation needs a new block, and a backing image that ends inside a *)
(* cluster.                                                                *)

Beneath == [len |-> 3, at |-> [u \in 0 .. 2 |-> 1]]
Nothing == [len |-> 0, at |-> [u \in {} |-> 0]]

Compressed(k, p) == [kind |-> "compressed", host |-> k, part |-> p, copied |-> FALSE]
ReadsZero        == [None EXCEPT !.kind = "zero"]
Shared(k)        == [Standard(k) EXCEPT !.copied = FALSE]
Table(f)         == [b \in 0 .. TableLen - 1 |-> IF b \in DOMAIN f THEN f[b] ELSE 0]
Counts(a, b, c)  == [x \in 0 .. 2 |-> IF x = 0 THEN a ELSE IF x = 1 THEN b ELSE c]
Of(a, b)         == [x \in 0 .. 1 |-> IF x = 0 THEN a ELSE b]

\* Header 0, refcount table 1, refcount block 2, then the L1 table at 3 and
\* the block that counts it at 4.
Empty(under) ==
  [format |-> "qcow2", virtual |-> 3, len |-> 5, ragged |-> FALSE, plain |-> TRUE,
   fixed |-> {0, 1, 3}, table |-> Table(Of(2, 4)),
   counts |-> [b \in {2, 4} |-> IF b = 2 THEN Counts(1, 1, 1) ELSE Counts(1, 1, 0)],
   l1 |-> Of(0, 0), l2 |-> [t \in {} |-> <<>>], data |-> [d \in {} |-> <<>>],
   backing |-> under]

\* Clusters past the last counted one, so that the first allocation needs a
\* refcount block that needs a block of its own.
Trailing == [Empty(Beneath) EXCEPT !.len = 8]

\* One L2 table at 5 whose clusters are at 6 and 7, the file cut short.
Holding(e0, e1, c6, d) ==
  [Empty(Beneath) EXCEPT
    !.len = 9, !.ragged = TRUE,
    !.table = Table([b \in 0 .. 2 |-> IF b = 0 THEN 2 ELSE IF b = 1 THEN 4 ELSE 8]),
    !.counts = [b \in {2, 4, 8} |->
                  IF b = 2 THEN Counts(1, 1, 1)
                  ELSE IF b = 4 THEN Counts(1, 1, 1) ELSE Counts(c6, 1, 1)],
    !.l1 = Of(5, 0), !.l2 = [t \in {5} |-> Of(e0, e1)], !.data = d]

Data(p6, p7) == [d \in {<<6, 0>>, <<7, p7>>} |-> IF d[1] = 6 THEN Of(0, 1) ELSE Of(1, 1)]

QcowImages ==
  {Empty(Beneath), [Empty(Nothing) EXCEPT !.plain = FALSE], Trailing,
   Holding(Compressed(6, 0), Standard(7), 1, Data(0, 0)),
   Holding(ReadsZero, Shared(7), 0, [Data(0, 0) EXCEPT ![<<6, 0>>] = Of(0, 0)])}

VdiOf(type, alloc, map, data, under) ==
  [format |-> "vdi", virtual |-> 3, type |-> type, count |-> 3, allocated |-> alloc,
   map |-> map, data |-> data, parent |-> under]

Map3(a, b, c) == [x \in 0 .. 2 |-> IF x = 0 THEN a ELSE IF x = 1 THEN b ELSE c]
Blocks(n)     == [x \in 0 .. n - 1 |-> Of(x % 2, 1)]

VdiImages ==
  {VdiOf("dynamic", 1, Map3(-1, 0, -2), Blocks(1), Nothing),
   VdiOf("differencing", 1, Map3(-1, -2, 0), Blocks(1), Beneath),
   VdiOf("differencing", 3, Map3(-1, 2, 0), Blocks(3), Beneath),
   VdiOf("fixed", 3, Map3(2, 0, 1), Blocks(3), Nothing),
   VdiOf("fixed", 2, Map3(1, 0, -1), Blocks(2), Nothing)}

\* The images are such as the drivers' theorems are about.
ASSUME SoundInstances == V!Sound /\ \A i \in Images : SoundImage(i) /\ CountedImage(i)

\* No qcow2 image, or no VDI, is open.
NoQcow ==
  /\ img = Empty(Beneath) /\ l1 = img.l1 /\ keptImg = img /\ keptL1 = l1
  /\ batch = "open" /\ writes = 0

NoVdi ==
  /\ disk = VdiOf("fixed", 3, Map3(2, 0, 1), Blocks(3), Nothing) /\ keptDisk = disk
  /\ diskBatch = "open" /\ diskWrites = 0

\* open_disk: which driver's the image is, once and for all.
OpenDisk ==
  \/ topic = "qcow2" /\ Init /\ NoVdi
  \/ topic = "vdi" /\ V!Init /\ NoQcow

Driver ==
  \/ topic = "qcow2" /\ Next /\ UNCHANGED vdiVars
  \/ topic = "vdi" /\ V!Next /\ UNCHANGED vars

-----------------------------------------------------------------------------
(* Chains of files *)

Qcow(parent, pins) ==
  [format |-> "qcow2", id |-> "-", parent |-> parent, pins |-> pins,
   dir |-> "here", named |-> "-", reachable |-> TRUE]
Plain == [Qcow(NoParent, "any") EXCEPT !.format = "none"]
Disk(id, parent, dir, named) ==
  [format |-> "vdi", id |-> id, parent |-> parent, pins |-> "any",
   dir |-> dir, named |-> named, reachable |-> TRUE]

Library(a, b, c, d, t) ==
  [files |-> [f \in {"a", "b", "c", "d"} |->
                IF f = "a" THEN a ELSE IF f = "b" THEN b ELSE IF f = "c" THEN c ELSE d],
   torn |-> t]

\* Paths that lead on, back, nowhere and past the limit; formats pinned.
Pathed ==
  {Library(Qcow(x, px), Qcow(y, py), Qcow(z, "any"), d, t) :
     x \in {"b", "d", Absent}, px \in {"any", "raw"},
     y \in {NoParent, "a", "c"}, py \in {"any", "qcow2", "other"},
     z \in {"b", "d"}, d \in {Plain, Qcow("a", "any")}, t \in {{}, {"b"}}}

\* Identities that match one file, two or none, beside the child and above it.
Identified ==
  {Library([Disk("i1", "i2", "here", "-") EXCEPT !.reachable = r],
           Disk(i, p, dir, n), Disk(j, "i1", "above", "-"),
           Disk("i3", NoParent, "above", "-"), t) :
     r \in BOOLEAN, i \in {"i1", "i2"}, p \in {NoParent, "i1", "i3"},
     dir \in {"here", "above"}, n \in {"-", "i2"}, j \in {"i2", "i3"},
     t \in {{}, {"c"}}}

Chains == Pathed \cup Identified

\* The chains are such as the theorem about opening one is about.
ASSUME OpenableInstance == Openable

-----------------------------------------------------------------------------
(* All of them in one state space *)

NoChain ==
  /\ files = <<>> /\ torn = {} /\ held = {} /\ chain = <<>>
  /\ reads = "raw" /\ found = Absent /\ pc = "refused" /\ late = {} /\ meddling = 0

Rec == INSTANCE MCRecordings

recVars == <<part, x1, x2, x3, x4, x5, x6, x7, x8, x9, x10, x11, x12, x13, x14>>

NoRecording ==
  /\ part = "none" /\ Rec!Unused5
  /\ x1 = 0 /\ x2 = 0 /\ x3 = 0 /\ x4 = 0 /\ x5 = 0

ImagesInit ==
  \/ topic = "chain" /\ OpenInit /\ NoQcow /\ NoVdi /\ NoRecording
  \/ OpenDisk /\ NoChain /\ NoRecording
  \/ topic = "recording" /\ Rec!RecordingsInit /\ NoChain /\ NoQcow /\ NoVdi

ImagesNext ==
  /\ \/ topic = "chain" /\ OpenNext /\ UNCHANGED <<vars, vdiVars, recVars>>
     \/ Driver /\ UNCHANGED <<chainVars, recVars>>
     \/ topic = "recording" /\ Rec!RecordingsNext /\ UNCHANGED <<chainVars, vars, vdiVars>>
  /\ UNCHANGED topic

ImagesSpec ==
  /\ ImagesInit /\ [][ImagesNext]_<<vars, chainVars, vdiVars, recVars, topic>>
  /\ WF_chainVars(Opening)

\* The VDI driver is the disk it presents - an allocation seeds the rest of a
\* block with what it read before, a refused write changes no unit, a
\* discarded batch leaves no trace - and no two blocks of the guest share one
\* of the file's.
VdiDisk == V!OverlaySpec /\ []V!MapExact

\* What the flux layers give back is the evidence they were given, and a read
\* of a sector what the recording's own records state.
RecordingsAreServed ==
  topic = "recording" => Rec!FluxIsKept /\ Rec!RecordsAreServed
=============================================================================
