------------------------------- MODULE Qcow2 -------------------------------
(***************************************************************************)
(* The qcow2 driver (crates/remanence/src/image/qcow2.rs): the two-level   *)
(* mapping, copy-on-write over a backing image, and the refcounts it keeps *)
(* while it allocates.                                                     *)
(*                                                                         *)
(* The host file is counted in clusters.  An image is a record:            *)
(*   len, ragged   clusters in the file; whether the last is cut short     *)
(*   plain         no internal snapshots and 16-bit refcounts              *)
(*   fixed         the clusters of the header, refcount table and L1 table *)
(*   table         refcount table: per refcount block, its cluster, or 0   *)
(*   counts        the refcount blocks, by cluster                         *)
(*   l1, l2        the L1 table (cluster or 0) and the L2 tables, by       *)
(*                 cluster                                                 *)
(*   data          cluster contents, by host cluster and part of it: a     *)
(*                 compressed cluster may share its host cluster           *)
(*   backing       what the backing image presents, and how much of it     *)
(* A cluster holds ClusterUnits units, so that a write may cover part of   *)
(* one.                                                                    *)
(***************************************************************************)
EXTENDS Integers, FiniteSetTheorems, TLAPS

CONSTANTS
  Images,         \* the images the driver may be opened over
  ClusterUnits,   \* units written separately, per cluster
  L2Entries,      \* entries per L2 table
  RefEntries,     \* counts per refcount block
  TableLen,       \* entries the refcount table has
  Vals, Zero,     \* unit contents
  MaxWrites       \* bound: writes between two commits

ASSUME ShapeAssumption ==
  /\ ClusterUnits \in Nat \ {0}
  /\ L2Entries \in Nat \ {0}
  /\ RefEntries \in Nat \ {0, 1}
  /\ TableLen \in Nat
  /\ Zero \in Vals

VARIABLES
  img,      \* the host file as the staged writes leave it
  l1,       \* Qcow2::l1, the driver's copy of the L1 table
  keptImg,  \* the host file when the last commit landed
  keptL1,   \* the snapshot of l1 taken before the commit staged anything
  batch,    \* "open", or "refused" once a write of the commit failed
  writes    \* writes staged by the commit in progress

vars == <<img, l1, keptImg, keptL1, batch, writes>>

-----------------------------------------------------------------------------
(* Reading through the mapping *)

Size(i)    == i.virtual * ClusterUnits
Cluster(u) == u \div ClusterUnits
Within(u)  == u % ClusterUnits

None == [kind |-> "none", host |-> 0, part |-> 0, copied |-> FALSE]
Standard(k) == [kind |-> "standard", host |-> k, part |-> 0, copied |-> TRUE]

With(f, k, v) == [x \in DOMAIN f \cup {k} |-> IF x = k THEN v ELSE f[x]]

L2Entry(i, t, c) ==
  LET l2 == t[c \div L2Entries]
  IN  IF l2 = 0 THEN None ELSE i.l2[l2][c % L2Entries]

ReadBacking(i, u) == IF u < i.backing.len THEN i.backing.at[u] ELSE Zero

ReadCluster(i, t, u) ==
  LET e == L2Entry(i, t, Cluster(u))
  IN  CASE e.kind = "none" -> ReadBacking(i, u)
        [] e.kind = "zero" -> Zero
        [] OTHER           -> i.data[<<e.host, e.part>>][Within(u)]

-----------------------------------------------------------------------------
(* Refcounts.  w is the work in hand: the image, the cached L1 table, and  *)
(* whether every step so far was accepted.                                 *)

BlockOf(k) == k \div RefEntries

Covered(i, k) == BlockOf(k) < TableLen /\ i.table[BlockOf(k)] # 0

Count(i, k) ==
  IF Covered(i, k) THEN i.counts[i.table[BlockOf(k)]][k % RefEntries] ELSE 0

PutCount(i, k, v) ==
  [i EXCEPT !.counts[i.table[BlockOf(k)]][k % RefEntries] = v]

\* append_cluster: the next aligned cluster, whatever the file's last one is.
AppendCluster(i) == [i EXCEPT !.len = i.len + 1, !.ragged = FALSE]

\* A new refcount block goes at the end of the file.  It describes itself, or
\* an existing block does, or its own count asks for one block more: the run
\* of blocks set_refcount's recursion appends ends with the first that is
\* described.
Served(i, k, n)   == BlockOf(IF n = 0 THEN k ELSE i.len + n - 1)
\* Mutant of Described: a refcount block is never itself counted elsewhere.
DescribedAlways(i, k, n) == TRUE

Described(i, k, n) == \/ Served(i, k, n) = Served(i, k, n - 1)
                      \/ Covered(i, i.len + n - 1)
BlocksNeeded(i, k) ==
  CHOOSE n \in 1 .. 3 : /\ Described(i, k, n)
                        /\ \A m \in 1 .. n - 1 : ~Described(i, k, m)

Zeroes == [x \in 0 .. RefEntries - 1 |-> 0]

\* The n blocks of the run, each named by the table, and each new one counted
\* once where its count now lives.
Appended(i, k, n) ==
  [i EXCEPT
    !.len    = i.len + n,
    !.ragged = FALSE,
    !.table  = [b \in DOMAIN i.table |->
                  IF \E m \in 1 .. n : b = Served(i, k, m - 1)
                    THEN i.len + (CHOOSE m \in 1 .. n : b = Served(i, k, m - 1)) - 1
                    ELSE i.table[b]],
    !.counts = [b \in DOMAIN i.counts \cup (i.len .. i.len + n - 1) |->
                  IF b \in DOMAIN i.counts THEN i.counts[b] ELSE Zeroes]]

CountOnce(i, news) ==
  [i EXCEPT
    !.counts = [b \in DOMAIN i.counts |->
                  [x \in 0 .. RefEntries - 1 |->
                     IF \E k \in news : i.table[BlockOf(k)] = b /\ k % RefEntries = x
                       THEN 1 ELSE i.counts[b][x]]]]

WithRun(i, k, n)  == CountOnce(Appended(i, k, n), i.len .. i.len + n - 1)
WithBlocks(i, k)  == IF Covered(i, k) THEN i ELSE WithRun(i, k, BlocksNeeded(i, k))

TableCovers(i, k) ==
  \/ Covered(i, k)
  \/ \A m \in 0 .. BlocksNeeded(i, k) - 1 : Served(i, k, m) < TableLen

SetRefcount(w, k, v) ==
  IF TableCovers(w.img, k)
    THEN [w EXCEPT !.img = PutCount(WithBlocks(w.img, k), k, v)]
    ELSE [w EXCEPT !.ok = FALSE]

AllocateCluster(w) ==
  SetRefcount([w EXCEPT !.img = AppendCluster(w.img)], w.img.len, 1)

\* A step after another, where that one was accepted.
Then(w, Step(_)) == IF w.ok THEN Step(w) ELSE w

EnsureL2(w, c) ==
  LET x == c \div L2Entries
      k == w.img.len
  IN  IF w.l1[x] # 0 THEN w
      ELSE Then(AllocateCluster(w), LAMBDA y :
             [y EXCEPT !.img.l2 = With(y.img.l2, k, [z \in 0 .. L2Entries - 1 |-> None]),
                       !.img.l1[x] = k, !.l1[x] = k])

-----------------------------------------------------------------------------
(* Writing *)

Refused(w) == [w EXCEPT !.ok = FALSE]

WriteInPlace(w, e, u, v) ==
  IF e.copied THEN [w EXCEPT !.img.data[<<e.host, 0>>][Within(u)] = v]
              ELSE Refused(w)

FreeCompressed(w, e) ==
  IF e.kind = "compressed" THEN SetRefcount(w, e.host, 0) ELSE w

PutData(w, k, content) ==
  Then(AllocateCluster(w), LAMBDA y :
    [y EXCEPT !.img.data = With(y.img.data, <<k, 0>>, content)])

Reach(w, c, k) ==
  [w EXCEPT !.img.l2[w.l1[c \div L2Entries]][c % L2Entries] = Standard(k)]

\* Mutant of WriteFresh: the fresh cluster starts out zeroed.
WriteFreshZeroed(w, e, u, v) ==
  LET content == [x \in 0 .. ClusterUnits - 1 |-> IF x = Within(u) THEN v ELSE Zero]
  IN  Then(EnsureL2(w, Cluster(u)), LAMBDA y :
      Then(PutData(y, y.img.len, content), LAMBDA z :
      Then(FreeCompressed(z, e), LAMBDA t : Reach(t, Cluster(u), y.img.len))))

\* The old contents, the write over them, a fresh cluster, and last the entry
\* that reaches it.
WriteFresh(w, e, u, v) ==
  LET content == [x \in 0 .. ClusterUnits - 1 |->
                    IF x = Within(u) THEN v
                    ELSE ReadCluster(w.img, w.l1, Cluster(u) * ClusterUnits + x)]
  IN  Then(EnsureL2(w, Cluster(u)), LAMBDA y :
      Then(PutData(y, y.img.len, content), LAMBDA z :
      Then(FreeCompressed(z, e), LAMBDA t : Reach(t, Cluster(u), y.img.len))))

WriteOver(w, e, u, v) ==
  IF e.kind = "standard" THEN WriteInPlace(w, e, u, v) ELSE WriteFresh(w, e, u, v)
WriteCluster(w, u, v) ==
  IF ~w.img.plain \/ u >= Size(w.img) THEN Refused(w)
  ELSE WriteOver(w, L2Entry(w.img, w.l1, Cluster(u)), u, v)

-----------------------------------------------------------------------------
(* The driver under a commit's write-through *)

\* assemble: the L1 table is read once, at the open.
Init ==
  /\ img \in Images
  /\ l1 = img.l1
  /\ keptImg = img /\ keptL1 = l1
  /\ batch = "open" /\ writes = 0

Work == [img |-> img, l1 |-> l1, ok |-> TRUE]

\* A staged write.  What a refused one had already staged stays until the
\* commit discards it.
Staged(w) ==
  /\ batch = "open" /\ writes < MaxWrites
  /\ img' = w.img /\ l1' = w.l1
  /\ batch' = IF w.ok THEN "open" ELSE "refused"
  /\ writes' = writes + 1
  /\ UNCHANGED <<keptImg, keptL1>>
Stage(u, v) == Staged(WriteCluster(Work, u, v))

\* The commit lands; the next one takes its own snapshot.
Land ==
  /\ batch = "open" /\ writes > 0
  /\ keptImg' = img /\ keptL1' = l1
  /\ writes' = 0
  /\ UNCHANGED <<img, l1, batch>>

\* The commit does not land: the staged host writes and the cache both go.
Discard ==
  /\ writes > 0
  /\ img' = keptImg /\ l1' = keptL1
  /\ batch' = "open" /\ writes' = 0
  /\ UNCHANGED <<keptImg, keptL1>>

Next ==
  \/ \E u \in 0 .. Size(img), v \in Vals : Stage(u, v)
  \/ Land
  \/ Discard

Spec == Init /\ [][Next]_vars

-----------------------------------------------------------------------------
(* Properties *)

Standards(i) ==
  {p \in (DOMAIN i.l2) \X (0 .. L2Entries - 1) : i.l2[p[1]][p[2]].kind = "standard"}

Compresseds(i) ==
  {p \in (DOMAIN i.l2) \X (0 .. L2Entries - 1) : i.l2[p[1]][p[2]].kind = "compressed"}

\* What stands in cluster k: a fixed part of the file, a refcount block, an L2
\* table, the contents of an entry.
FixedAt(i, k)   == {f \in i.fixed : f = k}
BlocksAt(i, k)  == {b \in DOMAIN i.table : i.table[b] = k /\ k # 0}
TablesAt(i, k)  == {x \in DOMAIN i.l1 : i.l1[x] = k /\ k # 0}
EntriesAt(i, k) == {p \in Standards(i) \cup Compresseds(i) : i.l2[p[1]][p[2]].host = k}

References(i, k) ==
  Cardinality(FixedAt(i, k)) + Cardinality(BlocksAt(i, k))
  + Cardinality(TablesAt(i, k)) + Cardinality(EntriesAt(i, k))

\* What a later writer of the file relies on: a cluster counted free is not
\* in use.  The comment in write_cluster claims it of the compressed cluster
\* a write leaves behind ("its count was 1, so it simply becomes free
\* space", qcow2.rs:551).
FreeIsUnused ==
  batch = "open" =>
    \A k \in 0 .. img.len - 1 : Count(img, k) = 0 => References(img, k) = 0

\* Between writes every cluster of the file is counted exactly as often as
\* it is used, the refcount blocks and tables the driver allocates in passing
\* included, and nothing is used past the end of the file
\* (set_refcount, append_cluster, ensure_l2, write_cluster).
RefcountsExact ==
  batch = "open" =>
    /\ \A k \in 0 .. img.len - 1 : Count(img, k) = References(img, k)
    /\ \A p \in Standards(img) : img.l2[p[1]][p[2]].host < img.len
    /\ l1 = img.l1

\* What the guest reads, unit by unit.
View(i, t) == [u \in 0 .. Size(i) - 1 |-> ReadCluster(i, t, u)]

-----------------------------------------------------------------------------
(* The disk the driver presents, and why no write strays *)

Guest == INSTANCE BufferedDisk WITH
  Places <- 0 .. Size(img) - 1, Contents <- Vals,
  view  <- View(img, l1),
  saved <- View(keptImg, keptL1)

\* Whatever it allocates in passing, a driver over a sound image is the disk
\* it presents: a write changes the unit it is to and no other.
GuestSpec == Guest!Spec

Fields    == {"virtual", "len", "l1", "l2", "data", "backing"}
Contents  == [0 .. ClusterUnits - 1 -> Vals]
Slots     == 0 .. L2Entries - 1
Kinds     == {"none", "zero", "standard", "compressed"}
HasData(e) == e.kind \in {"standard", "compressed"}

\* The L1 table has an entry for every cluster of the disk, and names each L2
\* table it names once.
TablesOK(i) ==
  /\ i.l1 = [x \in DOMAIN i.l1 |-> i.l1[x]]
  /\ i.l2 = [t \in DOMAIN i.l2 |-> i.l2[t]]
  /\ \A c \in 0 .. i.virtual - 1 : c \div L2Entries \in DOMAIN i.l1
  /\ \A x \in DOMAIN i.l1 : i.l1[x] # 0 => i.l1[x] \in DOMAIN i.l2
  /\ \A x, y \in DOMAIN i.l1 : i.l1[x] # 0 /\ i.l1[x] = i.l1[y] => x = y
  /\ \A t \in DOMAIN i.l2 : /\ t \in Nat /\ t < i.len
                            /\ i.l2[t] = [y \in Slots |-> i.l2[t][y]]

\* What an entry names is in the file.
DataOK(i) ==
  /\ i.data = [d \in DOMAIN i.data |-> i.data[d]]
  /\ \A d \in DOMAIN i.data : d[1] \in Nat /\ d[1] < i.len /\ i.data[d] \in Contents
  /\ \A t \in DOMAIN i.l2, y \in Slots :
       /\ i.l2[t][y].kind \in Kinds
       /\ HasData(i.l2[t][y]) => <<i.l2[t][y].host, i.l2[t][y].part>> \in DOMAIN i.data
       /\ i.l2[t][y].kind = "standard" => i.l2[t][y].part = 0

\* The cluster of an entry marked copied is no other entry's: the flag says
\* that the cluster may be written where it is.
CopiedOK(i) ==
  \A t, s \in DOMAIN i.l2, y, x \in Slots :
    /\ i.l2[t][y].kind = "standard" /\ i.l2[t][y].copied
    /\ HasData(i.l2[s][x]) /\ i.l2[s][x].host = i.l2[t][y].host
    => s = t /\ x = y

ShapeOK(i) ==
  /\ i = [f \in DOMAIN i |-> i[f]] /\ Fields \subseteq DOMAIN i
  /\ i.virtual \in Nat /\ i.len \in Nat \ {0}
  /\ i.backing.len \in Nat
  /\ \A u \in 0 .. i.backing.len - 1 : i.backing.at[u] \in Vals

SoundImage(i) == ShapeOK(i) /\ TablesOK(i) /\ DataOK(i) /\ CopiedOK(i)

\* The cached L1 table is the file's, refused writes and discards included.
IInv ==
  /\ SoundImage(img) /\ SoundImage(keptImg)
  /\ l1 = img.l1 /\ keptL1 = keptImg.l1
  /\ keptImg.virtual = img.virtual

WorkOK(w) ==
  /\ w = [img |-> w.img, l1 |-> w.l1, ok |-> w.ok]
  /\ w.ok \in BOOLEAN
  /\ SoundImage(w.img) /\ w.l1 = w.img.l1

\* A step of a write that touches nothing the guest reads.
SameCells(i, j) ==
  /\ j = [f \in DOMAIN i |-> j[f]]
  /\ j.len \in Nat /\ j.len >= i.len
  /\ j.virtual = i.virtual /\ j.backing = i.backing
  /\ j.l1 = i.l1 /\ j.l2 = i.l2 /\ j.data = i.data

Unseen(w, r) ==
  /\ WorkOK(r)
  /\ r.img.len >= w.img.len
  /\ r.img.virtual = w.img.virtual /\ r.img.backing = w.img.backing
  /\ \A c \in 0 .. w.img.virtual - 1 : L2Entry(r.img, r.l1, c) = L2Entry(w.img, w.l1, c)
  /\ DOMAIN w.img.data \subseteq DOMAIN r.img.data
  /\ \A d \in DOMAIN w.img.data : r.img.data[d] = w.img.data[d]

\* The entry of a cluster is none, or one of a table the L1 table names.
LEMMA EntryFacts ==
  ASSUME NEW i, SoundImage(i), NEW c \in 0 .. i.virtual - 1
  PROVE  LET x == c \div L2Entries
             e == L2Entry(i, i.l1, c)
         IN  /\ x \in DOMAIN i.l1 /\ c % L2Entries \in Slots
             /\ i.l1[x] = 0 => e = None
             /\ i.l1[x] # 0 => i.l1[x] \in DOMAIN i.l2 /\ e = i.l2[i.l1[x]][c % L2Entries]
             /\ e.kind \in Kinds
             /\ HasData(e) => i.l1[x] # 0 /\ <<e.host, e.part>> \in DOMAIN i.data
             /\ e.kind = "standard" => e.part = 0
<1> DEFINE x == c \div L2Entries
           e == L2Entry(i, i.l1, c)
<1>1. c % L2Entries \in Slots
  BY ShapeAssumption DEF Slots, SoundImage, ShapeOK
<1>2. x \in DOMAIN i.l1
  BY DEF SoundImage, TablesOK
<1>3. CASE i.l1[x] = 0
  <2>1. e = None
    BY <1>3 DEF L2Entry
  <2> QED
    BY <1>1, <1>2, <1>3, <2>1 DEF None, Kinds, HasData
<1>4. CASE i.l1[x] # 0
  <2>1. i.l1[x] \in DOMAIN i.l2 /\ e = i.l2[i.l1[x]][c % L2Entries]
    BY <1>2, <1>4 DEF L2Entry, SoundImage, TablesOK
  <2> QED
    BY <1>1, <1>2, <1>4, <2>1 DEF SoundImage, DataOK
<1> QED
  BY <1>3, <1>4

\* Two clusters of one table's one slot are one cluster.
LEMMA Located ==
  ASSUME NEW i, SoundImage(i), NEW c \in 0 .. i.virtual - 1, NEW d \in 0 .. i.virtual - 1,
         i.l1[c \div L2Entries] # 0,
         i.l1[c \div L2Entries] = i.l1[d \div L2Entries],
         c % L2Entries = d % L2Entries
  PROVE  c = d
<1>1. c \div L2Entries = d \div L2Entries
  BY DEF SoundImage, TablesOK
<1>2. c \in Nat /\ d \in Nat
  BY DEF SoundImage, ShapeOK
<1> QED
  BY <1>1, <1>2, ShapeAssumption

\* A unit is a cell of a cluster of the disk.
LEMMA UnitFacts ==
  ASSUME NEW i, SoundImage(i), NEW u \in 0 .. Size(i) - 1
  PROVE  /\ u \in Nat /\ Cluster(u) \in 0 .. i.virtual - 1
         /\ Within(u) \in 0 .. ClusterUnits - 1
         /\ u = Cluster(u) * ClusterUnits + Within(u)
         /\ \A w \in Nat : Cluster(w) = Cluster(u) /\ Within(w) = Within(u) => w = u
<1>1. u \in Nat /\ i.virtual \in Nat /\ u < i.virtual * ClusterUnits
  BY ShapeAssumption DEF SoundImage, ShapeOK, Size
<1>2. u \div ClusterUnits \in Nat
  BY <1>1, ShapeAssumption
<1>3. u \div ClusterUnits < i.virtual
  BY <1>1, ShapeAssumption
<1>4. Within(u) \in 0 .. ClusterUnits - 1 /\ u = Cluster(u) * ClusterUnits + Within(u)
  BY <1>1, ShapeAssumption DEF Cluster, Within
<1>5. ASSUME NEW w \in Nat, Cluster(w) = Cluster(u), Within(w) = Within(u)
      PROVE  w = u
  BY <1>1, <1>5, ShapeAssumption DEF Cluster, Within
<1> QED
  BY <1>1, <1>2, <1>3, <1>4, <1>5 DEF Cluster

\* What a sound image presents is a disk of values.
LEMMA ReadsVals ==
  ASSUME NEW i, SoundImage(i), NEW u \in 0 .. Size(i) - 1
  PROVE  ReadCluster(i, i.l1, u) \in Vals
<1> DEFINE e == L2Entry(i, i.l1, Cluster(u))
<1>1. u \in Nat /\ Cluster(u) \in 0 .. i.virtual - 1 /\ Within(u) \in 0 .. ClusterUnits - 1
  BY UnitFacts
<1>2. e.kind \in Kinds /\ (HasData(e) => <<e.host, e.part>> \in DOMAIN i.data)
  BY <1>1, EntryFacts
<1>3. ReadBacking(i, u) \in Vals
  BY <1>1, ShapeAssumption DEF ReadBacking, SoundImage, ShapeOK
<1>4. HasData(e) => i.data[<<e.host, e.part>>][Within(u)] \in Vals
  BY <1>1, <1>2 DEF SoundImage, DataOK, Contents
<1> QED
  BY <1>2, <1>3, <1>4, ShapeAssumption DEF ReadCluster, HasData, Kinds

\* What touches nothing the guest reads changes nothing it reads.
LEMMA UnseenReads ==
  ASSUME NEW w, NEW r, WorkOK(w), Unseen(w, r), NEW u \in 0 .. Size(w.img) - 1
  PROVE  ReadCluster(r.img, r.l1, u) = ReadCluster(w.img, w.l1, u)
<1> DEFINE e == L2Entry(w.img, w.l1, Cluster(u))
<1>1. Cluster(u) \in 0 .. w.img.virtual - 1
  BY UnitFacts DEF WorkOK
<1>2. L2Entry(r.img, r.l1, Cluster(u)) = e
  BY <1>1 DEF Unseen
<1>3. e.kind \in Kinds /\ (HasData(e) => <<e.host, e.part>> \in DOMAIN w.img.data)
  BY <1>1, EntryFacts DEF WorkOK
<1>4. HasData(e) => r.img.data[<<e.host, e.part>>] = w.img.data[<<e.host, e.part>>]
  BY <1>3 DEF Unseen
<1>5. ReadBacking(r.img, u) = ReadBacking(w.img, u)
  BY DEF Unseen, ReadBacking
<1> QED
  BY <1>2, <1>3, <1>4, <1>5 DEF ReadCluster, HasData, Kinds

LEMMA UnseenTwice ==
  ASSUME NEW w, NEW r, NEW s, WorkOK(w), Unseen(w, r), Unseen(r, s)
  PROVE  Unseen(w, s)
<1>1. s.img.len >= w.img.len
  BY DEF Unseen, WorkOK, SoundImage, ShapeOK
<1> QED
  BY <1>1 DEF Unseen

-----------------------------------------------------------------------------
(* Counting changes nothing the guest reads *)

\* The run of refcount blocks ends: of three clusters in a row two are counted
\* by one block, since a block counts two clusters at least.
LEMMA RunEnds ==
  ASSUME NEW i, i.len \in Nat, NEW k
  PROVE  LET n == BlocksNeeded(i, k)
         IN  n \in 1 .. 3 /\ Described(i, k, n) /\ \A j \in 1 .. n - 1 : ~Described(i, k, j)
<1> DEFINE n == i.len
<1>1. \/ (n + 1) \div RefEntries = n \div RefEntries
      \/ (n + 2) \div RefEntries = (n + 1) \div RefEntries
  BY ShapeAssumption
<1>2. Described(i, k, 2) \/ Described(i, k, 3)
  BY <1>1 DEF Described, Served, BlockOf
<1>3. \E m \in 1 .. 3 : Described(i, k, m) /\ \A j \in 1 .. m - 1 : ~Described(i, k, j)
  <2>1. CASE Described(i, k, 1)
    BY <2>1
  <2>2. CASE ~Described(i, k, 1) /\ Described(i, k, 2)
    BY <2>2
  <2>3. CASE ~Described(i, k, 1) /\ ~Described(i, k, 2) /\ Described(i, k, 3)
    BY <2>3
  <2> QED
    BY <1>2, <2>1, <2>2, <2>3
<1> QED
  BY <1>3 DEF BlocksNeeded

LEMMA AppendSame ==
  ASSUME NEW i, i = [f \in DOMAIN i |-> i[f]], Fields \subseteq DOMAIN i, i.len \in Nat
  PROVE  SameCells(i, AppendCluster(i)) /\ AppendCluster(i).len = i.len + 1
<1> DEFINE m == i.len + 1
<1>1. m \in Nat /\ m >= i.len
  OBVIOUS
<1>2. AppendCluster(i) = [i EXCEPT !.len = m, !.ragged = FALSE]
  BY DEF AppendCluster
<1> HIDE DEF m
<1>3. SameCells(i, [i EXCEPT !.len = m, !.ragged = FALSE])
  BY <1>1 DEF SameCells, Fields
<1>4. [i EXCEPT !.len = m, !.ragged = FALSE].len = m
  BY DEF Fields
<1> QED
  BY <1>2, <1>3, <1>4 DEF m

LEMMA AppendedSame ==
  ASSUME NEW i, i = [f \in DOMAIN i |-> i[f]], Fields \subseteq DOMAIN i, i.len \in Nat,
         NEW k, NEW n \in 1 .. 3
  PROVE  SameCells(i, Appended(i, k, n))
<1> DEFINE names   == [b \in DOMAIN i.table |->
                         IF \E m \in 1 .. n : b = Served(i, k, m - 1)
                           THEN i.len + (CHOOSE m \in 1 .. n : b = Served(i, k, m - 1)) - 1
                           ELSE i.table[b]]
           counted == [b \in DOMAIN i.counts \cup (i.len .. i.len + n - 1) |->
                         IF b \in DOMAIN i.counts THEN i.counts[b] ELSE Zeroes]
           m == i.len + n
<1>1. m \in Nat /\ m >= i.len
  OBVIOUS
<1>2. Appended(i, k, n)
        = [i EXCEPT !.len = m, !.ragged = FALSE, !.table = names, !.counts = counted]
  BY DEF Appended
<1> HIDE DEF names, counted, m
<1>3. SameCells(i, [i EXCEPT !.len = m, !.ragged = FALSE, !.table = names, !.counts = counted])
  BY <1>1 DEF SameCells, Fields
<1> QED
  BY <1>2, <1>3

LEMMA SameIsSound ==
  ASSUME NEW i, NEW j, SoundImage(i), SameCells(i, j)
  PROVE  SoundImage(j)
<1>1. DOMAIN j = DOMAIN i
  BY DEF SameCells
<1>2. ShapeOK(j)
  BY <1>1 DEF SameCells, SoundImage, ShapeOK
<1>3. TablesOK(j)
  <2>1. \A t \in DOMAIN i.l2 : t \in Nat /\ t < i.len /\ i.l2[t] = [y \in Slots |-> i.l2[t][y]]
    BY DEF SoundImage, TablesOK
  <2>2. i.len \in Nat /\ j.len \in Nat /\ j.len >= i.len
    BY DEF SameCells, SoundImage, ShapeOK
  <2>3. \A t \in DOMAIN i.l2 : t \in Nat /\ t < j.len /\ i.l2[t] = [y \in Slots |-> i.l2[t][y]]
    BY <2>1, <2>2
  <2>4. j.l1 = i.l1 /\ j.l2 = i.l2 /\ j.virtual = i.virtual
    BY DEF SameCells
  <2> QED
    BY <2>3, <2>4 DEF SoundImage, TablesOK
<1>4. DataOK(j)
  <2>1. \A d \in DOMAIN i.data : i.data[d] \in Contents
    BY DEF SoundImage, DataOK
  <2>2. \A d \in DOMAIN i.data : d[1] \in Nat /\ d[1] < j.len
    BY DEF SameCells, SoundImage, ShapeOK, DataOK
  <2> QED
    BY <2>1, <2>2 DEF SameCells, SoundImage, DataOK
<1>5. CopiedOK(j)
  BY DEF SameCells, SoundImage, CopiedOK
<1> QED
  BY <1>2, <1>3, <1>4, <1>5 DEF SoundImage

\* The blocks it may take touch nothing the guest reads.
LEMMA BlocksSame ==
  ASSUME NEW i, SoundImage(i), NEW k
  PROVE  SameCells(i, WithBlocks(i, k))
<1>1. /\ i = [f \in DOMAIN i |-> i[f]] /\ Fields \subseteq DOMAIN i /\ i.len \in Nat
  BY DEF SoundImage, ShapeOK
<1>2. SameCells(i, i)
  BY <1>1 DEF SameCells
<1>3. SameCells(i, WithRun(i, k, BlocksNeeded(i, k)))
  <2> DEFINE n == BlocksNeeded(i, k)
             a == Appended(i, k, n)
  <2>1. n \in 1 .. 3
    BY <1>1, RunEnds
  <2> HIDE DEF n
  <2>2. SameCells(i, a)
    BY <1>1, <2>1, AppendedSame
  <2>3. a = [f \in DOMAIN i |-> a[f]]
    BY <2>2 DEF SameCells
  <2> HIDE DEF a
  <2>4. SameCells(i, CountOnce(a, i.len .. i.len + n - 1))
    BY <1>1, <2>2, <2>3 DEF CountOnce, SameCells, Fields
  <2> QED
    BY <2>4 DEF WithRun, a, n
<1> QED
  BY <1>2, <1>3 DEF WithBlocks

LEMMA RefcountKeeps ==
  ASSUME NEW w, WorkOK(w), NEW k, NEW v
  PROVE  LET r == SetRefcount(w, k, v)
         IN  WorkOK(r) /\ r.l1 = w.l1 /\ SameCells(w.img, r.img)
<1> DEFINE i == w.img
           r == SetRefcount(w, k, v)
<1>1. /\ i = [f \in DOMAIN i |-> i[f]] /\ Fields \subseteq DOMAIN i /\ i.len \in Nat
  BY DEF WorkOK, SoundImage, ShapeOK
<1>2. SameCells(i, i)
  BY <1>1 DEF SameCells
<1>4. SameCells(i, WithBlocks(i, k))
  BY BlocksSame DEF WorkOK
<1>5. SameCells(i, PutCount(WithBlocks(i, k), k, v))
  <2> DEFINE b == WithBlocks(i, k)
  <2>1. b = [f \in DOMAIN i |-> b[f]]
    BY <1>4 DEF SameCells
  <2> HIDE DEF b
  <2>2. SameCells(i, b)
    BY <1>4 DEF b
  <2>3. SameCells(i, PutCount(b, k, v))
    BY <1>1, <2>1, <2>2 DEF PutCount, SameCells, Fields
  <2> QED
    BY <2>3 DEF b
<1>6. SameCells(i, r.img) /\ r.l1 = w.l1 /\ r.ok \in BOOLEAN /\ r = [img |-> r.img, l1 |-> r.l1, ok |-> r.ok]
  <2> DEFINE p == PutCount(WithBlocks(i, k), k, v)
  <2> HIDE DEF p
  <2>1. r = IF TableCovers(i, k) THEN [w EXCEPT !.img = p] ELSE [w EXCEPT !.ok = FALSE]
    BY DEF SetRefcount, p
  <2>2. w = [img |-> i, l1 |-> w.l1, ok |-> w.ok] /\ w.ok \in BOOLEAN
    BY DEF WorkOK
  <2>3. r = IF TableCovers(i, k) THEN [img |-> p, l1 |-> w.l1, ok |-> w.ok]
                                 ELSE [img |-> i, l1 |-> w.l1, ok |-> FALSE]
    BY <2>1, <2>2
  <2>4. SameCells(i, p)
    BY <1>5 DEF p
  <2> HIDE DEF r, i
  <2> QED
    BY <1>2, <2>2, <2>3, <2>4
<1>7. SoundImage(r.img)
  BY <1>6, SameIsSound DEF WorkOK
<1>8. r.l1 = r.img.l1
  BY <1>6 DEF WorkOK, SameCells
<1> QED
  BY <1>6, <1>7, <1>8 DEF WorkOK

\* An allocated cluster is past every cluster there was.
LEMMA AllocateKeeps ==
  ASSUME NEW w, WorkOK(w)
  PROVE  LET r == AllocateCluster(w)
         IN  /\ WorkOK(r) /\ r.l1 = w.l1 /\ SameCells(w.img, r.img)
             /\ r.img.len > w.img.len
<1> DEFINE i == w.img
           j == AppendCluster(i)
           x == [w EXCEPT !.img = j]
           r == AllocateCluster(w)
<1>1. /\ i = [f \in DOMAIN i |-> i[f]] /\ Fields \subseteq DOMAIN i /\ i.len \in Nat
  BY DEF WorkOK, SoundImage, ShapeOK
<1>2. SameCells(i, j) /\ j.len = i.len + 1
  BY <1>1, AppendSame
<1>3. SoundImage(j)
  BY <1>2, SameIsSound DEF WorkOK
<1> HIDE DEF j
<1>4. x = [img |-> j, l1 |-> w.l1, ok |-> w.ok]
  BY DEF WorkOK
<1>5. WorkOK(x)
  BY <1>2, <1>3, <1>4 DEF WorkOK, SameCells
<1> HIDE DEF x
<1>6. r = SetRefcount(x, i.len, 1)
  BY DEF AllocateCluster, x, j
<1>7. WorkOK(r) /\ r.l1 = x.l1 /\ SameCells(x.img, r.img)
  BY <1>5, <1>6, RefcountKeeps
<1> HIDE DEF r
<1> QED
  BY <1>1, <1>2, <1>4, <1>7 DEF SameCells, r

LEMMA SameIsUnseen ==
  ASSUME NEW w, NEW r, WorkOK(r), r.l1 = w.l1, SameCells(w.img, r.img)
  PROVE  Unseen(w, r)
BY DEF Unseen, SameCells, L2Entry

-----------------------------------------------------------------------------
(* The three changes a write makes to what the tables and clusters hold *)

\* No entry names cluster k.
Unnamed(i, k) == \A t \in DOMAIN i.l2, y \in Slots : HasData(i.l2[t][y]) => i.l2[t][y].host # k

AddTable(i, x, k) ==
  [i EXCEPT !.l2 = With(i.l2, k, [z \in Slots |-> None]), !.l1 = [i.l1 EXCEPT ![x] = k]]
AddData(i, k, content) == [i EXCEPT !.data = With(i.data, <<k, 0>>, content)]
PutEntry(i, s, q, e)   == [i EXCEPT !.l2 = [i.l2 EXCEPT ![s] = [i.l2[s] EXCEPT ![q] = e]]]
PutUnit(i, h, x, v)    ==
  [i EXCEPT !.data = [i.data EXCEPT ![<<h, 0>>] = [i.data[<<h, 0>>] EXCEPT ![x] = v]]]

\* An empty L2 table where there was none: every cluster it maps still has none.
LEMMA TableAdded ==
  ASSUME NEW i, SoundImage(i), NEW k \in Nat \ {0}, k < i.len, k \notin DOMAIN i.l2,
         NEW x \in DOMAIN i.l1, i.l1[x] = 0
  PROVE  LET j == AddTable(i, x, k)
         IN  /\ SoundImage(j) /\ j.l1 = [i.l1 EXCEPT ![x] = k]
             /\ j.virtual = i.virtual /\ j.len = i.len /\ j.backing = i.backing /\ j.data = i.data
             /\ \A c \in 0 .. i.virtual - 1 : L2Entry(j, j.l1, c) = L2Entry(i, i.l1, c)
<1> DEFINE j     == AddTable(i, x, k)
           fresh == [z \in Slots |-> None]
           grown == With(i.l2, k, fresh)
           named == [i.l1 EXCEPT ![x] = k]
<1>1. grown = [t \in DOMAIN grown |-> grown[t]] /\ DOMAIN grown = DOMAIN i.l2 \cup {k}
      /\ grown[k] = fresh /\ \A t \in DOMAIN i.l2 : grown[t] = i.l2[t]
  BY DEF With
<1>2. DOMAIN named = DOMAIN i.l1 /\ named = [y \in DOMAIN named |-> named[y]]
      /\ \A y \in DOMAIN i.l1 : named[y] = IF y = x THEN k ELSE i.l1[y]
  BY DEF SoundImage, TablesOK
<1> HIDE DEF grown
<1>3. j = [i EXCEPT !.l2 = grown, !.l1 = named]
  BY DEF grown, AddTable
<1> HIDE DEF named, j
<1>4. /\ j = [f \in DOMAIN j |-> j[f]] /\ DOMAIN j = DOMAIN i
      /\ j.l1 = named /\ j.l2 = grown /\ j.virtual = i.virtual /\ j.len = i.len
      /\ j.backing = i.backing /\ j.data = i.data
  BY <1>3 DEF SoundImage, ShapeOK, Fields
<1>5. ShapeOK(j)
  BY <1>4 DEF SoundImage, ShapeOK
<1>6. TablesOK(j)
  <2>1. \A c \in 0 .. i.virtual - 1 : c \div L2Entries \in DOMAIN named
    BY <1>2 DEF SoundImage, TablesOK
  <2>2. \A y \in DOMAIN named : named[y] # 0 => named[y] \in DOMAIN grown
    BY <1>1, <1>2 DEF SoundImage, TablesOK
  <2>3. \A y, z \in DOMAIN named : named[y] # 0 /\ named[y] = named[z] => y = z
    BY <1>2 DEF SoundImage, TablesOK
  <2>4. \A t \in DOMAIN grown : /\ t \in Nat /\ t < i.len
                                /\ grown[t] = [y \in Slots |-> grown[t][y]]
    <3>1. grown[k] = [y \in Slots |-> grown[k][y]] /\ k \in Nat /\ k < i.len
      BY <1>1
    <3>2. \A t \in DOMAIN i.l2 : t \in Nat /\ t < i.len /\ i.l2[t] = [y \in Slots |-> i.l2[t][y]]
      BY DEF SoundImage, TablesOK
    <3>3. \A t \in DOMAIN i.l2 : grown[t] = [y \in Slots |-> grown[t][y]]
      BY <1>1, <3>2
    <3> HIDE DEF fresh
    <3> QED
      BY <1>1, <3>1, <3>2, <3>3
  <2> QED
    BY <1>1, <1>2, <1>4, <2>1, <2>2, <2>3, <2>4 DEF TablesOK
<1>7. \A t \in DOMAIN j.l2, y \in Slots :
        j.l2[t][y] = None \/ (t \in DOMAIN i.l2 /\ j.l2[t][y] = i.l2[t][y])
  BY <1>1, <1>4
<1>8. None.kind = "none"
  BY DEF None
<1>9. DataOK(j)
  <2>1. \A t \in DOMAIN j.l2, y \in Slots :
          /\ j.l2[t][y].kind \in Kinds
          /\ HasData(j.l2[t][y]) => <<j.l2[t][y].host, j.l2[t][y].part>> \in DOMAIN i.data
          /\ j.l2[t][y].kind = "standard" => j.l2[t][y].part = 0
    BY <1>7, <1>8 DEF SoundImage, DataOK, HasData, Kinds
  <2> QED
    BY <1>4, <2>1 DEF SoundImage, DataOK
<1>10. CopiedOK(j)
  BY <1>7, <1>8 DEF SoundImage, CopiedOK, HasData
<1>11. ASSUME NEW c \in 0 .. i.virtual - 1
       PROVE  L2Entry(j, j.l1, c) = L2Entry(i, i.l1, c)
  <2>1. c \div L2Entries \in DOMAIN i.l1 /\ c % L2Entries \in Slots
    BY EntryFacts
  <2>2. CASE c \div L2Entries = x
    <3>1. L2Entry(i, i.l1, c) = None
      BY <2>2 DEF L2Entry
    <3>2. j.l1[c \div L2Entries] = k /\ j.l2[k] = fresh /\ k # 0
      BY <1>1, <1>2, <1>4, <2>1, <2>2
    <3>3. L2Entry(j, j.l1, c) = fresh[c % L2Entries]
      BY <3>2 DEF L2Entry
    <3> QED
      BY <2>1, <3>1, <3>3
  <2>3. CASE c \div L2Entries # x
    <3>1. j.l1[c \div L2Entries] = i.l1[c \div L2Entries]
      BY <1>2, <1>4, <2>1, <2>3
    <3>2. i.l1[c \div L2Entries] # 0 =>
            j.l2[i.l1[c \div L2Entries]] = i.l2[i.l1[c \div L2Entries]]
      BY <1>1, <1>4, <2>1 DEF SoundImage, TablesOK
    <3> QED
      BY <3>1, <3>2 DEF L2Entry
  <2> QED
    BY <2>2, <2>3
<1> QED
  BY <1>4, <1>5, <1>6, <1>9, <1>10, <1>11 DEF SoundImage, named, j

\* The contents of a cluster that had none: no entry names it yet.
LEMMA DataAdded ==
  ASSUME NEW i, SoundImage(i), NEW k \in Nat, k < i.len, <<k, 0>> \notin DOMAIN i.data,
         NEW content \in Contents
  PROVE  LET j == AddData(i, k, content)
         IN  /\ SoundImage(j)
             /\ j.virtual = i.virtual /\ j.len = i.len /\ j.backing = i.backing
             /\ j.l1 = i.l1 /\ j.l2 = i.l2
             /\ DOMAIN j.data = DOMAIN i.data \cup {<<k, 0>>} /\ j.data[<<k, 0>>] = content
             /\ \A d \in DOMAIN i.data : j.data[d] = i.data[d]
<1> DEFINE j     == AddData(i, k, content)
           grown == With(i.data, <<k, 0>>, content)
<1>1. grown = [d \in DOMAIN grown |-> grown[d]] /\ DOMAIN grown = DOMAIN i.data \cup {<<k, 0>>}
      /\ grown[<<k, 0>>] = content /\ \A d \in DOMAIN i.data : grown[d] = i.data[d]
  BY DEF With
<1> HIDE DEF grown
<1>2. j = [i EXCEPT !.data = grown]
  BY DEF grown, AddData
<1> HIDE DEF j
<1>3. /\ j = [f \in DOMAIN j |-> j[f]] /\ DOMAIN j = DOMAIN i
      /\ j.l1 = i.l1 /\ j.l2 = i.l2 /\ j.virtual = i.virtual /\ j.len = i.len
      /\ j.backing = i.backing /\ j.data = grown
  BY <1>2 DEF SoundImage, ShapeOK, Fields
<1>4. ShapeOK(j)
  BY <1>3 DEF SoundImage, ShapeOK
<1>5. TablesOK(j)
  BY <1>3 DEF SoundImage, TablesOK
<1>6. CopiedOK(j)
  BY <1>3 DEF SoundImage, CopiedOK
<1>7. DataOK(j)
  <2>1. \A d \in DOMAIN grown : d[1] \in Nat /\ d[1] < i.len /\ grown[d] \in Contents
    BY <1>1 DEF SoundImage, DataOK
  <2>2. \A t \in DOMAIN i.l2, y \in Slots :
          /\ i.l2[t][y].kind \in Kinds
          /\ HasData(i.l2[t][y]) => <<i.l2[t][y].host, i.l2[t][y].part>> \in DOMAIN grown
          /\ i.l2[t][y].kind = "standard" => i.l2[t][y].part = 0
    BY <1>1 DEF SoundImage, DataOK
  <2> QED
    BY <1>1, <1>3, <2>1, <2>2 DEF DataOK
<1> QED
  BY <1>1, <1>3, <1>4, <1>5, <1>6, <1>7 DEF SoundImage, j

\* The entry that reaches it: no other cluster's entry changes.
LEMMA EntryPut ==
  ASSUME NEW i, SoundImage(i), NEW c \in 0 .. i.virtual - 1, i.l1[c \div L2Entries] # 0,
         NEW k, <<k, 0>> \in DOMAIN i.data, Unnamed(i, k)
  PROVE  LET j == PutEntry(i, i.l1[c \div L2Entries], c % L2Entries, Standard(k))
         IN  /\ SoundImage(j)
             /\ j.virtual = i.virtual /\ j.backing = i.backing /\ j.l1 = i.l1 /\ j.data = i.data
             /\ \A d \in 0 .. i.virtual - 1 :
                  L2Entry(j, j.l1, d) = IF d = c THEN Standard(k) ELSE L2Entry(i, i.l1, d)
<1> DEFINE s   == i.l1[c \div L2Entries]
           q   == c % L2Entries
           put == [i.l2 EXCEPT ![s] = [i.l2[s] EXCEPT ![q] = Standard(k)]]
           j   == PutEntry(i, s, q, Standard(k))
<1>1. s \in DOMAIN i.l2 /\ q \in Slots /\ c \div L2Entries \in DOMAIN i.l1
  BY EntryFacts
<1>2. j = [i EXCEPT !.l2 = put]
  BY DEF PutEntry
<1> HIDE DEF s, q, j
<1>3. /\ DOMAIN put = DOMAIN i.l2 /\ put = [t \in DOMAIN put |-> put[t]]
      /\ \A t \in DOMAIN i.l2 : put[t] = [y \in Slots |-> put[t][y]]
      /\ \A t \in DOMAIN i.l2, y \in Slots :
           put[t][y] = IF t = s /\ y = q THEN Standard(k) ELSE i.l2[t][y]
  <2>1. i.l2[s] = [y \in Slots |-> i.l2[s][y]] /\ i.l2 = [t \in DOMAIN i.l2 |-> i.l2[t]]
    BY <1>1 DEF SoundImage, TablesOK
  <2>2. DOMAIN put = DOMAIN i.l2 /\ put[s] = [i.l2[s] EXCEPT ![q] = Standard(k)]
        /\ \A t \in DOMAIN i.l2 \ {s} : put[t] = i.l2[t]
    BY <1>1, <2>1
  <2>3. put = [t \in DOMAIN put |-> put[t]]
    BY <2>1
  <2>4. \A t \in DOMAIN i.l2 : i.l2[t] = [y \in Slots |-> i.l2[t][y]]
    BY DEF SoundImage, TablesOK
  <2> HIDE DEF put
  <2>5. \A t \in DOMAIN i.l2 \ {s} : /\ put[t] = [y \in Slots |-> put[t][y]]
                                     /\ \A y \in Slots : put[t][y] = i.l2[t][y]
    BY <2>2, <2>4
  <2>6. /\ put[s] = [y \in Slots |-> put[s][y]]
        /\ \A y \in Slots : put[s][y] = IF y = q THEN Standard(k) ELSE i.l2[s][y]
    BY <1>1, <2>1, <2>2
  <2> QED
    BY <2>2, <2>3, <2>5, <2>6
<1> HIDE DEF put
<1>11. \A t \in DOMAIN i.l2 : t \in Nat /\ t < i.len
  BY DEF SoundImage, TablesOK
<1>4. /\ j = [f \in DOMAIN j |-> j[f]] /\ DOMAIN j = DOMAIN i
      /\ j.l1 = i.l1 /\ j.l2 = put /\ j.virtual = i.virtual /\ j.len = i.len
      /\ j.backing = i.backing /\ j.data = i.data
  BY <1>2 DEF SoundImage, ShapeOK, Fields
<1>5. ShapeOK(j)
  BY <1>4 DEF SoundImage, ShapeOK
<1>6. TablesOK(j)
  <2>1. \A t \in DOMAIN put : t \in Nat /\ t < i.len /\ put[t] = [y \in Slots |-> put[t][y]]
    BY <1>3, <1>11
  <2>2. /\ i.l1 = [x \in DOMAIN i.l1 |-> i.l1[x]]
        /\ \A d \in 0 .. i.virtual - 1 : d \div L2Entries \in DOMAIN i.l1
        /\ \A x \in DOMAIN i.l1 : i.l1[x] # 0 => i.l1[x] \in DOMAIN put
        /\ \A x, y \in DOMAIN i.l1 : i.l1[x] # 0 /\ i.l1[x] = i.l1[y] => x = y
    BY <1>3 DEF SoundImage, TablesOK
  <2>3. put = [t \in DOMAIN put |-> put[t]]
    BY <1>3
  <2> QED
    BY <1>4, <2>1, <2>2, <2>3 DEF TablesOK
<1>7. Standard(k).kind = "standard" /\ Standard(k).host = k /\ Standard(k).part = 0
  BY DEF Standard
<1>8. DataOK(j)
  <2>1. \A t \in DOMAIN i.l2, y \in Slots :
          /\ put[t][y].kind \in Kinds
          /\ HasData(put[t][y]) => <<put[t][y].host, put[t][y].part>> \in DOMAIN i.data
          /\ put[t][y].kind = "standard" => put[t][y].part = 0
    <3> SUFFICES ASSUME NEW t \in DOMAIN i.l2, NEW y \in Slots
                 PROVE  /\ put[t][y].kind \in Kinds
                        /\ HasData(put[t][y]) => <<put[t][y].host, put[t][y].part>> \in DOMAIN i.data
                        /\ put[t][y].kind = "standard" => put[t][y].part = 0
      OBVIOUS
    <3>1. CASE t = s /\ y = q
      <4>1. put[t][y] = Standard(k)
        BY <1>3, <3>1
      <4> QED
        BY <1>7, <4>1 DEF Kinds
    <3>2. CASE ~(t = s /\ y = q)
      <4>1. put[t][y] = i.l2[t][y]
        BY <1>3, <3>2
      <4> QED
        BY <4>1 DEF SoundImage, DataOK
    <3> QED
      BY <3>1, <3>2
  <2>2. \A d \in DOMAIN i.data : d[1] \in Nat /\ d[1] < i.len /\ i.data[d] \in Contents
    BY DEF SoundImage, DataOK
  <2>3. i.data = [d \in DOMAIN i.data |-> i.data[d]]
    BY DEF SoundImage, DataOK
  <2> QED
    BY <1>3, <1>4, <2>1, <2>2, <2>3 DEF DataOK
<1>9. CopiedOK(j)
  <2> SUFFICES ASSUME NEW t \in DOMAIN i.l2, NEW r \in DOMAIN i.l2, NEW y \in Slots, NEW x \in Slots,
                      put[t][y].kind = "standard", put[t][y].copied,
                      HasData(put[r][x]), put[r][x].host = put[t][y].host
               PROVE  r = t /\ x = y
    BY <1>3, <1>4 DEF CopiedOK
  <2>1. HasData(put[t][y])
    BY DEF HasData
  <2>5. /\ put[t][y] = IF t = s /\ y = q THEN Standard(k) ELSE i.l2[t][y]
        /\ put[r][x] = IF r = s /\ x = q THEN Standard(k) ELSE i.l2[r][x]
    BY <1>3
  <2>6. /\ HasData(i.l2[t][y]) => i.l2[t][y].host # k
        /\ HasData(i.l2[r][x]) => i.l2[r][x].host # k
    BY DEF Unnamed
  <2>2. CASE t = s /\ y = q
    BY <1>7, <2>2, <2>5, <2>6
  <2>3. CASE ~(t = s /\ y = q) /\ r = s /\ x = q
    BY <1>7, <2>1, <2>3, <2>5, <2>6
  <2>4. CASE ~(t = s /\ y = q) /\ ~(r = s /\ x = q)
    BY <2>4, <2>5 DEF SoundImage, CopiedOK
  <2> QED
    BY <2>2, <2>3, <2>4
<1>10. ASSUME NEW d \in 0 .. i.virtual - 1
       PROVE  L2Entry(j, j.l1, d) = IF d = c THEN Standard(k) ELSE L2Entry(i, i.l1, d)
  <2>1. d \div L2Entries \in DOMAIN i.l1 /\ d % L2Entries \in Slots
        /\ (i.l1[d \div L2Entries] # 0 => i.l1[d \div L2Entries] \in DOMAIN i.l2)
    BY EntryFacts
  <2>2. CASE i.l1[d \div L2Entries] = 0
    <3>1. d # c
      BY <2>2
    <3> QED
      BY <1>4, <2>2, <3>1 DEF L2Entry
  <2>3. CASE i.l1[d \div L2Entries] # 0
    <3>1. L2Entry(j, j.l1, d) = put[i.l1[d \div L2Entries]][d % L2Entries]
          /\ L2Entry(i, i.l1, d) = i.l2[i.l1[d \div L2Entries]][d % L2Entries]
      BY <1>4, <2>3 DEF L2Entry
    <3>2. i.l1[d \div L2Entries] = s /\ d % L2Entries = q <=> d = c
      BY Located DEF s, q
    <3> QED
      BY <1>3, <2>1, <2>3, <3>1, <3>2
  <2> QED
    BY <2>2, <2>3
<1> QED
  BY <1>4, <1>5, <1>6, <1>8, <1>9, <1>10 DEF SoundImage, j, s, q

-----------------------------------------------------------------------------
(* The steps of a write *)

LEMMA EnsureKeeps ==
  ASSUME NEW w, WorkOK(w), w.ok, NEW c \in 0 .. w.img.virtual - 1
  PROVE  LET r == EnsureL2(w, c)
         IN  Unseen(w, r) /\ (r.ok => r.l1[c \div L2Entries] # 0)
<1> DEFINE x == c \div L2Entries
           k == w.img.len
           a == AllocateCluster(w)
           r == EnsureL2(w, c)
<1>1. x \in DOMAIN w.l1 /\ k \in Nat \ {0}
  BY EntryFacts DEF WorkOK, SoundImage, ShapeOK
<1>2. CASE w.l1[x] # 0
  <2>1. r = w
    BY <1>2 DEF EnsureL2
  <2>2. Unseen(w, w)
    BY DEF Unseen, WorkOK, SoundImage, ShapeOK
  <2> HIDE DEF r
  <2> QED
    BY <1>2, <2>1, <2>2 DEF r
<1>3. CASE w.l1[x] = 0
  <2>1. WorkOK(a) /\ a.l1 = w.l1 /\ SameCells(w.img, a.img) /\ a.img.len > k
    BY AllocateKeeps
  <2>2. Unseen(w, a)
    BY <2>1, SameIsUnseen
  <2>3. r = IF a.ok THEN [a EXCEPT !.img.l2 = With(a.img.l2, k, [z \in 0 .. L2Entries - 1 |-> None]),
                                   !.img.l1[x] = k, !.l1[x] = k]
                    ELSE a
    BY <1>3 DEF EnsureL2, Then
  <2>4. k \notin DOMAIN a.img.l2 /\ k < a.img.len /\ x \in DOMAIN a.img.l1 /\ a.img.l1[x] = 0
    <3>1. a.img.l2 = w.img.l2 /\ a.img.l1 = w.l1 /\ a.img.len \in Nat
      BY <2>1 DEF SameCells, WorkOK
    <3>2. k \notin DOMAIN w.img.l2
      <4>1. \A t \in DOMAIN w.img.l2 : t \in Nat /\ t < k
        BY DEF WorkOK, SoundImage, TablesOK
      <4> QED
        BY <1>1, <4>1
    <3> HIDE DEF a, r
    <3> QED
      BY <1>1, <1>3, <2>1, <3>1, <3>2
  <2> HIDE DEF a, r
  <2>5. CASE ~a.ok
    BY <2>2, <2>3, <2>5 DEF r
  <2>6. CASE a.ok
    <3> DEFINE i == a.img
               j == AddTable(i, x, k)
    <3>1. /\ SoundImage(j) /\ j.l1 = [i.l1 EXCEPT ![x] = k]
          /\ j.virtual = i.virtual /\ j.len = i.len /\ j.backing = i.backing /\ j.data = i.data
          /\ \A d \in 0 .. i.virtual - 1 : L2Entry(j, j.l1, d) = L2Entry(i, i.l1, d)
      <4>1. SoundImage(i)
        BY <2>1 DEF WorkOK
      <4>2. k < i.len /\ k \notin DOMAIN i.l2 /\ x \in DOMAIN i.l1 /\ i.l1[x] = 0
        BY <2>4
      <4>3. k \in Nat \ {0}
        BY <1>1
      <4> HIDE DEF i, x, k
      <4> QED
        BY <4>1, <4>2, <4>3, TableAdded
    <3>2. r = [img |-> j, l1 |-> [a.l1 EXCEPT ![x] = k], ok |-> a.ok]
      <4>1. a = [img |-> a.img, l1 |-> a.l1, ok |-> a.ok]
        BY <2>1 DEF WorkOK
      <4> QED
        BY <2>3, <2>6, <4>1 DEF Slots, AddTable
    <3> HIDE DEF j
    <3>3. WorkOK(r) /\ r.img = j
      BY <2>1, <3>1, <3>2 DEF WorkOK
    <3>4. Unseen(a, r)
      <4>1. j.len >= i.len
        BY <2>1, <3>1 DEF WorkOK, SoundImage, ShapeOK
      <4>2. r.l1 = j.l1 /\ a.l1 = i.l1
        BY <2>1, <3>1, <3>2 DEF WorkOK
      <4> HIDE DEF i
      <4>3. \A d \in 0 .. i.virtual - 1 : L2Entry(r.img, r.l1, d) = L2Entry(i, a.l1, d)
        BY <3>1, <3>3, <4>2
      <4> QED
        BY <3>1, <3>3, <4>1, <4>3 DEF Unseen, i
    <3>5. Unseen(w, r)
      BY <2>2, <3>4, UnseenTwice
    <3>6. r.l1[x] # 0
      BY <1>1, <2>1, <3>2
    <3> QED
      BY <3>5, <3>6 DEF r
  <2> QED
    BY <2>5, <2>6
<1> QED
  BY <1>2, <1>3

\* No entry names a cluster past the end of the file.
LEMMA NewUnnamed ==
  ASSUME NEW i, SoundImage(i), NEW j, j.l2 = i.l2
  PROVE  Unnamed(j, i.len)
<1> SUFFICES ASSUME NEW t \in DOMAIN i.l2, NEW y \in Slots, HasData(i.l2[t][y])
             PROVE  i.l2[t][y].host # i.len
  BY DEF Unnamed
<1> DEFINE e == i.l2[t][y]
           d == <<e.host, e.part>>
<1>1. d \in DOMAIN i.data
  BY DEF SoundImage, DataOK
<1>2. d[1] \in Nat /\ d[1] < i.len /\ i.len \in Nat
  BY <1>1 DEF SoundImage, DataOK, ShapeOK
<1>3. d[1] = e.host
  OBVIOUS
<1> HIDE DEF e, d
<1>4. e.host # i.len
  BY <1>2, <1>3
<1> QED
  BY <1>4 DEF e

LEMMA PutKeeps ==
  ASSUME NEW w, WorkOK(w), w.ok, NEW content \in Contents
  PROVE  LET k == w.img.len
             r == PutData(w, k, content)
         IN  /\ Unseen(w, r) /\ r.l1 = w.l1
             /\ r.ok => /\ <<k, 0>> \in DOMAIN r.img.data /\ r.img.data[<<k, 0>>] = content
                        /\ Unnamed(r.img, k)
<1> DEFINE k == w.img.len
           a == AllocateCluster(w)
           r == PutData(w, k, content)
<1>1. k \in Nat
  BY DEF WorkOK, SoundImage, ShapeOK
<1>2. WorkOK(a) /\ a.l1 = w.l1 /\ SameCells(w.img, a.img) /\ a.img.len > k
  BY AllocateKeeps
<1>3. Unseen(w, a)
  BY <1>2, SameIsUnseen
<1>4. r = IF a.ok THEN [a EXCEPT !.img.data = With(a.img.data, <<k, 0>>, content)] ELSE a
  BY DEF PutData, Then
<1>5. <<k, 0>> \notin DOMAIN a.img.data
  <2>1. \A d \in DOMAIN w.img.data : d[1] < k
    BY DEF WorkOK, SoundImage, DataOK
  <2>2. <<k, 0>>[1] = k
    OBVIOUS
  <2> QED
    BY <1>1, <1>2, <2>1, <2>2 DEF SameCells
<1>6. Unnamed(a.img, k)
  BY <1>2, NewUnnamed DEF WorkOK, SameCells
<1> HIDE DEF a, r
<1>7. CASE ~a.ok
  BY <1>2, <1>3, <1>4, <1>7 DEF r
<1>8. CASE a.ok
  <2> DEFINE i == a.img
             j == AddData(i, k, content)
  <2>1. /\ SoundImage(j)
        /\ j.virtual = i.virtual /\ j.len = i.len /\ j.backing = i.backing
        /\ j.l1 = i.l1 /\ j.l2 = i.l2
        /\ DOMAIN j.data = DOMAIN i.data \cup {<<k, 0>>} /\ j.data[<<k, 0>>] = content
        /\ \A d \in DOMAIN i.data : j.data[d] = i.data[d]
    <3>1. SoundImage(i) /\ k < i.len /\ <<k, 0>> \notin DOMAIN i.data
      BY <1>1, <1>2, <1>5 DEF WorkOK, SoundImage, ShapeOK
    <3>2. k \in Nat
      BY <1>1
    <3> HIDE DEF i, k
    <3> QED
      BY <3>1, <3>2, DataAdded
  <2>2. r = [img |-> j, l1 |-> a.l1, ok |-> a.ok]
    <3>1. a = [img |-> a.img, l1 |-> a.l1, ok |-> a.ok]
      BY <1>2 DEF WorkOK
    <3> QED
      BY <1>4, <1>8, <3>1 DEF AddData
  <2> HIDE DEF j
  <2>3. WorkOK(r) /\ r.img = j
    BY <1>2, <2>1, <2>2 DEF WorkOK
  <2>4. Unseen(a, r)
    BY <1>2, <2>1, <2>2, <2>3 DEF Unseen, WorkOK, SoundImage, ShapeOK, L2Entry
  <2>5. Unseen(w, r)
    BY <1>3, <2>4, UnseenTwice
  <2>6. Unnamed(r.img, k)
    BY <1>6, <2>1, <2>3 DEF Unnamed
  <2> QED
    BY <1>2, <2>1, <2>2, <2>3, <2>5, <2>6 DEF r
<1> QED
  BY <1>7, <1>8

\* A write to a cluster that may be written where it is changes one of its
\* units, which no other unit of the disk reads.
LEMMA InPlace ==
  ASSUME NEW i, SoundImage(i), NEW u \in 0 .. Size(i) - 1, NEW v \in Vals,
         L2Entry(i, i.l1, Cluster(u)).kind = "standard", L2Entry(i, i.l1, Cluster(u)).copied
  PROVE  LET j == PutUnit(i, L2Entry(i, i.l1, Cluster(u)).host, Within(u), v)
         IN  /\ SoundImage(j) /\ j.virtual = i.virtual /\ j.l1 = i.l1
             /\ \A w \in 0 .. Size(i) - 1 :
                  ReadCluster(j, j.l1, w) = IF w = u THEN v ELSE ReadCluster(i, i.l1, w)
<1> DEFINE c   == Cluster(u)
           e   == L2Entry(i, i.l1, c)
           h   == <<e.host, 0>>
           row == [i.data[h] EXCEPT ![Within(u)] = v]
           put == [i.data EXCEPT ![h] = row]
           j   == PutUnit(i, e.host, Within(u), v)
<1>1. /\ u \in Nat /\ c \in 0 .. i.virtual - 1 /\ Within(u) \in 0 .. ClusterUnits - 1
      /\ \A w \in Nat : Cluster(w) = Cluster(u) /\ Within(w) = Within(u) => w = u
  BY UnitFacts
<1>2. /\ i.l1[c \div L2Entries] # 0 /\ i.l1[c \div L2Entries] \in DOMAIN i.l2
      /\ c % L2Entries \in Slots
      /\ e = i.l2[i.l1[c \div L2Entries]][c % L2Entries]
      /\ h \in DOMAIN i.data
  <2>1. HasData(e) /\ e.kind = "standard"
    BY DEF HasData
  <2> HIDE DEF c
  <2> QED
    BY <1>1, <2>1, EntryFacts
<1>3. j = [i EXCEPT !.data = put]
  BY DEF PutUnit
<1> HIDE DEF j, h, e
<1>4. i.data = [d \in DOMAIN i.data |-> i.data[d]] /\ i.data[h] \in Contents
  BY <1>2 DEF SoundImage, DataOK
<1>5. row \in Contents /\ \A x \in 0 .. ClusterUnits - 1 :
                            row[x] = IF x = Within(u) THEN v ELSE i.data[h][x]
  BY <1>1, <1>4 DEF Contents
<1> HIDE DEF row
<1>6. DOMAIN put = DOMAIN i.data /\ put = [d \in DOMAIN put |-> put[d]]
      /\ \A d \in DOMAIN i.data : put[d] = IF d = h THEN row ELSE i.data[d]
  BY <1>4
<1> HIDE DEF put
<1>7. /\ j = [f \in DOMAIN j |-> j[f]] /\ DOMAIN j = DOMAIN i
      /\ j.l1 = i.l1 /\ j.l2 = i.l2 /\ j.virtual = i.virtual /\ j.len = i.len
      /\ j.backing = i.backing /\ j.data = put
  BY <1>3 DEF SoundImage, ShapeOK, Fields
<1>8. ShapeOK(j)
  BY <1>7 DEF SoundImage, ShapeOK
<1>9. TablesOK(j)
  BY <1>7 DEF SoundImage, TablesOK
<1>10. CopiedOK(j)
  BY <1>7 DEF SoundImage, CopiedOK
<1>11. DataOK(j)
  <2>1. \A d \in DOMAIN i.data : d[1] \in Nat /\ d[1] < i.len /\ i.data[d] \in Contents
    BY DEF SoundImage, DataOK
  <2>2. \A d \in DOMAIN put : d[1] \in Nat /\ d[1] < i.len /\ put[d] \in Contents
    BY <1>5, <1>6, <2>1
  <2>3. \A t \in DOMAIN i.l2, y \in Slots :
          /\ i.l2[t][y].kind \in Kinds
          /\ HasData(i.l2[t][y]) => <<i.l2[t][y].host, i.l2[t][y].part>> \in DOMAIN i.data
          /\ i.l2[t][y].kind = "standard" => i.l2[t][y].part = 0
    BY DEF SoundImage, DataOK
  <2> QED
    BY <1>6, <1>7, <2>2, <2>3 DEF DataOK
<1>12. ASSUME NEW w \in 0 .. Size(i) - 1
       PROVE  ReadCluster(j, j.l1, w) = IF w = u THEN v ELSE ReadCluster(i, i.l1, w)
  <2> DEFINE b == Cluster(w)
             f == L2Entry(i, i.l1, b)
             d == <<f.host, f.part>>
  <2>1. w \in Nat /\ b \in 0 .. i.virtual - 1 /\ Within(w) \in 0 .. ClusterUnits - 1
    BY UnitFacts
  <2>2. /\ f.kind \in Kinds
        /\ HasData(f) => /\ i.l1[b \div L2Entries] # 0
                         /\ i.l1[b \div L2Entries] \in DOMAIN i.l2 /\ b % L2Entries \in Slots
                         /\ f = i.l2[i.l1[b \div L2Entries]][b % L2Entries]
                         /\ d \in DOMAIN i.data
        /\ f.kind = "standard" => f.part = 0
    <3> HIDE DEF b
    <3> QED
      BY <2>1, EntryFacts
  <2>3. L2Entry(j, j.l1, b) = f /\ ReadBacking(j, w) = ReadBacking(i, w)
    <3> HIDE DEF b
    <3>1. L2Entry(j, j.l1, b) = f
      <4>1. j.l1 = i.l1 /\ j.l2 = i.l2
        BY <1>7
      <4> QED
        BY <4>1, Zenon DEF L2Entry
    <3>2. ReadBacking(j, w) = ReadBacking(i, w)
      BY <1>7 DEF ReadBacking
    <3> QED
      BY <3>1, <3>2
  <2> HIDE DEF f
  <2>4. CASE ~HasData(f)
    <3>1. w # u
      BY <2>4 DEF f, HasData
    <3>2. ReadCluster(j, j.l1, w) = ReadCluster(i, i.l1, w)
      BY <2>2, <2>3, <2>4 DEF ReadCluster, HasData, Kinds, f
    <3> QED
      BY <3>1, <3>2
  <2>5. CASE HasData(f)
    <3>1. ReadCluster(i, i.l1, w) = i.data[d][Within(w)]
          /\ ReadCluster(j, j.l1, w) = put[d][Within(w)]
      BY <1>7, <2>3, <2>5 DEF ReadCluster, HasData, f
    <3>2. CASE d = h
      <4>1. f.host = e.host
        BY <3>2 DEF h
      <4>2. /\ e.kind = "standard" /\ e.copied
        BY DEF e
      <4>3. i.l1[b \div L2Entries] = i.l1[c \div L2Entries] /\ b % L2Entries = c % L2Entries
        BY <1>2, <2>2, <2>5, <4>1, <4>2 DEF SoundImage, CopiedOK
      <4>4. b = c
        <5> HIDE DEF b, c
        <5> QED
          BY <1>1, <1>2, <2>1, <4>3, Located
      <4>5. Within(w) = Within(u) <=> w = u
        BY <1>1, <2>1, <4>4
      <4> QED
        BY <1>2, <1>5, <1>6, <2>1, <3>1, <3>2, <4>5
    <3>3. CASE d # h
      <4>1. w # u
        BY <2>2, <3>3 DEF h, e, f
      <4> QED
        BY <1>6, <2>2, <2>5, <3>1, <3>3, <4>1
    <3> QED
      BY <3>2, <3>3
  <2> QED
    BY <2>4, <2>5
<1> QED
  BY <1>7, <1>8, <1>9, <1>10, <1>11, <1>12 DEF SoundImage, j, e, h

\* A write that does not reach the disk, and one that does.
Missed(w, r) ==
  \A z \in 0 .. Size(w.img) - 1 : ReadCluster(r.img, r.l1, z) = ReadCluster(w.img, w.l1, z)

Wrote(w, r, u, v) ==
  /\ u < Size(w.img)
  /\ \A z \in 0 .. Size(w.img) - 1 :
       ReadCluster(r.img, r.l1, z) = IF z = u THEN v ELSE ReadCluster(w.img, w.l1, z)

Answered(w, r, u, v) ==
  /\ WorkOK(r) /\ r.img.virtual = w.img.virtual
  /\ Missed(w, r) \/ Wrote(w, r, u, v)

LEMMA RefusedAnswers ==
  ASSUME NEW w, WorkOK(w), NEW u, NEW v
  PROVE  Answered(w, Refused(w), u, v)
<1> DEFINE r == Refused(w)
<1>1. w = [img |-> w.img, l1 |-> w.l1, ok |-> w.ok] /\ w.ok \in BOOLEAN
  BY DEF WorkOK
<1>2. r = [w EXCEPT !.ok = FALSE]
  BY DEF Refused
<1> HIDE DEF r
<1>3. /\ r = [img |-> r.img, l1 |-> r.l1, ok |-> r.ok]
      /\ r.img = w.img /\ r.l1 = w.l1 /\ r.ok = FALSE
  BY <1>1, <1>2
<1>4. WorkOK(r)
  BY <1>3 DEF WorkOK
<1> QED
  BY <1>3, <1>4 DEF Answered, Missed, r

\* What a fresh cluster is filled with is the contents of a cluster.
LEMMA FreshContents ==
  ASSUME NEW w, WorkOK(w), NEW u \in 0 .. Size(w.img) - 1, NEW v \in Vals
  PROVE  [x \in 0 .. ClusterUnits - 1 |->
            IF x = Within(u) THEN v
            ELSE ReadCluster(w.img, w.l1, Cluster(u) * ClusterUnits + x)] \in Contents
<1> DEFINE c == Cluster(u)
<1> SUFFICES ASSUME NEW x \in 0 .. ClusterUnits - 1
             PROVE  ReadCluster(w.img, w.l1, c * ClusterUnits + x) \in Vals
  BY DEF Contents
<1>1. c \in 0 .. w.img.virtual - 1
  BY UnitFacts DEF WorkOK
<1>2. c * ClusterUnits + x \in 0 .. Size(w.img) - 1
  <2> HIDE DEF c
  <2>1. w.img.virtual \in Nat /\ c \in Nat /\ c + 1 <= w.img.virtual
    BY <1>1 DEF WorkOK, SoundImage, ShapeOK
  <2>2. ClusterUnits \in Nat \ {0}
    BY ShapeAssumption
  <2>3. c * ClusterUnits + ClusterUnits <= w.img.virtual * ClusterUnits
    BY <2>1, <2>2
  <2>4. c * ClusterUnits \in Nat /\ w.img.virtual * ClusterUnits \in Nat
    BY <2>1, <2>2
  <2> QED
    BY <2>2, <2>3, <2>4 DEF Size
<1> QED
  BY <1>2, ReadsVals DEF WorkOK

\* A cluster seeded with what it read before, a unit of it changed, is the
\* disk with that unit changed, however many clusters were allocated for it.
LEMMA FreshAnswers ==
  ASSUME NEW w, WorkOK(w), w.ok, NEW u \in 0 .. Size(w.img) - 1, NEW v \in Vals
  PROVE  Answered(w, WriteFresh(w, L2Entry(w.img, w.l1, Cluster(u)), u, v), u, v)
<1> DEFINE c       == Cluster(u)
           e       == L2Entry(w.img, w.l1, c)
           old(x)  == ReadCluster(w.img, w.l1, c * ClusterUnits + x)
           content == [x \in 0 .. ClusterUnits - 1 |-> IF x = Within(u) THEN v ELSE old(x)]
           y       == EnsureL2(w, c)
           k       == y.img.len
           z       == PutData(y, k, content)
           t       == FreeCompressed(z, e)
           r       == WriteFresh(w, e, u, v)
<1>1. r = IF ~y.ok THEN y ELSE IF ~z.ok THEN z ELSE IF ~t.ok THEN t ELSE Reach(t, c, k)
  BY DEF WriteFresh, Then
<1>2. u \in Nat /\ c \in 0 .. w.img.virtual - 1 /\ Within(u) \in 0 .. ClusterUnits - 1
  BY UnitFacts DEF WorkOK
<1>3. content \in Contents
  BY FreshContents
<1>4. Unseen(w, y) /\ (y.ok => y.l1[c \div L2Entries] # 0)
  <2> HIDE DEF c
  <2> QED
    BY <1>2, EnsureKeeps
<1> HIDE DEF y, c
<1>5. CASE ~y.ok
  <2>1. r = y
    BY <1>1, <1>5
  <2> HIDE DEF r
  <2>2. Missed(w, y)
    BY <1>4, UnseenReads DEF Missed
  <2> QED
    BY <1>4, <2>1, <2>2 DEF Answered, Unseen, r, c, e
<1>6. CASE y.ok
  <2>1. WorkOK(y)
    BY <1>4 DEF Unseen
  <2>2. /\ Unseen(y, z) /\ z.l1 = y.l1
        /\ z.ok => /\ <<k, 0>> \in DOMAIN z.img.data /\ z.img.data[<<k, 0>>] = content
                   /\ Unnamed(z.img, k)
    <3> HIDE DEF content
    <3> QED
      BY <1>3, <1>6, <2>1, PutKeeps
  <2> HIDE DEF z, content, k
  <2>3. Unseen(w, z) /\ WorkOK(z)
    BY <1>4, <2>2, UnseenTwice DEF Unseen
  <2>4. CASE ~z.ok
    <3>1. r = z
      BY <1>1, <1>6, <2>4
    <3> HIDE DEF r
    <3>2. Missed(w, z)
      BY <2>3, UnseenReads DEF Missed
    <3> QED
      BY <2>3, <3>1, <3>2 DEF Answered, Unseen, r, c, e
  <2>5. CASE z.ok
    <3>1. WorkOK(t) /\ t.l1 = z.l1 /\ SameCells(z.img, t.img)
      <4>1. CASE e.kind = "compressed"
        <5>1. t = SetRefcount(z, e.host, 0)
          BY <4>1 DEF FreeCompressed
        <5> HIDE DEF t, e
        <5> QED
          BY <2>3, <5>1, RefcountKeeps
      <4>2. CASE e.kind # "compressed"
        <5>1. t = z
          BY <4>2 DEF FreeCompressed
        <5>2. SameCells(z.img, z.img)
          BY <2>3 DEF WorkOK, SoundImage, ShapeOK, SameCells
        <5> HIDE DEF t
        <5> QED
          BY <2>3, <5>1, <5>2
      <4> QED
        BY <4>1, <4>2
    <3> HIDE DEF t
    <3>2. Unseen(w, t)
      BY <2>3, <3>1, SameIsUnseen, UnseenTwice
    <3>3. CASE ~t.ok
      <4>1. r = t
        BY <1>1, <1>6, <2>5, <3>3
      <4> HIDE DEF r
      <4>2. Missed(w, t)
        BY <3>2, UnseenReads DEF Missed
      <4> QED
        BY <3>1, <3>2, <4>1, <4>2 DEF Answered, Unseen, r, c, e
    <3>4. CASE t.ok
      <4> DEFINE i == t.img
                 j == PutEntry(i, i.l1[c \div L2Entries], c % L2Entries, Standard(k))
      <4>1. SoundImage(i) /\ t.l1 = i.l1 /\ t = [img |-> i, l1 |-> t.l1, ok |-> t.ok]
        BY <3>1 DEF WorkOK
      <4>2. r = Reach(t, c, k)
        BY <1>1, <1>6, <2>5, <3>4
      <4> HIDE DEF r
      <4>3. r = [img |-> j, l1 |-> i.l1, ok |-> t.ok]
        BY <4>1, <4>2 DEF Reach, PutEntry
      <4>4. /\ c \in 0 .. i.virtual - 1 /\ i.virtual = w.img.virtual
            /\ i.l1[c \div L2Entries] # 0
            /\ <<k, 0>> \in DOMAIN i.data /\ i.data[<<k, 0>>] = content /\ Unnamed(i, k)
        BY <1>2, <1>4, <1>6, <2>2, <2>5, <3>1, <3>2, <4>1 DEF SameCells, Unnamed, Unseen
      <4> HIDE DEF i
      <4>5. /\ SoundImage(j)
            /\ j.virtual = i.virtual /\ j.backing = i.backing /\ j.l1 = i.l1 /\ j.data = i.data
            /\ \A d \in 0 .. i.virtual - 1 :
                 L2Entry(j, j.l1, d) = IF d = c THEN Standard(k) ELSE L2Entry(i, i.l1, d)
        BY <4>1, <4>4, EntryPut
      <4> HIDE DEF j
      <4>6. WorkOK(r) /\ r.img = j /\ r.l1 = j.l1
        BY <3>1, <4>1, <4>3, <4>5 DEF WorkOK
      <4>7. ASSUME NEW a \in 0 .. Size(w.img) - 1
            PROVE  ReadCluster(j, j.l1, a) = IF a = u THEN v ELSE ReadCluster(w.img, w.l1, a)
        <5>1. /\ a \in Nat /\ Cluster(a) \in 0 .. w.img.virtual - 1
              /\ Within(a) \in 0 .. ClusterUnits - 1
              /\ a = Cluster(a) * ClusterUnits + Within(a)
              /\ \A b \in Nat : Cluster(b) = Cluster(a) /\ Within(b) = Within(a) => b = a
          BY UnitFacts DEF WorkOK
        <5>2. CASE Cluster(a) = c
          <6>1. L2Entry(j, j.l1, Cluster(a)) = Standard(k)
            BY <4>4, <4>5, <5>1, <5>2
          <6>2. ReadCluster(j, j.l1, a) = content[Within(a)]
            BY <4>4, <4>5, <6>1 DEF ReadCluster, Standard
          <6>3. Within(a) = Within(u) <=> a = u
            BY <1>2, <5>1, <5>2 DEF c
          <6>4. ReadCluster(w.img, w.l1, a) = old(Within(a))
            BY <5>1, <5>2
          <6> QED
            BY <5>1, <6>2, <6>3, <6>4 DEF content
        <5>3. CASE Cluster(a) # c
          <6>1. a # u
            BY <5>3 DEF c
          <6>2. L2Entry(j, j.l1, Cluster(a)) = L2Entry(i, i.l1, Cluster(a))
            BY <4>4, <4>5, <5>1, <5>3
          <6>3. ReadCluster(j, j.l1, a) = ReadCluster(i, i.l1, a)
            BY <4>5, <6>2 DEF ReadCluster, ReadBacking
          <6>4. ReadCluster(i, i.l1, a) = ReadCluster(w.img, w.l1, a)
            BY <3>2, <4>1, UnseenReads DEF i
          <6> QED
            BY <6>1, <6>3, <6>4
        <5> QED
          BY <5>2, <5>3
      <4>8. u < Size(w.img)
        BY <1>2, ShapeAssumption DEF Size, WorkOK, SoundImage, ShapeOK
      <4>9. Wrote(w, r, u, v)
        BY <4>6, <4>7, <4>8 DEF Wrote
      <4> QED
        BY <4>4, <4>5, <4>6, <4>9 DEF Answered, r, c, e
    <3> QED
      BY <3>3, <3>4
  <2> QED
    BY <2>4, <2>5
<1> QED
  BY <1>5, <1>6

LEMMA PlaceAnswers ==
  ASSUME NEW w, WorkOK(w), w.ok, NEW u \in 0 .. Size(w.img) - 1, NEW v \in Vals,
         L2Entry(w.img, w.l1, Cluster(u)).kind = "standard"
  PROVE  Answered(w, WriteInPlace(w, L2Entry(w.img, w.l1, Cluster(u)), u, v), u, v)
<1> DEFINE e == L2Entry(w.img, w.l1, Cluster(u))
           i == w.img
           r == WriteInPlace(w, e, u, v)
           j == PutUnit(i, e.host, Within(u), v)
<1>1. CASE e.copied
  <2>1. SoundImage(i) /\ w.l1 = i.l1 /\ w = [img |-> i, l1 |-> i.l1, ok |-> w.ok]
    BY DEF WorkOK
  <2>2. r = [img |-> j, l1 |-> i.l1, ok |-> w.ok]
    BY <1>1, <2>1 DEF WriteInPlace, PutUnit
  <2>3. /\ SoundImage(j) /\ j.virtual = i.virtual /\ j.l1 = i.l1
        /\ \A a \in 0 .. Size(i) - 1 :
             ReadCluster(j, j.l1, a) = IF a = u THEN v ELSE ReadCluster(i, i.l1, a)
    BY <1>1, <2>1, InPlace
  <2> HIDE DEF r, j
  <2>4. WorkOK(r) /\ r.img = j /\ r.l1 = j.l1
    BY <2>1, <2>2, <2>3 DEF WorkOK
  <2>5. u < Size(w.img)
    BY UnitFacts, ShapeAssumption DEF Size, WorkOK, SoundImage, ShapeOK
  <2>6. Wrote(w, r, u, v)
    BY <2>1, <2>3, <2>4, <2>5 DEF Wrote
  <2> QED
    BY <2>3, <2>4, <2>6 DEF Answered, r
<1>2. CASE ~e.copied
  BY <1>2, RefusedAnswers DEF WriteInPlace
<1> QED
  BY <1>1, <1>2

\* Whatever a write meets, it changes the unit it is to or none.
LEMMA WriteAnswers ==
  ASSUME NEW w, WorkOK(w), w.ok, NEW u \in 0 .. Size(w.img), NEW v \in Vals
  PROVE  Answered(w, WriteCluster(w, u, v), u, v)
<1>1. CASE ~w.img.plain \/ u >= Size(w.img)
  BY <1>1, RefusedAnswers DEF WriteCluster
<1>2. CASE ~(~w.img.plain \/ u >= Size(w.img))
  <2>1. u \in 0 .. Size(w.img) - 1
    BY <1>2, ShapeAssumption DEF Size, WorkOK, SoundImage, ShapeOK
  <2> QED
    BY <1>2, <2>1, FreshAnswers, PlaceAnswers DEF WriteCluster, WriteOver
<1> QED
  BY <1>1, <1>2

-----------------------------------------------------------------------------
(* The driver is the disk it presents *)

LEMMA StepQcow ==
  ASSUME \A i \in Images : SoundImage(i), IInv, [Next]_vars
  PROVE  IInv' /\ [Guest!Next]_<<View(img, l1), View(keptImg, keptL1)>>
<1>1. CASE \E u \in 0 .. Size(img), v \in Vals : Stage(u, v)
  <2> PICK u \in 0 .. Size(img), v \in Vals : Stage(u, v)
    BY <1>1
  <2> DEFINE r == WriteCluster(Work, u, v)
  <2>1. WorkOK(Work) /\ Work.ok /\ Work.img = img /\ Work.l1 = l1
    BY DEF Work, WorkOK, IInv
  <2>2. Answered(Work, r, u, v)
    BY <2>1, WriteAnswers
  <2>3. img' = r.img /\ l1' = r.l1 /\ keptImg' = keptImg /\ keptL1' = keptL1
    BY DEF Stage, Staged
  <2> HIDE DEF r
  <2>4. IInv'
    BY <2>1, <2>2, <2>3 DEF Answered, WorkOK, IInv
  <2>5. Size(img') = Size(img) /\ View(keptImg, keptL1)' = View(keptImg, keptL1)
    BY <2>1, <2>2, <2>3 DEF Answered, Size, View
  <2>6. CASE Missed(Work, r)
    <3>1. View(img, l1)' = View(img, l1)
      BY <2>1, <2>3, <2>5, <2>6 DEF Missed, View
    <3> QED
      BY <2>4, <2>5, <3>1
  <2>7. CASE Wrote(Work, r, u, v)
    <3>1. u \in 0 .. Size(img) - 1
      BY <2>1, <2>7, ShapeAssumption DEF Wrote, Size, IInv, SoundImage, ShapeOK
    <3>2. View(img, l1)' = [View(img, l1) EXCEPT ![u] = v]
      BY <2>1, <2>3, <2>5, <2>7, <3>1 DEF Wrote, View
    <3>3. Guest!Write(u, v)
      BY <2>5, <3>2 DEF Guest!Write
    <3> QED
      BY <2>4, <3>1, <3>3 DEF Guest!Next
  <2> QED
    BY <2>2, <2>6, <2>7 DEF Answered
<1>2. CASE Land
  BY <1>2 DEF Land, IInv, Guest!Next, Guest!Commit
<1>3. CASE Discard
  BY <1>3 DEF Discard, IInv, Guest!Next, Guest!Rollback
<1>4. CASE UNCHANGED vars
  BY <1>4 DEF vars, IInv, View
<1> QED
  BY <1>1, <1>2, <1>3, <1>4 DEF Next

\* The driver is the disk it presents: whatever it allocates - an L2 table,
\* refcount blocks and the blocks that count those - a write reaches the one
\* unit it is to or, refused part-way, none; the L1 table it keeps is the
\* file's; and a batch put back leaves no trace.
THEOREM GuestTheorem ==
  ASSUME \A i \in Images : SoundImage(i)
  PROVE  Spec => GuestSpec
<1>1. Init => IInv
  BY DEF Init, IInv
<1>2. IInv /\ [Next]_vars => IInv'
  BY StepQcow
<1>3. IInv /\ [Next]_vars => [Guest!Next]_<<View(img, l1), View(keptImg, keptL1)>>
  BY StepQcow
<1>4. Init => Guest!Init
  <2> SUFFICES ASSUME Init PROVE Guest!Init
    OBVIOUS
  <2>1. SoundImage(img) /\ l1 = img.l1 /\ keptImg = img /\ keptL1 = l1
    BY DEF Init
  <2>2. View(img, l1) \in [0 .. Size(img) - 1 -> Vals]
    BY <2>1, ReadsVals DEF View
  <2> QED
    BY <2>1, <2>2 DEF Guest!Init
<1> QED
  BY <1>1, <1>2, <1>3, <1>4, PTL DEF Spec, GuestSpec, Guest!Spec

-----------------------------------------------------------------------------
(* What the refcounts say *)

CountFields == {"fixed", "table", "counts", "ragged"}
Offsets     == 0 .. RefEntries - 1
Indices     == 0 .. TableLen - 1

\* The refcount table names blocks of the file, each once.
CountersOK(i) ==
  /\ i = [f \in DOMAIN i |-> i[f]] /\ CountFields \cup Fields \subseteq DOMAIN i
  /\ i.len \in Nat \ {0}
  /\ i.table = [b \in Indices |-> i.table[b]]
  /\ \A b \in Indices : i.table[b] # 0 => i.table[b] \in DOMAIN i.counts
  /\ \A b, d \in Indices : i.table[b] # 0 /\ i.table[b] = i.table[d] => b = d
  /\ i.counts = [b \in DOMAIN i.counts |-> i.counts[b]]
  /\ \A b \in DOMAIN i.counts : b \in Nat /\ b < i.len /\ i.counts[b] \in [Offsets -> Nat]

\* Two clusters with one count are one cluster.
LEMMA CountPlace ==
  ASSUME NEW k \in Nat, NEW c \in Nat, BlockOf(k) = BlockOf(c), k % RefEntries = c % RefEntries
  PROVE  k = c
BY ShapeAssumption DEF BlockOf

LEMMA CountFacts ==
  ASSUME NEW i, CountersOK(i), NEW k \in Nat
  PROVE  /\ BlockOf(k) \in Nat /\ k % RefEntries \in Offsets
         /\ Covered(i, k) => /\ BlockOf(k) \in Indices /\ i.table[BlockOf(k)] # 0
                             /\ i.table[BlockOf(k)] \in DOMAIN i.counts
                             /\ Count(i, k) = i.counts[i.table[BlockOf(k)]][k % RefEntries]
         /\ Count(i, k) \in Nat
<1>1. BlockOf(k) \in Nat /\ k % RefEntries \in Offsets
  BY ShapeAssumption DEF BlockOf, Offsets
<1>2. CASE Covered(i, k)
  <2>1. BlockOf(k) \in Indices /\ i.table[BlockOf(k)] # 0
    BY <1>1, <1>2, ShapeAssumption DEF Covered, Indices
  <2>2. i.table[BlockOf(k)] \in DOMAIN i.counts
    BY <2>1 DEF CountersOK
  <2>3. i.counts[i.table[BlockOf(k)]] \in [Offsets -> Nat]
    BY <2>2 DEF CountersOK
  <2> QED
    BY <1>1, <1>2, <2>1, <2>2, <2>3 DEF Count
<1>3. CASE ~Covered(i, k)
  BY <1>1, <1>3 DEF Count
<1> QED
  BY <1>2, <1>3

\* A count put is the one count that changes.
LEMMA CountPut ==
  ASSUME NEW i, CountersOK(i), NEW k \in Nat, Covered(i, k), NEW v \in Nat
  PROVE  LET j == PutCount(i, k, v)
         IN  /\ CountersOK(j) /\ j.len = i.len /\ j.table = i.table /\ j.fixed = i.fixed
             /\ \A c \in Nat : Count(j, c) = IF c = k THEN v ELSE Count(i, c)
<1> DEFINE b   == i.table[BlockOf(k)]
           x   == k % RefEntries
           row == [i.counts[b] EXCEPT ![x] = v]
           put == [i.counts EXCEPT ![b] = row]
           j   == PutCount(i, k, v)
<1>1. b \in DOMAIN i.counts /\ b # 0 /\ BlockOf(k) \in Indices /\ x \in Offsets
  BY CountFacts
<1>2. j = [i EXCEPT !.counts = put]
  BY DEF PutCount
<1>3. i.counts[b] \in [Offsets -> Nat]
  BY <1>1 DEF CountersOK
<1>4. row \in [Offsets -> Nat] /\ \A y \in Offsets : row[y] = IF y = x THEN v ELSE i.counts[b][y]
  BY <1>1, <1>3
<1> HIDE DEF b, x, row, j
<1>5. /\ DOMAIN put = DOMAIN i.counts /\ put = [d \in DOMAIN put |-> put[d]]
      /\ \A d \in DOMAIN i.counts : put[d] = IF d = b THEN row ELSE i.counts[d]
  BY <1>1 DEF CountersOK
<1> HIDE DEF put
<1>6. /\ j = [f \in DOMAIN j |-> j[f]] /\ DOMAIN j = DOMAIN i /\ j.len = i.len
      /\ j.table = i.table /\ j.fixed = i.fixed /\ j.counts = put
  BY <1>2 DEF CountersOK, CountFields, Fields
<1>7. CountersOK(j)
  <2>1. \A d \in DOMAIN put : d \in Nat /\ d < i.len /\ put[d] \in [Offsets -> Nat]
    BY <1>4, <1>5 DEF CountersOK
  <2> QED
    BY <1>5, <1>6, <2>1 DEF CountersOK
<1>8. ASSUME NEW c \in Nat
      PROVE  Count(j, c) = IF c = k THEN v ELSE Count(i, c)
  <2>1. Covered(j, c) = Covered(i, c)
    BY <1>6 DEF Covered
  <2>2. CASE ~Covered(i, c)
    BY <2>1, <2>2 DEF Count
  <2>3. CASE Covered(i, c)
    <3> DEFINE d == i.table[BlockOf(c)]
               y == c % RefEntries
    <3>1. BlockOf(c) \in Indices /\ d # 0 /\ d \in DOMAIN i.counts /\ y \in Offsets
          /\ Count(i, c) = i.counts[d][y] 
      BY <2>3, CountFacts
    <3>2. Count(j, c) = put[d][y]
      BY <1>6, <2>1, <2>3 DEF Count
    <3>3. d = b => BlockOf(c) = BlockOf(k)
      BY <1>1, <3>1 DEF CountersOK, b
    <3>4. d = b /\ y = x => c = k
      BY <3>3, CountPlace DEF x
    <3>5. c = k => d = b /\ y = x
      BY DEF b, x
    <3> HIDE DEF d, y
    <3> QED
      BY <1>4, <1>5, <3>1, <3>2, <3>4, <3>5
  <2> QED
    BY <2>2, <2>3
<1> QED
  BY <1>6, <1>7, <1>8 DEF j

Named(i, b) == b < TableLen /\ i.table[b] # 0

\* The blocks of the run are each a new one's, no two alike, and count every
\* cluster of the run that none counted before.
LEMMA RunServes ==
  ASSUME NEW i, i.len \in Nat, NEW k \in Nat, k < i.len, ~Covered(i, k)
  PROVE  LET n == BlocksNeeded(i, k)
         IN  /\ n \in 1 .. 3
             /\ \A m \in 0 .. n - 1 : Served(i, k, m) \in Nat /\ ~Named(i, Served(i, k, m))
             /\ \A a, b \in 0 .. n - 1 : Served(i, k, a) = Served(i, k, b) => a = b
             /\ \A m \in 0 .. n - 1 : \/ \E a \in 0 .. n - 1 : BlockOf(i.len + m) = Served(i, k, a)
                                      \/ Covered(i, i.len + m)
             /\ Served(i, k, 0) = BlockOf(k)
<1> DEFINE n == BlocksNeeded(i, k)
           s(m) == Served(i, k, m)
<1>2. n \in 1 .. 3 /\ Described(i, k, n) /\ \A j \in 1 .. n - 1 : ~Described(i, k, j)
  BY RunEnds
<1> HIDE DEF n
<1>3. s(0) = BlockOf(k) /\ \A m \in 1 .. n : s(m) = BlockOf(i.len + m - 1)
  BY <1>2 DEF Served
<1>4. BlockOf(k) \in Nat /\ \A m \in 1 .. n : BlockOf(i.len + m - 1) \in Nat
  BY <1>2, ShapeAssumption DEF BlockOf
<1>5. \A m \in 0 .. n - 1 : s(m) \in Nat /\ ~Named(i, s(m))
  <2> SUFFICES ASSUME NEW m \in 0 .. n - 1 PROVE s(m) \in Nat /\ ~Named(i, s(m))
    OBVIOUS
  <2>1. CASE m = 0
    BY <1>3, <1>4, <2>1 DEF Named, Covered
  <2>2. CASE m # 0
    <3>1. m \in 1 .. n - 1 /\ ~Described(i, k, m)
      BY <1>2, <2>2
    <3> QED
      BY <1>2, <1>3, <1>4, <3>1 DEF Described, Named, Covered
  <2> QED
    BY <2>1, <2>2
<1>6. \A m \in 1 .. n - 1 : s(m) # s(m - 1)
  BY <1>2 DEF Described
<1>7. ASSUME NEW a \in 0 .. n - 1, NEW b \in 0 .. n - 1, s(a) = s(b), a < b
      PROVE  FALSE
  <2>1. CASE b = a + 1
    BY <1>2, <1>6, <1>7, <2>1
  <2>2. CASE b = a + 2
    <3>1. a = 0 /\ b = 2 /\ n = 3
      BY <1>2, <2>2
    <3>2. s(1) = BlockOf(i.len) /\ s(2) = BlockOf(i.len + 1) /\ s(0) = BlockOf(k)
      BY <1>3, <3>1
    <3>3. s(2) # s(1)
      BY <1>6, <3>1
    <3>4. BlockOf(k) <= BlockOf(i.len) /\ BlockOf(i.len) <= BlockOf(i.len + 1)
      BY ShapeAssumption DEF BlockOf
    <3> HIDE DEF s
    <3>5. BlockOf(k) \in Nat /\ BlockOf(i.len) \in Nat /\ BlockOf(i.len + 1) \in Nat
      BY ShapeAssumption DEF BlockOf
    <3> QED
      BY <1>7, <3>1, <3>2, <3>3, <3>4, <3>5
  <2> QED
    BY <1>2, <1>7, <2>1, <2>2
<1>8. ASSUME NEW m \in 0 .. n - 1
      PROVE  (\E a \in 0 .. n - 1 : BlockOf(i.len + m) = s(a)) \/ Covered(i, i.len + m)
  <2>1. CASE m = n - 1
    <3>1. s(n) = s(n - 1) \/ Covered(i, i.len + n - 1)
      BY <1>2 DEF Described
    <3>2. s(n) = BlockOf(i.len + n - 1) /\ i.len + n - 1 = i.len + m
      BY <1>2, <1>3, <2>1
    <3> QED
      BY <1>2, <2>1, <3>1, <3>2
  <2>2. CASE m # n - 1
    <3>1. m + 1 \in 0 .. n - 1 /\ m + 1 \in 1 .. n /\ i.len + (m + 1) - 1 = i.len + m
      BY <1>2, <2>2
    <3> HIDE DEF s
    <3> QED
      BY <1>3, <3>1
  <2> QED
    BY <2>1, <2>2
<1>9. \A a, b \in 0 .. n - 1 : s(a) = s(b) => a = b
  BY <1>2, <1>7
<1> QED
  BY <1>2, <1>3, <1>5, <1>8, <1>9 DEF n

\* A run of refcount blocks at the end of the file: each is named once and
\* counted once, and no other count changes.
LEMMA CountRun ==
  ASSUME NEW i, CountersOK(i), NEW k \in Nat, k < i.len, ~Covered(i, k), TableCovers(i, k)
  PROVE  LET j    == WithRun(i, k, BlocksNeeded(i, k))
             news == i.len .. j.len - 1
         IN  /\ CountersOK(j) /\ j.len > i.len /\ j.fixed = i.fixed /\ Covered(j, k)
             /\ \A b \in Indices : \/ j.table[b] = i.table[b] /\ j.table[b] \notin news
                                   \/ i.table[b] = 0 /\ j.table[b] \in news
             /\ \A c \in news : \E b \in Indices : j.table[b] = c
             /\ \A c \in Nat : Count(j, c) = IF c \in news THEN 1 ELSE Count(i, c)
<1> DEFINE n    == BlocksNeeded(i, k)
           s(m) == Served(i, k, m)
           news == i.len .. i.len + n - 1
           t    == [b \in DOMAIN i.table |->
                      IF \E m \in 1 .. n : b = Served(i, k, m - 1)
                        THEN i.len + (CHOOSE m \in 1 .. n : b = Served(i, k, m - 1)) - 1
                        ELSE i.table[b]]
           z    == [b \in DOMAIN i.counts \cup news |->
                      IF b \in DOMAIN i.counts THEN i.counts[b] ELSE Zeroes]
           a    == Appended(i, k, n)
           y    == [b \in DOMAIN a.counts |->
                      [x \in 0 .. RefEntries - 1 |->
                         IF \E c \in news : a.table[BlockOf(c)] = b /\ c % RefEntries = x
                           THEN 1 ELSE a.counts[b][x]]]
           j    == WithRun(i, k, n)
<1>1. i.len \in Nat \ {0}
  BY DEF CountersOK
<1>2. /\ n \in 1 .. 3
      /\ \A m \in 0 .. n - 1 : s(m) \in Nat /\ ~Named(i, s(m))
      /\ \A p, q \in 0 .. n - 1 : s(p) = s(q) => p = q
      /\ \A m \in 0 .. n - 1 : \/ \E p \in 0 .. n - 1 : BlockOf(i.len + m) = s(p)
                               \/ Covered(i, i.len + m)
      /\ s(0) = BlockOf(k)
  BY <1>1, RunServes
<1>3. \A m \in 0 .. n - 1 : s(m) < TableLen
  BY DEF TableCovers
<1>4. \A m \in 0 .. n - 1 : s(m) \in Indices /\ i.table[s(m)] = 0
  BY <1>2, <1>3, ShapeAssumption DEF Indices, Named
<1>5. a = [i EXCEPT !.len = i.len + n, !.ragged = FALSE, !.table = t, !.counts = z]
  BY DEF Appended
<1>6. j = [a EXCEPT !.counts = y]
  BY DEF WithRun, CountOnce
<1>7. DOMAIN i.table = Indices
  BY DEF CountersOK
<1>8. \A m \in 0 .. n - 1 : t[s(m)] = i.len + m
  <2> SUFFICES ASSUME NEW m \in 0 .. n - 1 PROVE t[s(m)] = i.len + m
    OBVIOUS
  <2> DEFINE P(p) == p \in 1 .. n /\ s(m) = s(p - 1)
  <2>1. m \in Nat /\ m + 1 \in 1 .. n /\ (m + 1) - 1 = m
    BY <1>2
  <2>2. P(m + 1)
    BY <2>1
  <2>3. \A p \in 1 .. n : s(m) = s(p - 1) => p = m + 1
    <3> SUFFICES ASSUME NEW p \in 1 .. n, s(m) = s(p - 1) PROVE p = m + 1
      OBVIOUS
    <3>1. p - 1 \in 0 .. n - 1
      BY <1>2
    <3>2. m = p - 1
      BY <1>2, <3>1
    <3> QED
      BY <1>2, <2>1, <3>2
  <2>4. (CHOOSE p \in 1 .. n : s(m) = s(p - 1)) = m + 1
    BY <2>1, <2>2, <2>3
  <2>5. s(m) \in DOMAIN i.table
    BY <1>4, <1>7
  <2>6. t[s(m)] = i.len + (CHOOSE p \in 1 .. n : s(m) = s(p - 1)) - 1
    BY <2>1, <2>2, <2>5
  <2> HIDE DEF s, t
  <2> QED
    BY <1>1, <2>1, <2>4, <2>6
<1>9. \A b \in Indices : (\A m \in 0 .. n - 1 : b # s(m)) => t[b] = i.table[b]
  <2> SUFFICES ASSUME NEW b \in Indices, \A m \in 0 .. n - 1 : b # s(m) PROVE t[b] = i.table[b]
    OBVIOUS
  <2>1. \A m \in 1 .. n : b # s(m - 1)
    <3> SUFFICES ASSUME NEW m \in 1 .. n PROVE b # s(m - 1)
      OBVIOUS
    <3>1. m - 1 \in 0 .. n - 1
      BY <1>2
    <3> HIDE DEF s
    <3> QED
      BY <3>1
  <2> QED
    BY <1>7, <2>1
<1> HIDE DEF s, n
<1>10. DOMAIN t = Indices /\ t = [b \in Indices |-> t[b]]
  BY <1>7
<1> HIDE DEF t
<1>11. \A b \in DOMAIN i.counts : b \in Nat /\ b < i.len /\ b \notin news
                                  /\ i.counts[b] \in [Offsets -> Nat]
  BY <1>1, <1>2 DEF CountersOK
<1>12. news \subseteq Nat /\ \A c \in news : c >= i.len /\ c < i.len + n /\ c # 0 /\ c - i.len \in 0 .. n - 1
                                              /\ i.len + (c - i.len) = c
  BY <1>1, <1>2
<1>13. /\ DOMAIN z = DOMAIN i.counts \cup news /\ z = [b \in DOMAIN z |-> z[b]]
       /\ \A b \in DOMAIN i.counts : z[b] = i.counts[b]
       /\ \A b \in news : z[b] = Zeroes
  BY <1>11
<1> HIDE DEF z
<1>14. Zeroes \in [Offsets -> Nat] /\ \A x \in Offsets : Zeroes[x] = 0
  BY DEF Zeroes, Offsets
<1>15. \A b \in DOMAIN z : z[b] \in [Offsets -> Nat]
  BY <1>11, <1>13, <1>14
<1> HIDE DEF a
<1>16. a.table = t /\ a.counts = z /\ a.len = i.len + n /\ a.fixed = i.fixed
       /\ DOMAIN a = DOMAIN i /\ a = [f \in DOMAIN a |-> a[f]]
  BY <1>5 DEF CountersOK, CountFields, Fields
<1>17. /\ DOMAIN y = DOMAIN z /\ y = [b \in DOMAIN y |-> y[b]]
       /\ \A b \in DOMAIN z : /\ y[b] \in [Offsets -> Nat]
                              /\ \A x \in Offsets :
                                   y[b][x] = IF \E c \in news : t[BlockOf(c)] = b /\ c % RefEntries = x
                                               THEN 1 ELSE z[b][x]
  BY <1>15, <1>16 DEF Offsets
<1> HIDE DEF y, j, news
<1>18. j.table = t /\ j.counts = y /\ j.len = i.len + n /\ j.fixed = i.fixed
       /\ DOMAIN j = DOMAIN i /\ j = [f \in DOMAIN j |-> j[f]]
  BY <1>6, <1>16 DEF CountersOK, CountFields, Fields
<1>19. j.len \in Nat \ {0} /\ j.len > i.len /\ news = i.len .. j.len - 1
  BY <1>1, <1>2, <1>18 DEF news
<1>20. \A b \in Indices : \/ t[b] = i.table[b] /\ t[b] \notin news
                          \/ i.table[b] = 0 /\ \E m \in 0 .. n - 1 : b = s(m) /\ t[b] = i.len + m
                                            /\ t[b] \in news
  <2> SUFFICES ASSUME NEW b \in Indices
               PROVE  \/ t[b] = i.table[b] /\ t[b] \notin news
                      \/ i.table[b] = 0 /\ \E m \in 0 .. n - 1 : b = s(m) /\ t[b] = i.len + m
                                        /\ t[b] \in news
    OBVIOUS
  <2>1. CASE \E m \in 0 .. n - 1 : b = s(m)
    <3> PICK m \in 0 .. n - 1 : b = s(m)
      BY <2>1
    <3>1. t[b] = i.len + m /\ i.table[b] = 0 /\ i.len + m \in news
      BY <1>1, <1>2, <1>4, <1>8 DEF news
    <3> QED
      BY <3>1
  <2>2. CASE \A m \in 0 .. n - 1 : b # s(m)
    <3>1. t[b] = i.table[b]
      BY <1>9, <2>2
    <3>2. i.table[b] = 0 \/ i.table[b] \in DOMAIN i.counts
      BY DEF CountersOK
    <3> QED
      BY <1>11, <1>12, <3>1, <3>2
  <2> QED
    BY <2>1, <2>2
<1>21. \A b \in Indices : t[b] # 0 => t[b] \in DOMAIN z
  <2>1. \A b \in Indices : i.table[b] # 0 => i.table[b] \in DOMAIN i.counts
    BY DEF CountersOK
  <2> QED
    BY <1>13, <1>20, <2>1
<1>22. ASSUME NEW b \in Indices, NEW d \in Indices, t[b] # 0, t[b] = t[d]
       PROVE  b = d
  <2>1. CASE t[b] \in news
    <3> PICK m \in 0 .. n - 1 : b = s(m) /\ t[b] = i.len + m
      BY <1>20, <2>1
    <3> PICK p \in 0 .. n - 1 : d = s(p) /\ t[d] = i.len + p
      BY <1>20, <1>22, <2>1
    <3>1. m = p
      BY <1>1, <1>2, <1>22
    <3> QED
      BY <3>1
  <2>2. CASE t[b] \notin news
    <3>1. t[b] = i.table[b] /\ t[d] = i.table[d]
      BY <1>20, <1>22, <2>2
    <3> QED
      BY <1>22, <3>1 DEF CountersOK
  <2> QED
    BY <2>1, <2>2
<1>23. CountersOK(j)
  <2>1. \A b \in DOMAIN y : b \in Nat /\ b < j.len /\ y[b] \in [Offsets -> Nat]
    BY <1>1, <1>2, <1>11, <1>12, <1>13, <1>17, <1>18
  <2>2. CountFields \cup Fields \subseteq DOMAIN j
    BY <1>18 DEF CountersOK
  <2> QED
    BY <1>10, <1>17, <1>18, <1>19, <1>21, <1>22, <2>1, <2>2 DEF CountersOK
<1>24. \A c \in news : Covered(j, c)
  <2> SUFFICES ASSUME NEW c \in news PROVE Covered(j, c)
    OBVIOUS
  <2> DEFINE m == c - i.len
  <2>1. m \in 0 .. n - 1 /\ i.len + m = c
    BY <1>12
  <2>2. CASE \E p \in 0 .. n - 1 : BlockOf(c) = s(p)
    <3> PICK p \in 0 .. n - 1 : BlockOf(c) = s(p)
      BY <2>2
    <3>1. t[BlockOf(c)] = i.len + p /\ BlockOf(c) < TableLen
      BY <1>3, <1>8
    <3>2. i.len + p # 0
      BY <1>1, <1>2
    <3> QED
      BY <1>18, <3>1, <3>2 DEF Covered
  <2>3. CASE Covered(i, c)
    <3>1. BlockOf(c) \in Indices /\ i.table[BlockOf(c)] # 0 /\ BlockOf(c) < TableLen
      BY <1>12, <2>3, CountFacts DEF Covered
    <3>2. t[BlockOf(c)] = i.table[BlockOf(c)]
      BY <1>20, <3>1
    <3> QED
      BY <1>18, <3>1, <3>2 DEF Covered
  <2> HIDE DEF m
  <2> QED
    BY <1>2, <2>1, <2>2, <2>3
<1>25. Covered(j, k)
  <2>1. 0 \in 0 .. n - 1
    BY <1>2
  <2>2. BlockOf(k) = s(0) /\ t[s(0)] = i.len + 0 /\ s(0) < TableLen
    BY <1>2, <1>3, <1>8, <2>1
  <2> QED
    BY <1>1, <1>18, <2>2 DEF Covered
<1>26. ASSUME NEW c \in Nat
       PROVE  Count(j, c) = IF c \in news THEN 1 ELSE Count(i, c)
  <2> DEFINE b == t[BlockOf(c)]
             x == c % RefEntries
  <2>1. BlockOf(c) \in Nat /\ x \in Offsets
    BY CountFacts
  <2>2. CASE ~Covered(j, c)
    <3>1. c \notin news /\ Count(j, c) = 0
      BY <1>24, <2>2 DEF Count
    <3>2. ~Covered(i, c)
      <4>1. Covered(i, c) => BlockOf(c) \in Indices /\ i.table[BlockOf(c)] # 0 /\ BlockOf(c) < TableLen
        BY CountFacts DEF Covered
      <4> QED
        BY <1>18, <1>20, <2>2, <4>1 DEF Covered
    <3> QED
      BY <3>1, <3>2 DEF Count
  <2>3. CASE Covered(j, c)
    <3>1. /\ BlockOf(c) \in Indices /\ b # 0 /\ b \in DOMAIN z
          /\ Count(j, c) = y[b][x] /\ BlockOf(c) < TableLen
      BY <1>13, <1>17, <1>18, <1>23, <2>3, CountFacts DEF Covered
    <3>2. ASSUME NEW d \in news, t[BlockOf(d)] = b, d % RefEntries = x
          PROVE  d = c
      <4>1. BlockOf(d) \in Indices
        BY <1>12, <1>23, <1>24, CountFacts
      <4>2. BlockOf(d) = BlockOf(c)
        BY <1>22, <3>1, <3>2, <4>1
      <4> QED
        BY <1>12, <3>2, <4>2, CountPlace
    <3>3. y[b][x] = IF c \in news THEN 1 ELSE z[b][x]
      BY <1>17, <2>1, <3>1, <3>2
    <3>4. CASE c \in news
      BY <3>1, <3>3, <3>4
    <3>5. CASE c \notin news
      <4>1. CASE b \in news
        <5>1. z[b][x] = 0
          BY <1>13, <1>14, <2>1, <4>1
        <5>2. i.table[BlockOf(c)] = 0
          BY <1>20, <3>1, <4>1, <1>12
        <5> QED
          BY <3>1, <3>3, <3>5, <5>1, <5>2 DEF Count, Covered
      <4>2. CASE b \notin news
        <5>1. b = i.table[BlockOf(c)] /\ b \in DOMAIN i.counts /\ z[b] = i.counts[b]
          BY <1>13, <1>20, <3>1, <4>2
        <5>2. Covered(i, c)
          BY <3>1, <5>1 DEF Covered
        <5> QED
          BY <3>1, <3>3, <3>5, <5>1, <5>2 DEF Count
      <4> QED
        BY <4>1, <4>2
    <3> QED
      BY <3>4, <3>5
  <2> QED
    BY <2>2, <2>3
<1>27. \A c \in news : \E b \in Indices : t[b] = c
  <2> SUFFICES ASSUME NEW c \in news PROVE \E b \in Indices : t[b] = c
    OBVIOUS
  <2> DEFINE m == c - i.len
  <2>1. m \in 0 .. n - 1 /\ i.len + m = c
    BY <1>12
  <2> HIDE DEF m
  <2>2. t[s(m)] = c /\ s(m) \in Indices
    BY <1>4, <1>8, <2>1
  <2> QED
    BY <2>2
<1> QED
  BY <1>18, <1>19, <1>20, <1>23, <1>25, <1>26, <1>27 DEF j, n

-----------------------------------------------------------------------------
(* How much stands in a cluster *)

FiniteOK(i) ==
  /\ IsFiniteSet(i.fixed) /\ IsFiniteSet(DOMAIN i.l1) /\ IsFiniteSet(DOMAIN i.l2)
  /\ \A f \in i.fixed : f \in Nat /\ f < i.len

LEMMA SlotsFinite == IsFiniteSet(Slots)
<1> DEFINE a == 0
           b == L2Entries - 1
<1>1. a \in Int /\ b \in Int
  BY ShapeAssumption
<1> HIDE DEF a, b
<1>2. IsFiniteSet(a .. b)
  BY <1>1, FS_Interval
<1> QED
  BY <1>2 DEF Slots, a, b

LEMMA BlocksFinite == IsFiniteSet(Indices)
<1> DEFINE a == 0
           b == TableLen - 1
<1>1. a \in Int /\ b \in Int
  BY ShapeAssumption
<1> HIDE DEF a, b
<1>2. IsFiniteSet(a .. b)
  BY <1>1, FS_Interval
<1> QED
  BY <1>2 DEF Indices, a, b

LEMMA PartsFinite ==
  ASSUME NEW i, CountersOK(i), FiniteOK(i), NEW k
  PROVE  /\ IsFiniteSet(FixedAt(i, k)) /\ IsFiniteSet(BlocksAt(i, k))
         /\ IsFiniteSet(TablesAt(i, k)) /\ IsFiniteSet(EntriesAt(i, k))
         /\ Cardinality(FixedAt(i, k)) \in Nat /\ Cardinality(BlocksAt(i, k)) \in Nat
         /\ Cardinality(TablesAt(i, k)) \in Nat /\ Cardinality(EntriesAt(i, k)) \in Nat
         /\ References(i, k) \in Nat
<1>1. IsFiniteSet(FixedAt(i, k))
  <2>1. FixedAt(i, k) \in SUBSET i.fixed
    BY DEF FixedAt
  <2> QED
    BY <2>1, FS_Subset DEF FiniteOK
<1>2. IsFiniteSet(BlocksAt(i, k))
  <2>1. BlocksAt(i, k) \in SUBSET Indices
    BY DEF BlocksAt, CountersOK
  <2> QED
    BY <2>1, FS_Subset, BlocksFinite
<1>3. IsFiniteSet(TablesAt(i, k))
  <2>1. TablesAt(i, k) \in SUBSET DOMAIN i.l1
    BY DEF TablesAt
  <2> QED
    BY <2>1, FS_Subset DEF FiniteOK
<1>4. IsFiniteSet(EntriesAt(i, k))
  <2>1. IsFiniteSet((DOMAIN i.l2) \X Slots)
    BY SlotsFinite, FS_Product DEF FiniteOK
  <2>2. EntriesAt(i, k) \in SUBSET ((DOMAIN i.l2) \X Slots)
    BY DEF EntriesAt, Standards, Compresseds, Slots
  <2> QED
    BY <2>1, <2>2, FS_Subset
<1>5. /\ Cardinality(FixedAt(i, k)) \in Nat /\ Cardinality(BlocksAt(i, k)) \in Nat
      /\ Cardinality(TablesAt(i, k)) \in Nat /\ Cardinality(EntriesAt(i, k)) \in Nat
  BY <1>1, <1>2, <1>3, <1>4, FS_CardinalityType
<1>6. References(i, k) \in Nat
  BY <1>5 DEF References
<1> QED
  BY <1>1, <1>2, <1>3, <1>4, <1>5, <1>6

\* An entry that holds data stands in a cluster of the file.
LEMMA HostInFile ==
  ASSUME NEW i, SoundImage(i), NEW p \in Standards(i) \cup Compresseds(i)
  PROVE  /\ p = <<p[1], p[2]>> /\ p[1] \in DOMAIN i.l2 /\ p[2] \in Slots
         /\ HasData(i.l2[p[1]][p[2]])
         /\ i.l2[p[1]][p[2]].host \in Nat /\ i.l2[p[1]][p[2]].host < i.len
<1>1. /\ p = <<p[1], p[2]>> /\ p[1] \in DOMAIN i.l2 /\ p[2] \in Slots
      /\ i.l2[p[1]][p[2]].kind \in {"standard", "compressed"}
  BY DEF Standards, Compresseds, Slots
<1> DEFINE e == i.l2[p[1]][p[2]]
           d == <<e.host, e.part>>
<1>2. HasData(e)
  BY <1>1 DEF HasData
<1>3. d \in DOMAIN i.data
  BY <1>1, <1>2 DEF SoundImage, DataOK
<1>4. d[1] \in Nat /\ d[1] < i.len
  BY <1>3 DEF SoundImage, DataOK
<1>5. d[1] = e.host
  OBVIOUS
<1> HIDE DEF e, d
<1>6. e.host \in Nat /\ e.host < i.len
  BY <1>4, <1>5
<1> QED
  BY <1>1, <1>2, <1>6 DEF e

\* Nothing stands past the end of the file.
LEMMA NonePastEnd ==
  ASSUME NEW i, SoundImage(i), CountersOK(i), FiniteOK(i), NEW k \in Nat, k >= i.len
  PROVE  References(i, k) = 0
<1>1. i.len \in Nat
  BY DEF CountersOK
<1>2. FixedAt(i, k) = {}
  BY <1>1 DEF FixedAt, FiniteOK
<1>3. BlocksAt(i, k) = {}
  <2>1. \A b \in Indices : i.table[b] # 0 => i.table[b] \in Nat /\ i.table[b] < i.len
    BY DEF CountersOK
  <2>2. DOMAIN i.table = Indices
    BY DEF CountersOK
  <2> QED
    BY <1>1, <2>1, <2>2 DEF BlocksAt
<1>4. TablesAt(i, k) = {}
  <2>1. \A x \in DOMAIN i.l1 : i.l1[x] # 0 => i.l1[x] \in Nat /\ i.l1[x] < i.len
    BY DEF SoundImage, TablesOK
  <2> QED
    BY <1>1, <2>1 DEF TablesAt
<1>5. EntriesAt(i, k) = {}
  <2>1. \A p \in Standards(i) \cup Compresseds(i) :
          i.l2[p[1]][p[2]].host \in Nat /\ i.l2[p[1]][p[2]].host < i.len
    BY HostInFile
  <2> QED
    BY <1>1, <2>1 DEF EntriesAt
<1> QED
  BY <1>2, <1>3, <1>4, <1>5, FS_EmptySet DEF References

\* Blocks the table names anew each stand where the table says.
LEMMA RunRefs ==
  ASSUME NEW i, NEW j, CountersOK(i), CountersOK(j), FiniteOK(i), SameCells(i, j), j.fixed = i.fixed,
         NEW news \in SUBSET (Nat \ {0}),
         \A b \in Indices : \/ j.table[b] = i.table[b] /\ j.table[b] \notin news
                            \/ i.table[b] = 0 /\ j.table[b] \in news,
         \A c \in news : \E b \in Indices : j.table[b] = c,
         NEW c \in Nat
  PROVE  References(j, c) = References(i, c) + (IF c \in news THEN 1 ELSE 0)
<1>1. FixedAt(j, c) = FixedAt(i, c) /\ TablesAt(j, c) = TablesAt(i, c)
      /\ EntriesAt(j, c) = EntriesAt(i, c)
  BY DEF FixedAt, TablesAt, EntriesAt, Standards, Compresseds, SameCells
<1>2. DOMAIN i.table = Indices /\ DOMAIN j.table = Indices
  BY DEF CountersOK
<1>3. /\ Cardinality(FixedAt(i, c)) \in Nat /\ Cardinality(BlocksAt(i, c)) \in Nat
      /\ Cardinality(TablesAt(i, c)) \in Nat /\ Cardinality(EntriesAt(i, c)) \in Nat
  BY PartsFinite
<1>4. CASE c \in news
  <2> PICK b \in Indices : j.table[b] = c
    BY <1>4
  <2>1. BlocksAt(j, c) = {b}
    BY <1>2, <1>4 DEF BlocksAt, CountersOK
  <2>2. BlocksAt(i, c) = {}
    BY <1>2, <1>4 DEF BlocksAt
  <2>3. Cardinality(BlocksAt(j, c)) = 1 /\ Cardinality(BlocksAt(i, c)) = 0
    BY <2>1, <2>2, FS_EmptySet, FS_Singleton
  <2> QED
    BY <1>1, <1>3, <1>4, <2>3 DEF References
<1>5. CASE c \notin news
  <2>1. BlocksAt(j, c) = BlocksAt(i, c)
    BY <1>2, <1>5 DEF BlocksAt
  <2> QED
    BY <1>1, <1>3, <1>5, <2>1 DEF References
<1> QED
  BY <1>4, <1>5


-----------------------------------------------------------------------------
(* The account, within a write: owed are clusters counted that nothing     *)
(* stands in yet, lost those not counted that something still stands in.   *)

Once(S, c) == IF c \in S THEN 1 ELSE 0

\* A cluster a compressed entry stands in is that entry's alone.
Alone(i) == \A p \in Compresseds(i) : References(i, i.l2[p[1]][p[2]].host) = 1

Accounted(i, owed, lost) ==
  /\ CountersOK(i) /\ FiniteOK(i) /\ Alone(i)
  /\ owed \subseteq 0 .. i.len - 1 /\ lost \subseteq 0 .. i.len - 1
  /\ \A c \in Nat : Count(i, c) + Once(lost, c) = References(i, c) + Once(owed, c)

\* Setting one count, the blocks it takes included: everything else still
\* stands as it was counted.
LEMMA SetAccounts ==
  ASSUME NEW w, WorkOK(w), NEW owed, NEW lost, Accounted(w.img, owed, lost),
         NEW k \in 0 .. w.img.len - 1, NEW v \in Nat, SetRefcount(w, k, v).ok
  PROVE  LET i == w.img
             j == SetRefcount(w, k, v).img
         IN  /\ CountersOK(j) /\ FiniteOK(j) /\ Alone(j) /\ j.len >= i.len
             /\ Count(j, k) = v
             /\ \A c \in Nat \ {k} : Count(j, c) + Once(lost, c) = References(j, c) + Once(owed, c)
             /\ \A c \in 0 .. i.len - 1 : References(j, c) = References(i, c)
<1> DEFINE i == w.img
           r == SetRefcount(w, k, v)
           b == WithBlocks(i, k)
           j == PutCount(b, k, v)
           news == i.len .. b.len - 1
<1>1. TableCovers(i, k) /\ r.img = j
  <2>1. w = [img |-> w.img, l1 |-> w.l1, ok |-> w.ok]
    BY DEF WorkOK
  <2> HIDE DEF i, j
  <2>2. r = IF TableCovers(i, k) THEN [w EXCEPT !.img = j] ELSE [w EXCEPT !.ok = FALSE]
    BY DEF SetRefcount, i, j
  <2>3. ~TableCovers(i, k) => r.ok = FALSE
    BY <2>1, <2>2
  <2>4. TableCovers(i, k) => r.img = j
    BY <2>1, <2>2
  <2> QED
    BY <2>3, <2>4
<1>2. /\ SoundImage(i) /\ CountersOK(i) /\ FiniteOK(i) /\ Alone(i) /\ i.len \in Nat \ {0} /\ k \in Nat
      /\ owed \subseteq 0 .. i.len - 1 /\ lost \subseteq 0 .. i.len - 1 /\ k < i.len
      /\ \A c \in Nat : Count(i, c) + Once(lost, c) = References(i, c) + Once(owed, c)
  BY DEF Accounted, WorkOK, CountersOK
<1>3. SameCells(i, r.img) /\ SameCells(i, b)
  <2>1. SameCells(i, r.img)
    BY RefcountKeeps
  <2>2. SameCells(i, b)
    BY <1>2, BlocksSame
  <2> QED
    BY <2>1, <2>2
<1>4. /\ CountersOK(b) /\ Covered(b, k) /\ b.len >= i.len /\ b.fixed = i.fixed
      /\ \A d \in Indices : \/ b.table[d] = i.table[d] /\ b.table[d] \notin news
                            \/ i.table[d] = 0 /\ b.table[d] \in news
      /\ \A c \in news : \E d \in Indices : b.table[d] = c
      /\ \A c \in Nat : Count(b, c) = IF c \in news THEN 1 ELSE Count(i, c)
  <2>1. CASE Covered(i, k)
    <3>1. b = i
      BY <2>1 DEF WithBlocks
    <3> HIDE DEF b, i
    <3>2. news = {}
      BY <1>2, <3>1
    <3> QED
      BY <1>2, <2>1, <3>1, <3>2
  <2>2. CASE ~Covered(i, k)
    <3>1. b = WithRun(i, k, BlocksNeeded(i, k))
      BY <2>2 DEF WithBlocks
    <3> HIDE DEF i, b
    <3>3. b.len > i.len /\ CountersOK(b)
      BY <1>1, <1>2, <2>2, <3>1, CountRun
    <3>4. b.len \in Nat /\ i.len \in Nat
      BY <1>2, <3>3 DEF CountersOK
    <3>2. b.len >= i.len
      BY <3>3, <3>4
    <3> QED
      BY <1>1, <1>2, <2>2, <3>1, <3>2, CountRun
  <2> QED
    BY <2>1, <2>2
<1>5. b.len \in Nat /\ news \in SUBSET (Nat \ {0}) /\ k \notin news
      /\ \A c \in news : c >= i.len
  BY <1>2, <1>4 DEF CountersOK
<1>6. \A c \in Nat : References(b, c) = References(i, c) + (IF c \in news THEN 1 ELSE 0)
  <2> HIDE DEF i, b, news
  <2> QED
    BY <1>2, <1>3, <1>4, <1>5, RunRefs
<1> HIDE DEF b
<1>7. /\ CountersOK(j) /\ j.len = b.len /\ j.table = b.table /\ j.fixed = b.fixed
      /\ \A c \in Nat : Count(j, c) = IF c = k THEN v ELSE Count(b, c)
  BY <1>2, <1>4, CountPut
<1>8. j.l1 = i.l1 /\ j.l2 = i.l2 /\ b.l1 = i.l1 /\ b.l2 = i.l2
  BY <1>1, <1>3 DEF SameCells
<1> HIDE DEF j, r
<1>9. \A c : References(j, c) = References(b, c)
  BY <1>7, <1>8 DEF References, FixedAt, BlocksAt, TablesAt, EntriesAt, Standards, Compresseds
<1> HIDE DEF i
<1>10. FiniteOK(j)
  <2>1. j.fixed = i.fixed /\ j.len >= i.len /\ j.len \in Nat /\ i.len \in Nat
    BY <1>2, <1>4, <1>5, <1>7
  <2> QED
    BY <1>2, <1>8, <2>1 DEF FiniteOK
<1>11. \A c \in 0 .. i.len - 1 : References(j, c) = References(i, c)
  <2> SUFFICES ASSUME NEW c \in 0 .. i.len - 1 PROVE References(j, c) = References(i, c)
    OBVIOUS
  <2>1. c \in Nat /\ c \notin news /\ References(i, c) \in Nat
    BY <1>2, <1>5, PartsFinite
  <2> QED
    BY <1>6, <1>9, <2>1
<1>12. Alone(j)
  <2> SUFFICES ASSUME NEW p \in Compresseds(i) PROVE References(j, i.l2[p[1]][p[2]].host) = 1
    BY <1>8 DEF Alone, Compresseds
  <2> DEFINE h == i.l2[p[1]][p[2]].host
  <2>1. h \in Nat /\ h < i.len
    BY <1>2, HostInFile
  <2>2. References(i, h) = 1
    BY <1>2 DEF Alone
  <2> HIDE DEF h
  <2>4. h \in 0 .. i.len - 1
    BY <1>2, <2>1
  <2>3. References(j, h) = 1
    BY <1>11, <2>2, <2>4
  <2> QED
    BY <2>3 DEF h
<1>13. ASSUME NEW c \in Nat \ {k}
       PROVE  Count(j, c) + Once(lost, c) = References(j, c) + Once(owed, c)
  <2>1. References(i, c) \in Nat /\ Count(i, c) \in Nat
    BY <1>2, PartsFinite, CountFacts
  <2>2. CASE c \in news
    <3>1. c >= i.len /\ c \notin owed /\ c \notin lost
      BY <1>2, <1>5, <2>2
    <3>2. References(i, c) = 0
      BY <1>2, <3>1, NonePastEnd
    <3>3. Count(j, c) = 1 /\ References(j, c) = 1
      BY <1>4, <1>6, <1>7, <1>9, <2>2, <3>2
    <3> QED
      BY <3>1, <3>3 DEF Once
  <2>3. CASE c \notin news
    <3>1. Count(j, c) = Count(i, c) /\ References(j, c) = References(i, c)
      BY <1>4, <1>6, <1>7, <1>9, <2>1, <2>3
    <3> QED
      BY <1>2, <3>1
  <2> QED
    BY <2>2, <2>3
<1>14. Count(j, k) = v /\ j.len >= i.len
  BY <1>2, <1>4, <1>7
<1> QED
  BY <1>1, <1>7, <1>10, <1>11, <1>12, <1>13, <1>14 DEF i, r

\* The counters are in order whatever else changes, the file growing included.
LEMMA CountersSame ==
  ASSUME NEW i, NEW j, CountersOK(i), FiniteOK(i),
         j = [f \in DOMAIN i |-> j[f]], j.len \in Nat, j.len >= i.len,
         j.table = i.table, j.counts = i.counts, j.fixed = i.fixed,
         IsFiniteSet(DOMAIN j.l1), IsFiniteSet(DOMAIN j.l2)
  PROVE  /\ CountersOK(j) /\ FiniteOK(j)
         /\ \A c : Count(j, c) = Count(i, c)
<1>1. i.len \in Nat \ {0} /\ CountFields \cup Fields \subseteq DOMAIN i
  BY DEF CountersOK
<1>2. DOMAIN j = DOMAIN i
  OBVIOUS
<1>3. \A b \in DOMAIN i.counts : b \in Nat /\ b < j.len /\ i.counts[b] \in [Offsets -> Nat]
  <2>1. \A b \in DOMAIN i.counts : b \in Nat /\ b < i.len /\ i.counts[b] \in [Offsets -> Nat]
    BY DEF CountersOK
  <2> QED
    BY <1>1, <2>1
<1>4. /\ i.table = [b \in Indices |-> i.table[b]]
      /\ \A b \in Indices : i.table[b] # 0 => i.table[b] \in DOMAIN i.counts
      /\ \A b, d \in Indices : i.table[b] # 0 /\ i.table[b] = i.table[d] => b = d
      /\ i.counts = [b \in DOMAIN i.counts |-> i.counts[b]]
  BY DEF CountersOK
<1>5. j.len \in Nat \ {0}
  BY <1>1
<1>6. j = [f \in DOMAIN j |-> j[f]] /\ CountFields \cup Fields \subseteq DOMAIN j
  BY <1>1, <1>2
<1>9. /\ j.table = [b \in Indices |-> j.table[b]]
      /\ \A b \in Indices : j.table[b] # 0 => j.table[b] \in DOMAIN j.counts
      /\ \A b, d \in Indices : j.table[b] # 0 /\ j.table[b] = j.table[d] => b = d
      /\ j.counts = [b \in DOMAIN j.counts |-> j.counts[b]]
      /\ \A b \in DOMAIN j.counts : b \in Nat /\ b < j.len /\ j.counts[b] \in [Offsets -> Nat]
  <2> HIDE <1>6
  <2>1. j.table = i.table /\ j.counts = i.counts
    OBVIOUS
  <2> QED
    BY <1>3, <1>4, <2>1, Zenon
<1>7. CountersOK(j)
  BY <1>5, <1>6, <1>9, Zenon DEF CountersOK
<1>8. FiniteOK(j)
  <2>1. \A f \in i.fixed : f \in Nat /\ f < i.len
    BY DEF FiniteOK
  <2>2. \A f \in i.fixed : f \in Nat /\ f < j.len
    BY <1>1, <2>1
  <2> QED
    BY <2>2 DEF FiniteOK
<1> QED
  BY <1>7, <1>8 DEF Count, Covered

\* What leaves the tables and the counts alone leaves the account alone.
LEMMA SameAccount ==
  ASSUME NEW i, NEW j, NEW owed, NEW lost, Accounted(i, owed, lost),
         j = [f \in DOMAIN i |-> j[f]], j.len = i.len, j.table = i.table, j.counts = i.counts,
         j.fixed = i.fixed, j.l1 = i.l1, j.l2 = i.l2
  PROVE  Accounted(j, owed, lost)
<1>1. CountersOK(i) /\ FiniteOK(i) /\ j.len \in Nat /\ j.len >= i.len
      /\ IsFiniteSet(DOMAIN j.l1) /\ IsFiniteSet(DOMAIN j.l2)
  BY DEF Accounted, CountersOK, FiniteOK
<1>2. CountersOK(j) /\ FiniteOK(j) /\ \A c : Count(j, c) = Count(i, c)
  BY <1>1, CountersSame
<1>3. (\A c : References(j, c) = References(i, c)) /\ Compresseds(j) = Compresseds(i)
  BY DEF References, FixedAt, BlocksAt, TablesAt, EntriesAt, Standards, Compresseds
<1>4. Alone(j)
  BY <1>3 DEF Accounted, Alone
<1> QED
  BY <1>2, <1>3, <1>4 DEF Accounted

LEMMA Reimaged ==
  ASSUME NEW w, WorkOK(w), NEW a
  PROVE  [w EXCEPT !.img = a] = [img |-> a, l1 |-> w.l1, ok |-> w.ok]
BY DEF WorkOK

\* A cluster allocated is counted, and nothing stands in it yet.
LEMMA AllocateAccounts ==
  ASSUME NEW w, WorkOK(w), w.ok, NEW owed, Accounted(w.img, owed, {}), AllocateCluster(w).ok
  PROVE  /\ Accounted(AllocateCluster(w).img, owed \cup {w.img.len}, {})
         /\ w.img.len \notin owed
<1> DEFINE i == w.img
           k == i.len
           m == k + 1
           a == AppendCluster(i)
           x == [w EXCEPT !.img = a]
           r == SetRefcount(x, k, 1)
           j == r.img
<1>1. /\ SoundImage(i) /\ CountersOK(i) /\ FiniteOK(i) /\ Alone(i) /\ k \in Nat \ {0}
      /\ owed \subseteq 0 .. k - 1
      /\ \A c \in Nat : Count(i, c) + Once({}, c) = References(i, c) + Once(owed, c)
  BY DEF Accounted, WorkOK, CountersOK
<1>2. AllocateCluster(w) = r
  BY DEF AllocateCluster
<1>3. a = [i EXCEPT !.len = m, !.ragged = FALSE]
  BY DEF AppendCluster
<1>4. SameCells(i, a) /\ SoundImage(a)
  <2>1. SameCells(i, a)
    BY <1>1, AppendSame DEF SoundImage, ShapeOK
  <2> QED
    BY <1>1, <2>1, SameIsSound
<1> HIDE DEF a, m
<1>5. /\ a = [f \in DOMAIN i |-> a[f]] /\ DOMAIN a = DOMAIN i /\ a.len = m
      /\ a.table = i.table /\ a.counts = i.counts /\ a.fixed = i.fixed
      /\ a.l1 = i.l1 /\ a.l2 = i.l2
  BY <1>1, <1>3 DEF CountersOK, CountFields, Fields
<1>6. m \in Nat \ {0} /\ m > k /\ m = k + 1
  BY <1>1 DEF m
<1>7. CountersOK(a) /\ FiniteOK(a) /\ \A c : Count(a, c) = Count(i, c)
  <2>1. a.len \in Nat /\ a.len >= i.len /\ IsFiniteSet(DOMAIN a.l1) /\ IsFiniteSet(DOMAIN a.l2)
    BY <1>1, <1>5, <1>6 DEF FiniteOK
  <2> HIDE DEF i
  <2> QED
    BY <1>1, <1>5, <2>1, CountersSame
<1>9. (\A c : References(a, c) = References(i, c)) /\ Compresseds(a) = Compresseds(i)
  BY <1>5 DEF References, FixedAt, BlocksAt, TablesAt, EntriesAt, Standards, Compresseds
<1>10. Accounted(a, owed, {})
  <2>1. Alone(a)
    BY <1>1, <1>5, <1>9 DEF Alone
  <2>2. owed \subseteq 0 .. a.len - 1
    BY <1>1, <1>5, <1>6
  <2> QED
    BY <1>1, <1>7, <1>9, <2>1, <2>2 DEF Accounted
<1>8. x = [img |-> a, l1 |-> w.l1, ok |-> w.ok]
  BY Reimaged
<1>11. WorkOK(x) /\ x.img = a
  BY <1>4, <1>8 DEF WorkOK, SameCells
<1> HIDE DEF x
<1>12. k \in 0 .. a.len - 1 /\ 1 \in Nat
  BY <1>1, <1>5, <1>6
<1>13. /\ CountersOK(j) /\ FiniteOK(j) /\ Alone(j) /\ j.len >= a.len
       /\ Count(j, k) = 1
       /\ \A c \in Nat \ {k} : Count(j, c) + Once({}, c) = References(j, c) + Once(owed, c)
       /\ \A c \in 0 .. a.len - 1 : References(j, c) = References(a, c)
  <2> HIDE DEF k, a
  <2> QED
    BY <1>2, <1>10, <1>11, <1>12, SetAccounts
<1> HIDE DEF j
<1>14. k \notin owed
  BY <1>1
<1>15. References(j, k) = 0
  <2>1. References(i, k) = 0
    BY <1>1, NonePastEnd
  <2> QED
    BY <1>9, <1>12, <1>13, <2>1
<1>16. \A c \in Nat : Count(j, c) + Once({}, c) = References(j, c) + Once(owed \cup {k}, c)
  <2> SUFFICES ASSUME NEW c \in Nat
               PROVE  Count(j, c) + Once({}, c) = References(j, c) + Once(owed \cup {k}, c)
    OBVIOUS
  <2> HIDE DEF i, k
  <2>1. CASE c = k
    BY <1>13, <1>15, <2>1 DEF Once
  <2>2. CASE c # k
    BY <1>13, <2>2 DEF Once
  <2> QED
    BY <2>1, <2>2
<1>17. owed \cup {k} \subseteq 0 .. j.len - 1
  <2>1. j.len \in Nat /\ j.len >= k + 1
    BY <1>5, <1>6, <1>13 DEF CountersOK
  <2>2. k \in Nat /\ owed \subseteq 0 .. k - 1
    BY <1>1
  <2> HIDE DEF k
  <2> QED
    BY <2>1, <2>2
<1> QED
  BY <1>2, <1>13, <1>14, <1>16, <1>17 DEF Accounted, j

\* A compressed cluster freed while its entry still stands.
LEMMA FreeAccounts ==
  ASSUME NEW w, WorkOK(w), w.ok, NEW owed, Accounted(w.img, owed, {}),
         NEW p \in Compresseds(w.img),
         w.img.l2[p[1]][p[2]].host \notin owed,
         SetRefcount(w, w.img.l2[p[1]][p[2]].host, 0).ok
  PROVE  Accounted(SetRefcount(w, w.img.l2[p[1]][p[2]].host, 0).img, owed, {w.img.l2[p[1]][p[2]].host})
<1> DEFINE i == w.img
           h == i.l2[p[1]][p[2]].host
           j == SetRefcount(w, h, 0).img
<1>1. h \in Nat /\ h < i.len /\ References(i, h) = 1 /\ i.len \in Nat \ {0}
  BY HostInFile DEF Accounted, Alone, WorkOK, CountersOK
<1> HIDE DEF h
<1>2. h \in 0 .. i.len - 1 /\ 0 \in Nat /\ SetRefcount(w, h, 0).ok /\ h \notin owed
  BY <1>1 DEF h
<1>3. /\ CountersOK(j) /\ FiniteOK(j) /\ Alone(j) /\ j.len >= i.len
      /\ Count(j, h) = 0
      /\ \A c \in Nat \ {h} : Count(j, c) + Once({}, c) = References(j, c) + Once(owed, c)
      /\ \A c \in 0 .. i.len - 1 : References(j, c) = References(i, c)
  BY <1>2, SetAccounts
<1> HIDE DEF j
<1>4. ASSUME NEW c \in Nat
      PROVE  Count(j, c) + Once({h}, c) = References(j, c) + Once(owed, c)
  <2>1. CASE c = h
    <3>1. References(j, h) = 1
      BY <1>1, <1>2, <1>3
    <3> QED
      BY <1>2, <1>3, <2>1, <3>1 DEF Once
  <2>2. CASE c # h
    BY <1>3, <2>2 DEF Once
  <2> QED
    BY <2>1, <2>2
<1>5. owed \subseteq 0 .. j.len - 1 /\ {h} \subseteq 0 .. j.len - 1
  <2>1. owed \subseteq 0 .. i.len - 1 /\ j.len \in Nat
    BY <1>3 DEF Accounted, CountersOK
  <2> HIDE DEF i
  <2> QED
    BY <1>1, <1>2, <1>3, <2>1
<1> QED
  BY <1>3, <1>4, <1>5 DEF Accounted, j, h

\* The L1 table naming a new L2 table settles what the table's cluster owed.
LEMMA TableAccounts ==
  ASSUME NEW i, SoundImage(i), NEW k \in Nat \ {0}, k \notin DOMAIN i.l2,
         NEW x \in DOMAIN i.l1, i.l1[x] = 0, Unnamed(i, k), Accounted(i, {k}, {})
  PROVE  Accounted(AddTable(i, x, k), {}, {})
<1> DEFINE j     == AddTable(i, x, k)
           fresh == [z \in Slots |-> None]
           grown == With(i.l2, k, fresh)
           named == [i.l1 EXCEPT ![x] = k]
<1>1. /\ CountersOK(i) /\ FiniteOK(i) /\ Alone(i) /\ i.len \in Nat \ {0}
      /\ \A c \in Nat : Count(i, c) + Once({}, c) = References(i, c) + Once({k}, c)
  BY DEF Accounted, CountersOK
<1>2. DOMAIN grown = DOMAIN i.l2 \cup {k} /\ grown[k] = fresh
      /\ \A t \in DOMAIN i.l2 : grown[t] = i.l2[t]
  BY DEF With
<1>3. DOMAIN named = DOMAIN i.l1
      /\ \A y \in DOMAIN i.l1 : named[y] = IF y = x THEN k ELSE i.l1[y]
  BY DEF SoundImage, TablesOK
<1> HIDE DEF grown
<1>4. j = [i EXCEPT !.l2 = grown, !.l1 = named]
  BY DEF grown, AddTable
<1> HIDE DEF named, j
<1>5. /\ j = [f \in DOMAIN i |-> j[f]] /\ j.len = i.len /\ j.table = i.table
      /\ j.counts = i.counts /\ j.fixed = i.fixed /\ j.l1 = named /\ j.l2 = grown
  BY <1>1, <1>4 DEF CountersOK, CountFields, Fields
<1>6. None.kind = "none"
  BY DEF None
<1>7. CountersOK(j) /\ FiniteOK(j) /\ \A c : Count(j, c) = Count(i, c)
  <2>1. IsFiniteSet(DOMAIN i.l1) /\ IsFiniteSet(DOMAIN i.l2)
    BY <1>1 DEF FiniteOK
  <2>2. IsFiniteSet(DOMAIN j.l1) /\ IsFiniteSet(DOMAIN j.l2)
    BY <1>2, <1>3, <1>5, <2>1, FS_AddElement
  <2>3. j.len \in Nat /\ j.len >= i.len
    BY <1>1, <1>5
  <2> QED
    BY <1>1, <1>5, <2>2, <2>3, CountersSame
<1>8. /\ Standards(j) = Standards(i) /\ Compresseds(j) = Compresseds(i)
      /\ \A p \in Standards(i) \cup Compresseds(i) : j.l2[p[1]][p[2]] = i.l2[p[1]][p[2]]
  <2>1. \A y \in Slots : grown[k][y].kind = "none"
    BY <1>2, <1>6
  <2>2. \A p \in (DOMAIN grown) \X (0 .. L2Entries - 1) :
          \/ p[1] \in DOMAIN i.l2 /\ grown[p[1]] = i.l2[p[1]]
          \/ grown[p[1]][p[2]].kind = "none"
    BY <1>2, <2>1 DEF Slots
  <2>3. (DOMAIN i.l2) \X (0 .. L2Entries - 1) \subseteq (DOMAIN grown) \X (0 .. L2Entries - 1)
    BY <1>2
  <2>4. \A p \in (DOMAIN i.l2) \X (0 .. L2Entries - 1) : grown[p[1]] = i.l2[p[1]]
    BY <1>2
  <2>5. Standards(j) = Standards(i)
    BY <1>5, <2>2, <2>3, <2>4 DEF Standards
  <2>6. Compresseds(j) = Compresseds(i)
    BY <1>5, <2>2, <2>3, <2>4 DEF Compresseds
  <2> QED
    BY <1>5, <2>4, <2>5, <2>6 DEF Standards, Compresseds
<1>9. ASSUME NEW c
      PROVE  References(j, c) = References(i, c) + (IF c = k THEN 1 ELSE 0)
  <2>1. FixedAt(j, c) = FixedAt(i, c) /\ BlocksAt(j, c) = BlocksAt(i, c)
    BY <1>5 DEF FixedAt, BlocksAt
  <2>2. EntriesAt(j, c) = EntriesAt(i, c)
    BY <1>8 DEF EntriesAt
  <2>3. /\ Cardinality(FixedAt(i, c)) \in Nat /\ Cardinality(BlocksAt(i, c)) \in Nat
        /\ Cardinality(TablesAt(i, c)) \in Nat /\ Cardinality(EntriesAt(i, c)) \in Nat
    BY <1>1, PartsFinite
  <2>4. CASE c = k
    <3>1. \A y \in DOMAIN i.l1 : i.l1[y] # 0 => i.l1[y] # k
      BY DEF SoundImage, TablesOK
    <3>2. TablesAt(j, c) = {x} /\ TablesAt(i, c) = {}
      BY <1>3, <1>5, <2>4, <3>1 DEF TablesAt
    <3>3. Cardinality(TablesAt(j, c)) = 1 /\ Cardinality(TablesAt(i, c)) = 0
      BY <3>2, FS_EmptySet, FS_Singleton
    <3> QED
      BY <2>1, <2>2, <2>3, <2>4, <3>3 DEF References
  <2>5. CASE c # k
    <3>1. TablesAt(j, c) = TablesAt(i, c)
      BY <1>3, <1>5, <2>5 DEF TablesAt
    <3> QED
      BY <2>1, <2>2, <2>3, <2>5, <3>1 DEF References
  <2> QED
    BY <2>4, <2>5
<1>10. ASSUME NEW c \in Nat
       PROVE  Count(j, c) + Once({}, c) = References(j, c) + Once({}, c)
  <2>1. References(i, c) \in Nat
    BY <1>1, PartsFinite
  <2> QED
    BY <1>1, <1>7, <1>9, <2>1 DEF Once
<1>11. Alone(j)
  <2> SUFFICES ASSUME NEW p \in Compresseds(i) PROVE References(j, i.l2[p[1]][p[2]].host) = 1
    BY <1>8 DEF Alone
  <2> DEFINE h == i.l2[p[1]][p[2]].host
  <2>1. h \in Nat /\ References(i, h) = 1
    BY <1>1, HostInFile DEF Alone
  <2>2. h # k
    BY HostInFile DEF Unnamed
  <2> HIDE DEF h
  <2> QED
    BY <1>9, <2>1, <2>2 DEF h
<1> QED
  BY <1>1, <1>5, <1>7, <1>10, <1>11 DEF Accounted, j

\* The entry that reaches the new cluster settles what it owed, and what the
\* compressed cluster it leaves had lost.
LEMMA EntryAccounts ==
  ASSUME NEW i, SoundImage(i), NEW s \in DOMAIN i.l2, NEW q \in Slots,
         NEW k \in Nat, Unnamed(i, k), NEW lost, Accounted(i, {k}, lost),
         i.l2[s][q].kind \in {"none", "zero", "compressed"},
         lost = IF i.l2[s][q].kind = "compressed" THEN {i.l2[s][q].host} ELSE {}
  PROVE  Accounted(PutEntry(i, s, q, Standard(k)), {}, {})
<1> DEFINE e   == i.l2[s][q]
           o   == <<s, q>>
           put == [i.l2 EXCEPT ![s] = [i.l2[s] EXCEPT ![q] = Standard(k)]]
           j   == PutEntry(i, s, q, Standard(k))
           E   == Standards(i) \cup Compresseds(i)
           host(p) == i.l2[p[1]][p[2]].host
<1>1. /\ CountersOK(i) /\ FiniteOK(i) /\ Alone(i) /\ i.len \in Nat \ {0}
      /\ \A c \in Nat : Count(i, c) + Once(lost, c) = References(i, c) + Once({k}, c)
  BY DEF Accounted, CountersOK
<1>2. j = [i EXCEPT !.l2 = put]
  BY DEF PutEntry
<1> HIDE DEF j
<1>3. /\ DOMAIN put = DOMAIN i.l2
      /\ \A t \in DOMAIN i.l2, y \in Slots :
           put[t][y] = IF t = s /\ y = q THEN Standard(k) ELSE i.l2[t][y]
  <2>1. i.l2[s] = [y \in Slots |-> i.l2[s][y]]
    BY DEF SoundImage, TablesOK
  <2>2. DOMAIN put = DOMAIN i.l2 /\ put[s] = [i.l2[s] EXCEPT ![q] = Standard(k)]
        /\ \A t \in DOMAIN i.l2 \ {s} : put[t] = i.l2[t]
    BY DEF SoundImage, TablesOK
  <2>3. \A y \in Slots : put[s][y] = IF y = q THEN Standard(k) ELSE i.l2[s][y]
    BY <2>1, <2>2
  <2> HIDE DEF put
  <2> QED
    BY <2>2, <2>3
<1> HIDE DEF put
<1>4. /\ j = [f \in DOMAIN i |-> j[f]] /\ j.len = i.len /\ j.table = i.table
      /\ j.counts = i.counts /\ j.fixed = i.fixed /\ j.l1 = i.l1 /\ j.l2 = put
  BY <1>1, <1>2 DEF CountersOK, CountFields, Fields
<1>5. CountersOK(j) /\ FiniteOK(j) /\ \A c : Count(j, c) = Count(i, c)
  <2>1. IsFiniteSet(DOMAIN j.l1) /\ IsFiniteSet(DOMAIN j.l2) /\ j.len \in Nat /\ j.len >= i.len
    BY <1>1, <1>3, <1>4 DEF FiniteOK
  <2> QED
    BY <1>1, <1>4, <2>1, CountersSame
<1>6. Standard(k).kind = "standard" /\ Standard(k).host = k
  BY DEF Standard
<1>7. o[1] = s /\ o[2] = q /\ o \in (DOMAIN i.l2) \X Slots
  OBVIOUS
<1>8. \A p \in (DOMAIN i.l2) \X Slots :
        j.l2[p[1]][p[2]] = IF p = o THEN Standard(k) ELSE i.l2[p[1]][p[2]]
  BY <1>3, <1>4
<1> HIDE DEF o
<1>9. /\ Standards(j) = Standards(i) \cup {o} /\ Compresseds(j) = Compresseds(i) \ {o}
      /\ o \notin Standards(i)
      /\ o \in Compresseds(i) <=> e.kind = "compressed"
      /\ Standards(i) \cap Compresseds(i) = {}
  <2>1. Standards(j) = Standards(i) \cup {o}
    BY <1>3, <1>4, <1>6, <1>7, <1>8 DEF Standards, Slots
  <2>2. Compresseds(j) = Compresseds(i) \ {o}
    BY <1>3, <1>4, <1>6, <1>7, <1>8 DEF Compresseds, Slots
  <2>3. o \notin Standards(i) /\ (o \in Compresseds(i) <=> e.kind = "compressed")
    BY <1>7 DEF Standards, Compresseds, Slots
  <2>4. Standards(i) \cap Compresseds(i) = {}
    BY DEF Standards, Compresseds
  <2> QED
    BY <2>1, <2>2, <2>3, <2>4
<1>10. E \subseteq (DOMAIN i.l2) \X Slots /\ \A p \in E : host(p) # k
  <2>1. \A p \in E : host(p) # k
    BY HostInFile DEF Unnamed
  <2> QED
    BY <2>1 DEF Standards, Compresseds, Slots
<1>11. EntriesAt(j, k) = {o} /\ EntriesAt(i, k) = {}
  BY <1>6, <1>7, <1>8, <1>9, <1>10 DEF EntriesAt
<1>12. ASSUME NEW c, c # k
       PROVE  EntriesAt(j, c) = EntriesAt(i, c) \ {o}
  BY <1>6, <1>7, <1>8, <1>9, <1>10, <1>12 DEF EntriesAt
<1>13. ASSUME NEW c, c # k
       PROVE  o \in EntriesAt(i, c) <=> (e.kind = "compressed" /\ c = e.host)
  BY <1>7, <1>9 DEF EntriesAt
<1>14. ASSUME NEW c \in Nat
       PROVE  References(j, c) + Once(lost, c) = References(i, c) + Once({k}, c)
  <2>1. FixedAt(j, c) = FixedAt(i, c) /\ BlocksAt(j, c) = BlocksAt(i, c)
        /\ TablesAt(j, c) = TablesAt(i, c)
    BY <1>4 DEF FixedAt, BlocksAt, TablesAt
  <2>2. /\ Cardinality(FixedAt(i, c)) \in Nat /\ Cardinality(BlocksAt(i, c)) \in Nat
        /\ Cardinality(TablesAt(i, c)) \in Nat /\ Cardinality(EntriesAt(i, c)) \in Nat
        /\ IsFiniteSet(EntriesAt(i, c))
    BY <1>1, PartsFinite
  <2>3. Cardinality(EntriesAt(j, c)) + Once(lost, c) = Cardinality(EntriesAt(i, c)) + Once({k}, c)
    <3>1. CASE c = k
      <4>1. Cardinality(EntriesAt(j, c)) = 1 /\ Cardinality(EntriesAt(i, c)) = 0
        BY <1>11, <3>1, FS_EmptySet, FS_Singleton
      <4>2. c \notin lost
        <5>1. e.kind = "compressed" => o \in E /\ host(o) = e.host
          BY <1>7, <1>9
        <5> QED
          BY <1>10, <3>1, <5>1
      <4> QED
        BY <3>1, <4>1, <4>2 DEF Once
    <3>2. CASE c # k
      <4>1. EntriesAt(j, c) = EntriesAt(i, c) \ {o} /\ (o \in EntriesAt(i, c) <=> c \in lost)
        BY <1>12, <1>13, <3>2
      <4>2. Cardinality(EntriesAt(j, c)) = IF o \in EntriesAt(i, c) THEN Cardinality(EntriesAt(i, c)) - 1
                                                             ELSE Cardinality(EntriesAt(i, c))
        BY <2>2, <4>1, FS_RemoveElement
      <4> QED
        BY <2>2, <3>2, <4>1, <4>2 DEF Once
    <3> QED
      BY <3>1, <3>2
  <2>4. Cardinality(EntriesAt(j, c)) \in Nat
    <3>1. IsFiniteSet(EntriesAt(j, c))
      BY <1>5, PartsFinite
    <3> QED
      BY <3>1, FS_CardinalityType
  <2>5. Once(lost, c) \in Nat /\ Once({k}, c) \in Nat
    BY DEF Once
  <2> QED
    BY <2>1, <2>2, <2>3, <2>4, <2>5 DEF References
<1>15. ASSUME NEW c \in Nat
       PROVE  Count(j, c) + Once({}, c) = References(j, c) + Once({}, c)
  <2>1. References(i, c) \in Nat /\ References(j, c) \in Nat /\ Count(i, c) \in Nat
    BY <1>1, <1>5, PartsFinite, CountFacts
  <2>2. Once(lost, c) \in Nat /\ Once({k}, c) \in Nat /\ Once({}, c) = 0
    BY DEF Once
  <2>3. Count(i, c) + Once(lost, c) = References(j, c) + Once(lost, c)
    BY <1>1, <1>14
  <2> QED
    BY <1>5, <2>1, <2>2, <2>3
<1>16. Alone(j)
  <2> SUFFICES ASSUME NEW p \in Compresseds(i), p # o PROVE References(j, host(p)) = 1
    <3>1. \A p \in Compresseds(j) : p \in Compresseds(i) /\ p # o /\ j.l2[p[1]][p[2]] = i.l2[p[1]][p[2]]
      BY <1>8, <1>9, <1>10
    <3> QED
      BY <3>1 DEF Alone
  <2> DEFINE h == host(p)
  <2>1. h \in Nat /\ References(i, h) = 1 /\ h # k /\ p \in EntriesAt(i, h)
    BY <1>1, <1>10, HostInFile DEF Alone, EntriesAt
  <2> HIDE DEF h
  <2>2. o \notin EntriesAt(i, h)
    <3> SUFFICES ASSUME o \in EntriesAt(i, h) PROVE FALSE
      OBVIOUS
    <3>1. /\ Cardinality(FixedAt(i, h)) \in Nat /\ Cardinality(BlocksAt(i, h)) \in Nat
          /\ Cardinality(TablesAt(i, h)) \in Nat /\ Cardinality(EntriesAt(i, h)) \in Nat
          /\ IsFiniteSet(EntriesAt(i, h))
      BY <1>1, PartsFinite
    <3>2. Cardinality(EntriesAt(i, h)) <= 1
      BY <2>1, <3>1 DEF References
    <3>3. Cardinality(EntriesAt(i, h)) # 0
      BY <3>1, FS_EmptySet
    <3>4. Cardinality(EntriesAt(i, h)) = 1
      BY <3>1, <3>2, <3>3
    <3>5. \E x : EntriesAt(i, h) = {x}
      BY <3>1, <3>4, FS_Singleton
    <3> QED
      BY <2>1, <3>5
  <2>3. h \notin lost
    BY <1>13, <2>1, <2>2
  <2>4. References(j, h) \in Nat
    BY <1>5, PartsFinite
  <2>5. References(j, h) = References(i, h)
    BY <1>14, <2>1, <2>3, <2>4 DEF Once
  <2> QED
    BY <2>1, <2>5 DEF h
<1> QED
  BY <1>1, <1>4, <1>5, <1>15, <1>16 DEF Accounted, j

-----------------------------------------------------------------------------
(* The steps of a write keep the account *)

LEMMA EnsureAccounts ==
  ASSUME NEW w, WorkOK(w), w.ok, NEW c \in 0 .. w.img.virtual - 1,
         Accounted(w.img, {}, {}), EnsureL2(w, c).ok
  PROVE  Accounted(EnsureL2(w, c).img, {}, {})
<1> DEFINE x == c \div L2Entries
           k == w.img.len
           a == AllocateCluster(w)
           i == a.img
           j == AddTable(i, x, k)
           r == EnsureL2(w, c)
<1>1. x \in DOMAIN w.l1 /\ k \in Nat \ {0}
  BY EntryFacts DEF WorkOK, SoundImage, ShapeOK
<1>2. CASE w.l1[x] # 0
  <2>1. r = w
    BY <1>2 DEF EnsureL2
  <2> HIDE DEF r
  <2> QED
    BY <2>1 DEF r
<1>3. CASE w.l1[x] = 0
  <2>1. WorkOK(a) /\ a.l1 = w.l1 /\ SameCells(w.img, a.img)
    BY AllocateKeeps
  <2>2. r = IF a.ok THEN [a EXCEPT !.img.l2 = With(a.img.l2, k, [z \in 0 .. L2Entries - 1 |-> None]),
                                   !.img.l1[x] = k, !.l1[x] = k]
                    ELSE a
    BY <1>3 DEF EnsureL2, Then
  <2>3. r.ok
    OBVIOUS
  <2> HIDE DEF a, r
  <2>4. a.ok
    BY <2>2, <2>3
  <2>5. a = [img |-> a.img, l1 |-> a.l1, ok |-> a.ok]
    BY <2>1 DEF WorkOK
  <2>6. r.img = j
    BY <2>2, <2>4, <2>5 DEF Slots, AddTable
  <2>7. Accounted(i, {k}, {})
    <3>1. Accounted(i, {} \cup {k}, {})
      BY <2>4, AllocateAccounts DEF a
    <3> QED
      BY <3>1
  <2>8. SoundImage(i) /\ i.l1 = w.l1 /\ i.l2 = w.img.l2 /\ SoundImage(w.img)
    BY <2>1 DEF WorkOK, SameCells
  <2>9. k \notin DOMAIN i.l2
    <3>1. \A t \in DOMAIN w.img.l2 : t \in Nat /\ t < k
      BY <2>8 DEF SoundImage, TablesOK
    <3> HIDE DEF i
    <3> QED
      BY <1>1, <2>8, <3>1
  <2>10. Unnamed(i, k)
    BY <2>8, NewUnnamed
  <2> HIDE DEF i, k
  <2>11. Accounted(j, {}, {})
    BY <1>1, <1>3, <2>7, <2>8, <2>9, <2>10, TableAccounts
  <2> QED
    BY <2>6, <2>11 DEF r
<1> QED
  BY <1>2, <1>3

LEMMA PutAccounts ==
  ASSUME NEW w, WorkOK(w), w.ok, NEW content, Accounted(w.img, {}, {}),
         PutData(w, w.img.len, content).ok
  PROVE  Accounted(PutData(w, w.img.len, content).img, {w.img.len}, {})
<1> DEFINE k == w.img.len
           a == AllocateCluster(w)
           i == a.img
           grown == With(i.data, <<k, 0>>, content)
           r == PutData(w, k, content)
           j == r.img
<1>1. WorkOK(a)
  BY AllocateKeeps
<1>2. r = IF a.ok THEN [a EXCEPT !.img.data = grown] ELSE a
  BY DEF PutData, Then
<1>3. r.ok
  OBVIOUS
<1> HIDE DEF a, r, grown
<1>4. a.ok
  BY <1>2, <1>3
<1>5. a = [img |-> a.img, l1 |-> a.l1, ok |-> a.ok]
  BY <1>1 DEF WorkOK
<1>6. j = [i EXCEPT !.data = grown]
  BY <1>2, <1>4, <1>5
<1>7. Accounted(i, {k}, {})
  <2>1. Accounted(i, {} \cup {k}, {})
    BY <1>4, AllocateAccounts DEF a
  <2> QED
    BY <2>1
<1> HIDE DEF j, i
<1>8. /\ j = [f \in DOMAIN i |-> j[f]] /\ j.len = i.len /\ j.table = i.table
      /\ j.counts = i.counts /\ j.fixed = i.fixed /\ j.l1 = i.l1 /\ j.l2 = i.l2
  BY <1>6, <1>7 DEF Accounted, CountersOK, CountFields, Fields
<1>9. Accounted(j, {k}, {})
  <2> HIDE DEF k
  <2> QED
    BY <1>7, <1>8, SameAccount
<1> QED
  BY <1>9 DEF j, r

LEMMA FreshAccounts ==
  ASSUME NEW w, WorkOK(w), w.ok, NEW u \in 0 .. Size(w.img) - 1, NEW v \in Vals,
         Accounted(w.img, {}, {}),
         L2Entry(w.img, w.l1, Cluster(u)).kind # "standard",
         WriteFresh(w, L2Entry(w.img, w.l1, Cluster(u)), u, v).ok
  PROVE  Accounted(WriteFresh(w, L2Entry(w.img, w.l1, Cluster(u)), u, v).img, {}, {})
<1> DEFINE c       == Cluster(u)
           e       == L2Entry(w.img, w.l1, c)
           content == [x \in 0 .. ClusterUnits - 1 |->
                         IF x = Within(u) THEN v
                         ELSE ReadCluster(w.img, w.l1, c * ClusterUnits + x)]
           y       == EnsureL2(w, c)
           k       == y.img.len
           z       == PutData(y, k, content)
           t       == FreeCompressed(z, e)
           r       == WriteFresh(w, e, u, v)
           s       == z.l1[c \div L2Entries]
           q       == c % L2Entries
           lost    == IF e.kind = "compressed" THEN {e.host} ELSE {}
<1>1. r = IF ~y.ok THEN y ELSE IF ~z.ok THEN z ELSE IF ~t.ok THEN t ELSE Reach(t, c, k)
  BY DEF WriteFresh, Then
<1>2. r.ok /\ e.kind # "standard"
  OBVIOUS
<1>3. c \in 0 .. w.img.virtual - 1
  BY UnitFacts DEF WorkOK
<1>4. content \in Contents
  BY FreshContents
<1> HIDE DEF c, content, r, t, z
<1>5. y.ok /\ z.ok /\ t.ok /\ r = Reach(t, c, k)
  BY <1>1, <1>2
<1>6. Unseen(w, y) /\ y.l1[c \div L2Entries] # 0 /\ WorkOK(y)
  <2>1. Unseen(w, y) /\ (y.ok => y.l1[c \div L2Entries] # 0)
    BY <1>3, EnsureKeeps
  <2> QED
    BY <1>5, <2>1 DEF Unseen
<1>7. Accounted(y.img, {}, {})
  BY <1>3, <1>5, EnsureAccounts
<1> HIDE DEF y
<1>8. /\ Unseen(y, z) /\ z.l1 = y.l1 /\ Unnamed(z.img, k) /\ WorkOK(z)
  <2>1. /\ Unseen(y, z) /\ z.l1 = y.l1 /\ (z.ok => Unnamed(z.img, k))
    BY <1>4, <1>5, <1>6, PutKeeps DEF z
  <2> QED
    BY <1>5, <2>1 DEF Unseen
<1>9. Accounted(z.img, {k}, {})
  BY <1>5, <1>6, <1>7, PutAccounts DEF z
<1> HIDE DEF k
<1>10. Unseen(w, z)
  BY <1>6, <1>8, UnseenTwice
<1>11. SoundImage(z.img) /\ z.l1 = z.img.l1 /\ c \in 0 .. z.img.virtual - 1
  BY <1>3, <1>8, <1>10 DEF WorkOK, Unseen
<1>12. L2Entry(z.img, z.img.l1, c) = e
  BY <1>3, <1>10, <1>11 DEF Unseen
<1> HIDE DEF e
<1>13. s \in DOMAIN z.img.l2 /\ q \in Slots /\ e = z.img.l2[s][q] /\ e.kind \in Kinds
  <2>1. s # 0 /\ s = z.img.l1[c \div L2Entries]
    BY <1>6, <1>8, <1>11
  <2>2. /\ q \in Slots
        /\ z.img.l1[c \div L2Entries] # 0 =>
             /\ z.img.l1[c \div L2Entries] \in DOMAIN z.img.l2
             /\ L2Entry(z.img, z.img.l1, c) = z.img.l2[z.img.l1[c \div L2Entries]][q]
        /\ L2Entry(z.img, z.img.l1, c).kind \in Kinds
    BY <1>11, EntryFacts
  <2> HIDE DEF s, q
  <2> QED
    BY <1>12, <2>1, <2>2
<1> HIDE DEF s, q
<1>14. WorkOK(t) /\ t.l1 = z.l1 /\ SameCells(z.img, t.img) /\ Accounted(t.img, {k}, lost)
  <2>1. CASE e.kind = "compressed"
    <3> DEFINE p == <<s, q>>
    <3>1. t = SetRefcount(z, e.host, 0)
      BY <2>1 DEF FreeCompressed, t
    <3>2. p \in Compresseds(z.img) /\ p[1] = s /\ p[2] = q
      BY <1>13, <2>1 DEF Compresseds, Slots
    <3>3. e.host # k
      BY <1>8, <1>13, <2>1 DEF Unnamed, HasData
    <3> HIDE DEF p
    <3>4. z.img.l2[p[1]][p[2]].host = e.host
      BY <1>13, <3>2
    <3>5. z.img.l2[p[1]][p[2]].host \notin {k} /\ SetRefcount(z, z.img.l2[p[1]][p[2]].host, 0).ok
      BY <1>5, <3>1, <3>3, <3>4
    <3>6. Accounted(SetRefcount(z, z.img.l2[p[1]][p[2]].host, 0).img, {k}, {z.img.l2[p[1]][p[2]].host})
      BY <1>5, <1>8, <1>9, <3>2, <3>5, FreeAccounts
    <3>7. Accounted(t.img, {k}, lost)
      BY <2>1, <3>1, <3>4, <3>6
    <3> QED
      BY <1>8, <3>1, <3>7, RefcountKeeps
  <2>2. CASE e.kind # "compressed"
    <3>1. t = z
      BY <2>2 DEF FreeCompressed, t
    <3>2. SameCells(z.img, z.img)
      BY <1>8 DEF WorkOK, SoundImage, ShapeOK, SameCells
    <3>3. lost = {}
      BY <2>2
    <3> QED
      BY <1>8, <1>9, <3>1, <3>2, <3>3
  <2> QED
    BY <2>1, <2>2
<1> DEFINE i == t.img
           j == PutEntry(i, s, q, Standard(k))
<1>15. r.img = j
  <2>1. t = [img |-> t.img, l1 |-> t.l1, ok |-> t.ok]
    BY <1>14 DEF WorkOK
  <2>2. r = [t EXCEPT !.img.l2[s][q] = Standard(k)]
    BY <1>5, <1>14 DEF Reach, s, q
  <2> QED
    BY <2>1, <2>2 DEF PutEntry
<1>16. SoundImage(i) /\ i.l2 = z.img.l2 /\ Unnamed(i, k) /\ k \in Nat
  <2>1. k \in Nat
    BY <1>6 DEF k, WorkOK, SoundImage, ShapeOK
  <2> QED
    BY <1>8, <1>14, <2>1 DEF WorkOK, SameCells, Unnamed
<1> HIDE DEF i
<1>17. Accounted(j, {}, {})
  <2>1. e.kind \in {"none", "zero", "compressed"}
    BY <1>2, <1>13 DEF Kinds
  <2>2. s \in DOMAIN i.l2 /\ e = i.l2[s][q] /\ Accounted(i, {k}, lost)
    BY <1>13, <1>14, <1>16 DEF i
  <2> QED
    BY <1>13, <1>16, <2>1, <2>2, EntryAccounts
<1> QED
  BY <1>15, <1>17 DEF r, e, c

LEMMA PlaceAccounts ==
  ASSUME NEW w, WorkOK(w), NEW e, NEW u, NEW v, Accounted(w.img, {}, {}),
         WriteInPlace(w, e, u, v).ok
  PROVE  Accounted(WriteInPlace(w, e, u, v).img, {}, {})
<1> DEFINE r   == WriteInPlace(w, e, u, v)
           i   == w.img
           j   == r.img
           put == [i.data EXCEPT ![<<e.host, 0>>] =
                     [i.data[<<e.host, 0>>] EXCEPT ![Within(u)] = v]]
<1>1. w = [img |-> i, l1 |-> w.l1, ok |-> w.ok]
  BY DEF WorkOK
<1>2. r = IF e.copied THEN [w EXCEPT !.img.data = put] ELSE [w EXCEPT !.ok = FALSE]
  BY DEF WriteInPlace, Refused
<1>3. r.ok
  OBVIOUS
<1> HIDE DEF r, put
<1>4. e.copied
  BY <1>1, <1>2, <1>3
<1>5. j = [i EXCEPT !.data = put]
  BY <1>1, <1>2, <1>4
<1> HIDE DEF i, j
<1>6. /\ j = [f \in DOMAIN i |-> j[f]] /\ j.len = i.len /\ j.table = i.table
      /\ j.counts = i.counts /\ j.fixed = i.fixed /\ j.l1 = i.l1 /\ j.l2 = i.l2
  BY <1>5 DEF i, Accounted, CountersOK, CountFields, Fields
<1>7. Accounted(j, {}, {})
  BY <1>6, SameAccount DEF i
<1> QED
  BY <1>7 DEF j, r

\* A write that is not refused leaves every cluster counted as often as it is
\* used, whatever it allocated and freed.
LEMMA WriteAccounts ==
  ASSUME NEW w, WorkOK(w), w.ok, NEW u \in 0 .. Size(w.img), NEW v \in Vals,
         Accounted(w.img, {}, {}), WriteCluster(w, u, v).ok
  PROVE  Accounted(WriteCluster(w, u, v).img, {}, {})
<1> DEFINE e == L2Entry(w.img, w.l1, Cluster(u))
           r == WriteCluster(w, u, v)
<1>1. ~(~w.img.plain \/ u >= Size(w.img))
  <2> SUFFICES ASSUME ~w.img.plain \/ u >= Size(w.img) PROVE FALSE
    OBVIOUS
  <2>1. r = Refused(w)
    BY DEF WriteCluster
  <2>2. Refused(w).ok = FALSE
    <3>1. w = [img |-> w.img, l1 |-> w.l1, ok |-> w.ok]
      BY DEF WorkOK
    <3> QED
      BY <3>1 DEF Refused
  <2>3. r.ok
    OBVIOUS
  <2> HIDE DEF r
  <2> QED
    BY <2>1, <2>2, <2>3
<1>2. r = WriteOver(w, e, u, v)
  BY <1>1 DEF WriteCluster
<1>3. u \in 0 .. Size(w.img) - 1
  BY <1>1, ShapeAssumption DEF Size, WorkOK, SoundImage, ShapeOK
<1>4. r.ok
  OBVIOUS
<1> HIDE DEF r
<1>5. CASE e.kind = "standard"
  <2>1. r = WriteInPlace(w, e, u, v)
    BY <1>2, <1>5 DEF WriteOver
  <2> HIDE DEF e
  <2>2. Accounted(r.img, {}, {})
    BY <1>4, <2>1, PlaceAccounts
  <2> QED
    BY <2>2 DEF r
<1>6. CASE e.kind # "standard"
  <2>1. r = WriteFresh(w, e, u, v)
    BY <1>2, <1>6 DEF WriteOver
  <2>2. Accounted(r.img, {}, {})
    BY <1>3, <1>4, <1>6, <2>1, FreshAccounts
  <2> QED
    BY <2>2 DEF r
<1> QED
  BY <1>5, <1>6

-----------------------------------------------------------------------------
(* The account, as it can be looked up in an image *)

CountedImage(i) ==
  /\ CountersOK(i) /\ FiniteOK(i) /\ Alone(i)
  /\ \A k \in 0 .. i.len - 1 : Count(i, k) = References(i, k)
  /\ \A k \in i.len .. TableLen * RefEntries - 1 : Count(i, k) = 0

LEMMA CountedIsAccounted ==
  ASSUME NEW i, SoundImage(i)
  PROVE  CountedImage(i) <=> Accounted(i, {}, {})
<1>1. \A c : Once({}, c) = 0
  BY DEF Once
<1>2. ASSUME CountedImage(i)
      PROVE  Accounted(i, {}, {})
  <2>1. CountersOK(i) /\ FiniteOK(i) /\ Alone(i) /\ i.len \in Nat
    BY <1>2 DEF CountedImage, CountersOK
  <2>2. ASSUME NEW c \in Nat
        PROVE  Count(i, c) = References(i, c)
    <3>1. CASE c < i.len
      BY <1>2, <2>1, <3>1 DEF CountedImage
    <3>2. CASE c >= i.len
      <4>1. References(i, c) = 0
        BY <2>1, <3>2, NonePastEnd
      <4>2. CASE c < TableLen * RefEntries
        <5>1. c \in i.len .. TableLen * RefEntries - 1
          BY <2>1, <3>2, <4>2, ShapeAssumption
        <5> QED
          BY <1>2, <4>1, <5>1 DEF CountedImage
      <4>3. CASE ~(c < TableLen * RefEntries)
        <5>1. BlockOf(c) >= TableLen /\ BlockOf(c) \in Nat
          BY <4>3, ShapeAssumption DEF BlockOf
        <5>2. ~Covered(i, c)
          BY <5>1, ShapeAssumption DEF Covered
        <5> QED
          BY <4>1, <5>2 DEF Count
      <4> QED
        BY <4>2, <4>3
    <3> QED
      BY <2>1, <3>1, <3>2
  <2>3. \A c \in Nat : References(i, c) \in Nat /\ Count(i, c) \in Nat
    BY <2>1, PartsFinite, CountFacts
  <2> QED
    BY <1>1, <2>1, <2>2, <2>3 DEF Accounted
<1>3. ASSUME Accounted(i, {}, {})
      PROVE  CountedImage(i)
  <2>1. CountersOK(i) /\ FiniteOK(i) /\ Alone(i) /\ i.len \in Nat
    BY <1>3 DEF Accounted, CountersOK
  <2>2. \A c \in Nat : References(i, c) \in Nat /\ Count(i, c) \in Nat
    BY <2>1, PartsFinite, CountFacts
  <2>3. \A c \in Nat : Count(i, c) = References(i, c)
    BY <1>1, <1>3, <2>2 DEF Accounted
  <2>4. \A k \in i.len .. TableLen * RefEntries - 1 : Count(i, k) = 0
    <3> SUFFICES ASSUME NEW k \in i.len .. TableLen * RefEntries - 1 PROVE Count(i, k) = 0
      OBVIOUS
    <3>1. k \in Nat /\ k >= i.len
      BY <2>1, ShapeAssumption
    <3> QED
      BY <2>1, <2>3, <3>1, NonePastEnd
  <2>5. \A k \in 0 .. i.len - 1 : Count(i, k) = References(i, k)
    BY <2>1, <2>3
  <2> QED
    BY <2>1, <2>4, <2>5 DEF CountedImage
<1> QED
  BY <1>2, <1>3

\* Counted between writes, and when the last commit landed.  A commit that
\* failed part-way leaves clusters counted that nothing uses, until it is
\* discarded.
CInv == IInv /\ (batch = "open" => CountedImage(img)) /\ CountedImage(keptImg)

LEMMA StepCounts ==
  ASSUME \A i \in Images : SoundImage(i) /\ CountedImage(i), CInv, [Next]_vars
  PROVE  CInv'
<1>1. IInv'
  BY StepQcow DEF CInv
<1>2. CASE \E u \in 0 .. Size(img), v \in Vals : Stage(u, v)
  <2> PICK u \in 0 .. Size(img), v \in Vals : Stage(u, v)
    BY <1>2
  <2> DEFINE r == WriteCluster(Work, u, v)
  <2>1. WorkOK(Work) /\ Work.ok /\ Work.img = img /\ Work.l1 = l1
    BY DEF Work, WorkOK, IInv, CInv
  <2>2. /\ img' = r.img /\ keptImg' = keptImg /\ batch = "open"
        /\ batch' = IF r.ok THEN "open" ELSE "refused"
    BY DEF Stage, Staged
  <2>3. Accounted(img, {}, {})
    BY <2>1, <2>2, CountedIsAccounted DEF CInv, IInv
  <2>4. r.ok => Accounted(r.img, {}, {})
    BY <2>1, <2>3, WriteAccounts
  <2> HIDE DEF r
  <2>5. SoundImage(r.img)
    BY <1>1, <2>2 DEF IInv
  <2>6. batch' = "open" => CountedImage(r.img)
    BY <2>2, <2>4, <2>5, CountedIsAccounted
  <2> QED
    BY <1>1, <2>2, <2>6 DEF CInv
<1>3. CASE Land
  BY <1>1, <1>3 DEF Land, CInv
<1>4. CASE Discard
  BY <1>1, <1>4 DEF Discard, CInv
<1>5. CASE UNCHANGED vars
  BY <1>1, <1>5 DEF vars, CInv
<1> QED
  BY <1>2, <1>3, <1>4, <1>5 DEF Next

LEMMA CountedIsExact ==
  ASSUME CInv
  PROVE  RefcountsExact
<1> SUFFICES ASSUME batch = "open" PROVE RefcountsExact
  BY DEF RefcountsExact
<1>1. SoundImage(img) /\ CountedImage(img) /\ l1 = img.l1
  BY DEF CInv, IInv
<1>2. \A p \in Standards(img) : img.l2[p[1]][p[2]].host < img.len
  BY <1>1, HostInFile
<1> QED
  BY <1>1, <1>2 DEF CountedImage, RefcountsExact

\* Whatever a write allocates - a cluster, an L2 table, refcount blocks and
\* the blocks that count those - and whatever compressed cluster it frees,
\* between writes every cluster of the file is counted exactly as often as it
\* is used (RefcountsExact), over images that count their clusters so and in
\* which a compressed cluster shares its host cluster with nothing
\* (set_refcount, append_cluster, ensure_l2, write_cluster).
THEOREM RefcountsTheorem ==
  ASSUME \A i \in Images : SoundImage(i) /\ CountedImage(i)
  PROVE  Spec => []RefcountsExact
<1>1. Init => CInv
  BY DEF Init, IInv, CInv
<1>2. CInv /\ [Next]_vars => CInv'
  BY StepCounts
<1>3. CInv => RefcountsExact
  BY CountedIsExact
<1> QED
  BY <1>1, <1>2, <1>3, PTL DEF Spec

\* Over such images the comment of write_cluster is right: a cluster whose
\* count a write set to 0 is used by nothing, and neither is any other counted
\* free (FreeIsUnused).
THEOREM FreeTheorem ==
  ASSUME \A i \in Images : SoundImage(i) /\ CountedImage(i)
  PROVE  Spec => []FreeIsUnused
<1>1. RefcountsExact => FreeIsUnused
  BY DEF RefcountsExact, FreeIsUnused
<1> QED
  BY <1>1, RefcountsTheorem, PTL
=============================================================================
