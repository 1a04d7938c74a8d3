-------------------------------- MODULE Vdi --------------------------------
(***************************************************************************)
(* The VDI driver (crates/remanence/src/image/vdi.rs): a block map in the  *)
(* file and no state of its own; a differencing image falls through to its *)
(* parent, block by block.                                                 *)
(*                                                                         *)
(* An image is a record: its type, the blocks it declares (count), the     *)
(* number it accounts as allocated, the block map, the data blocks by      *)
(* index, and what its parent presents (of length 0 where it has none).    *)
(***************************************************************************)
EXTENDS Integers, FiniteSets, TLAPS

CONSTANTS
  Images,      \* the images the driver may be opened over
  BlockUnits,  \* units written separately, per block
  Vals, Zero,
  MaxWrites    \* bound: writes between two commits

VARIABLES img, keptImg, batch, writes

vars == <<img, keptImg, batch, writes>>

\* The two entries that name no data block.
BlockFree == -1
BlockZero == -2
Holes     == {BlockFree, BlockZero}

Size(i)   == i.virtual * BlockUnits
Block(u)  == u \div BlockUnits
Within(u) == u % BlockUnits

ReadParent(i, u) == IF u < i.parent.len THEN i.parent.at[u] ELSE Zero

\* data_at: an index past the declared blocks is refused.
DataAt(i, e) == e < i.count

ReadBlock(i, u) ==
  LET e == i.map[Block(u)]
  IN  CASE e = BlockFree -> ReadParent(i, u)
        [] e = BlockZero -> Zero
        [] OTHER         -> i.data[e][Within(u)]

\* Mutant of Seed: a fresh block starts zeroed whatever showed through.
SeedZero(i, e, u) == Zero

\* What the rest of a fresh block reads as: the parent shows through a block
\* never allocated, and a discarded one masked it.
Seed(i, e, u) == IF e = BlockFree THEN ReadParent(i, u) ELSE Zero

\* Mutant of Allocate: the count of allocated blocks is not written.
AllocateUncounted(i, b, e, u, v) ==
  LET x       == i.allocated
      content == [y \in 0 .. BlockUnits - 1 |->
                    IF y = Within(u) THEN v ELSE Seed(i, e, b * BlockUnits + y)]
  IN  [i EXCEPT
        !.data = [y \in DOMAIN i.data \cup {x} |->
                    IF y = x THEN content ELSE i.data[y]],
        !.map[b] = x]

Allocate(i, b, e, u, v) ==
  LET x       == i.allocated
      content == [y \in 0 .. BlockUnits - 1 |->
                    IF y = Within(u) THEN v ELSE Seed(i, e, b * BlockUnits + y)]
  IN  [i EXCEPT
        !.data = [y \in DOMAIN i.data \cup {x} |->
                    IF y = x THEN content ELSE i.data[y]],
        !.map[b] = x,
        !.allocated = x + 1]

Accepts(i, u) ==
  /\ u < Size(i)
  /\ LET e == i.map[Block(u)]
     IN  IF e \in Holes THEN i.type # "fixed" /\ i.allocated < i.count
                        ELSE DataAt(i, e)

WriteBlock(i, u, v) ==
  LET e == i.map[Block(u)]
  IN  IF e \in Holes THEN Allocate(i, Block(u), e, u, v)
                     ELSE [i EXCEPT !.data[e][Within(u)] = v]

-----------------------------------------------------------------------------
(* The driver under a commit's write-through *)

Init ==
  /\ img \in Images
  /\ keptImg = img
  /\ batch = "open" /\ writes = 0

Stage(u, v) ==
  /\ batch = "open" /\ writes < MaxWrites
  /\ IF Accepts(img, u)
       THEN img' = WriteBlock(img, u, v) /\ UNCHANGED batch
       ELSE batch' = "refused" /\ UNCHANGED img
  /\ writes' = writes + 1
  /\ UNCHANGED keptImg

Land ==
  /\ batch = "open" /\ writes > 0
  /\ keptImg' = img /\ writes' = 0
  /\ UNCHANGED <<img, batch>>

\* Nothing but host writes to put back: cache_snapshot is None.
Discard ==
  /\ writes > 0
  /\ img' = keptImg /\ batch' = "open" /\ writes' = 0
  /\ UNCHANGED keptImg

Next ==
  \/ \E u \in 0 .. Size(img), v \in Vals : Stage(u, v)
  \/ Land
  \/ Discard

Spec == Init /\ [][Next]_vars

-----------------------------------------------------------------------------
(* Properties *)

Mapped(i) == {b \in DOMAIN i.map : i.map[b] \notin Holes}

\* No two guest blocks share a data block, each one reached is accounted for,
\* and the accounting never passes the blocks the image declares
\* (write_block: the map entry and the count are two writes).
MapExact ==
  /\ \A b, c \in Mapped(img) : img.map[b] = img.map[c] => b = c
  /\ \A b \in Mapped(img) : img.map[b] < img.allocated
  /\ img.allocated <= img.count

View(i) == [u \in 0 .. Size(i) - 1 |-> ReadBlock(i, u)]

-----------------------------------------------------------------------------
(* The disk the driver presents, and why no write strays *)

Overlay == INSTANCE BufferedDisk WITH
  Places <- 0 .. Size(img) - 1, Contents <- Vals,
  view  <- View(img),
  saved <- View(keptImg)

\* Whatever the mapping does, a driver over a sound image is the disk it
\* presents: a write changes the unit it is to and no other.
OverlaySpec == Overlay!Spec

Cells    == 0 .. BlockUnits - 1
Fields   == {"virtual", "count", "allocated", "map", "data", "parent"}
Contents == [Cells -> Vals]

\* What the header is refused without: the declared blocks cover the disk and
\* are at least as many as are allocated.  Behind it, what every writer keeps:
\* an entry names an allocated block, and no other entry names it.
Shaped(i) ==
  /\ i = [f \in DOMAIN i |-> i[f]] /\ Fields \subseteq DOMAIN i
  /\ i.virtual \in Nat /\ i.count \in Nat /\ i.allocated \in Nat
  /\ i.virtual <= i.count /\ i.allocated <= i.count
  /\ i.map = [b \in DOMAIN i.map |-> i.map[b]] /\ DOMAIN i.map = 0 .. i.count - 1
  /\ i.data = [x \in DOMAIN i.data |-> i.data[x]]
  /\ DOMAIN i.data = 0 .. i.allocated - 1
  /\ \A x \in DOMAIN i.data : i.data[x] \in Contents
  /\ i.parent.len \in Nat
  /\ \A u \in 0 .. i.parent.len - 1 : i.parent.at[u] \in Vals

MappedOnce(i) ==
  /\ \A b \in Mapped(i) : i.map[b] \in Nat /\ i.map[b] < i.allocated
  /\ \A b, c \in Mapped(i) : i.map[b] = i.map[c] => b = c

SoundImage(i) == Shaped(i) /\ MappedOnce(i)

IInv ==
  /\ SoundImage(img) /\ SoundImage(keptImg)
  /\ keptImg.virtual = img.virtual
  /\ writes \in Nat

\* The assumptions on the constants: the images opened are sound.
Sound ==
  /\ BlockUnits \in Nat \ {0}
  /\ Zero \in Vals
  /\ \A i \in Images : SoundImage(i)

\* A unit is a cell of a block: which block, and where in it, say which unit.
LEMMA Placing ==
  ASSUME BlockUnits \in Nat \ {0}, NEW u \in Nat
  PROVE  /\ Block(u) \in Nat /\ Within(u) \in Cells
         /\ u = Block(u) * BlockUnits + Within(u)
         /\ \A w \in Nat : Block(w) = Block(u) /\ Within(w) = Within(u) => w = u
<1>1. Block(u) \in Nat /\ Within(u) \in Cells /\ u = Block(u) * BlockUnits + Within(u)
  BY DEF Block, Within, Cells
<1>2. ASSUME NEW w \in Nat, Block(w) = Block(u), Within(w) = Within(u)
      PROVE  w = u
  BY <1>2 DEF Block, Within
<1> QED
  BY <1>1, <1>2

\* Every unit of the disk is in a block the map has an entry for.
LEMMA InMap ==
  ASSUME BlockUnits \in Nat \ {0}, NEW i, Shaped(i), NEW u \in 0 .. Size(i) - 1
  PROVE  u \in Nat /\ Block(u) \in DOMAIN i.map
<1>1. u \in Nat /\ i.virtual \in Nat /\ u < i.virtual * BlockUnits
  BY DEF Shaped, Size
<1>2. u \div BlockUnits \in Nat
  BY <1>1
<1>3. u \div BlockUnits < i.virtual
  BY <1>1
<1> QED
  BY <1>1, <1>2, <1>3 DEF Block, Shaped

\* An entry that is not a hole names a block with contents.
LEMMA Reached ==
  ASSUME BlockUnits \in Nat \ {0}, NEW i, SoundImage(i), NEW u \in 0 .. Size(i) - 1,
         i.map[Block(u)] \notin Holes
  PROVE  /\ Block(u) \in Mapped(i)
         /\ i.map[Block(u)] \in DOMAIN i.data /\ i.map[Block(u)] \in Nat
         /\ i.map[Block(u)] < i.allocated
         /\ ReadBlock(i, u) = i.data[i.map[Block(u)]][Within(u)]
<1>1. Block(u) \in Mapped(i)
  BY InMap DEF Mapped, SoundImage
<1>2. i.map[Block(u)] \in Nat /\ i.map[Block(u)] < i.allocated
  BY <1>1 DEF SoundImage, MappedOnce
<1>3. i.map[Block(u)] \in DOMAIN i.data
  BY <1>2 DEF SoundImage, Shaped
<1>4. ReadBlock(i, u) = i.data[i.map[Block(u)]][Within(u)]
  BY DEF ReadBlock, Holes, BlockFree, BlockZero
<1> QED
  BY <1>1, <1>2, <1>3, <1>4

\* What a sound image presents is a disk of values.
LEMMA ReadsVals ==
  ASSUME BlockUnits \in Nat \ {0}, Zero \in Vals, NEW i, SoundImage(i), NEW u \in 0 .. Size(i) - 1
  PROVE  ReadBlock(i, u) \in Vals
<1>1. u \in Nat /\ ReadParent(i, u) \in Vals
  BY InMap DEF SoundImage, Shaped, ReadParent
<1>2. CASE i.map[Block(u)] \in Holes
  BY <1>1, <1>2 DEF ReadBlock, Holes, BlockFree, BlockZero
<1>3. CASE i.map[Block(u)] \notin Holes
  <2>1. i.map[Block(u)] \in DOMAIN i.data /\ ReadBlock(i, u) = i.data[i.map[Block(u)]][Within(u)]
    BY <1>3, Reached
  <2>2. i.data[i.map[Block(u)]] \in Contents
    BY <2>1 DEF SoundImage, Shaped
  <2> QED
    BY <1>1, <2>1, <2>2, Placing DEF Contents
<1> QED
  BY <1>2, <1>3

\* A write to an allocated block changes one cell of its contents.
LEMMA WriteInPlace ==
  ASSUME BlockUnits \in Nat \ {0}, NEW i, SoundImage(i), NEW u \in 0 .. Size(i) - 1, NEW v \in Vals,
         i.map[Block(u)] \notin Holes
  PROVE  LET n == WriteBlock(i, u, v)
         IN  /\ SoundImage(n) /\ n.virtual = i.virtual
             /\ \A w \in 0 .. Size(i) - 1 :
                  ReadBlock(n, w) = IF w = u THEN v ELSE ReadBlock(i, w)
<1> DEFINE e == i.map[Block(u)]
           n == WriteBlock(i, u, v)
<1>1. /\ Block(u) \in Mapped(i) /\ e \in DOMAIN i.data
      /\ u \in Nat /\ Within(u) \in Cells
  BY Reached, InMap, Placing DEF SoundImage
<1>2. n = [i EXCEPT !.data[e][Within(u)] = v]
  BY DEF WriteBlock
<1>3. /\ n = [f \in DOMAIN i |-> n[f]] /\ DOMAIN n = DOMAIN i
      /\ n.virtual = i.virtual /\ n.count = i.count /\ n.allocated = i.allocated
      /\ n.map = i.map /\ n.parent = i.parent
      /\ n.data = [i.data EXCEPT ![e][Within(u)] = v]
  BY <1>2 DEF SoundImage, Shaped, Fields
<1> HIDE DEF n
<1>4. /\ n.data = [x \in DOMAIN i.data |-> n.data[x]] /\ DOMAIN n.data = DOMAIN i.data
      /\ \A x \in DOMAIN i.data :
           n.data[x] = IF x = e THEN [i.data[e] EXCEPT ![Within(u)] = v] ELSE i.data[x]
  BY <1>1, <1>3 DEF SoundImage, Shaped
<1>5. i.data[e] \in Contents
  BY <1>1 DEF SoundImage, Shaped
<1>6. n.data[e] \in Contents /\ \A y \in Cells :
        n.data[e][y] = IF y = Within(u) THEN v ELSE i.data[e][y]
  BY <1>1, <1>4, <1>5 DEF Contents
<1>7. Shaped(n)
  BY <1>3, <1>4, <1>6 DEF SoundImage, Shaped
<1>8. Mapped(n) = Mapped(i)
  BY <1>3 DEF Mapped
<1>9. SoundImage(n)
  BY <1>3, <1>7, <1>8 DEF SoundImage, MappedOnce
<1>10. ASSUME NEW w \in 0 .. Size(i) - 1
       PROVE  ReadBlock(n, w) = IF w = u THEN v ELSE ReadBlock(i, w)
  <2>1. w \in Nat /\ Within(w) \in Cells
    BY InMap, Placing DEF SoundImage
  <2>2. Size(n) = Size(i)
    BY <1>3 DEF Size
  <2>3. CASE i.map[Block(w)] \in Holes
    <3>1. w # u
      BY <2>3
    <3>2. ReadBlock(n, w) = ReadBlock(i, w)
      BY <1>3, <2>3 DEF ReadBlock, ReadParent, Holes, BlockFree, BlockZero
    <3> QED
      BY <3>1, <3>2
  <2>4. CASE i.map[Block(w)] \notin Holes
    <3>1. /\ Block(w) \in Mapped(i) /\ i.map[Block(w)] \in DOMAIN i.data
          /\ ReadBlock(i, w) = i.data[i.map[Block(w)]][Within(w)]
      BY <2>4, Reached
    <3>2. ReadBlock(n, w) = n.data[i.map[Block(w)]][Within(w)]
      BY <1>3, <1>9, <2>2, <2>4, Reached
    <3>3. CASE i.map[Block(w)] = e
      <4>1. Block(w) = Block(u)
        BY <1>1, <3>1, <3>3 DEF SoundImage, MappedOnce
      <4>2. Within(w) = Within(u) <=> w = u
        BY <1>1, <2>1, <4>1, Placing
      <4> QED
        BY <1>6, <2>1, <3>1, <3>2, <3>3, <4>2
    <3>4. CASE i.map[Block(w)] # e
      BY <1>4, <3>1, <3>2, <3>4
    <3> QED
      BY <3>3, <3>4
  <2> QED
    BY <2>3, <2>4
<1> QED
  BY <1>3, <1>9, <1>10 DEF n

\* A write to a hole takes the next block, and the block reads what the hole
\* did wherever the write is not.
LEMMA WriteFresh ==
  ASSUME BlockUnits \in Nat \ {0}, Zero \in Vals, NEW i, SoundImage(i),
         NEW u \in 0 .. Size(i) - 1, NEW v \in Vals,
         i.map[Block(u)] \in Holes, i.allocated < i.count
  PROVE  LET n == WriteBlock(i, u, v)
         IN  /\ SoundImage(n) /\ n.virtual = i.virtual
             /\ \A w \in 0 .. Size(i) - 1 :
                  ReadBlock(n, w) = IF w = u THEN v ELSE ReadBlock(i, w)
<1> DEFINE e == i.map[Block(u)]
           b == Block(u)
           x == i.allocated
           n == WriteBlock(i, u, v)
           content == [y \in Cells |->
                         IF y = Within(u) THEN v ELSE Seed(i, e, b * BlockUnits + y)]
<1>1. u \in Nat /\ b \in DOMAIN i.map /\ b \in Nat /\ Within(u) \in Cells /\ x \in Nat
  BY InMap, Placing DEF SoundImage, Shaped
<1>2. n = [i EXCEPT !.data = [y \in DOMAIN i.data \cup {x} |->
                                IF y = x THEN content ELSE i.data[y]],
                    !.map[b] = x,
                    !.allocated = x + 1]
  BY DEF WriteBlock, Allocate, Cells
<1>3. /\ n = [f \in DOMAIN i |-> n[f]] /\ DOMAIN n = DOMAIN i
      /\ n.virtual = i.virtual /\ n.count = i.count /\ n.allocated = x + 1
      /\ n.map = [i.map EXCEPT ![b] = x] /\ n.parent = i.parent
      /\ n.data = [y \in DOMAIN i.data \cup {x} |-> IF y = x THEN content ELSE i.data[y]]
  <2> DEFINE grown == [y \in DOMAIN i.data \cup {x} |-> IF y = x THEN content ELSE i.data[y]]
  <2> HIDE DEF grown, content
  <2>1. n = [i EXCEPT !.data = grown, !.map = [i.map EXCEPT ![b] = x], !.allocated = x + 1]
    BY <1>2, ZenonT(30) DEF grown
  <2>2. /\ n = [f \in DOMAIN i |-> n[f]] /\ DOMAIN n = DOMAIN i
        /\ n.virtual = i.virtual /\ n.count = i.count /\ n.allocated = x + 1
        /\ n.map = [i.map EXCEPT ![b] = x] /\ n.parent = i.parent /\ n.data = grown
    BY <2>1 DEF SoundImage, Shaped, Fields
  <2> QED
    BY <2>2 DEF grown
<1> HIDE DEF n
<1>4. content \in Contents
  <2>1. \A y \in Cells : b * BlockUnits + y \in Nat
    BY <1>1 DEF Cells
  <2>2. \A y \in Cells : Seed(i, e, b * BlockUnits + y) \in Vals
    BY <2>1 DEF Seed, ReadParent, SoundImage, Shaped
  <2> QED
    BY <2>2 DEF Contents
<1>5. /\ DOMAIN n.data = 0 .. n.allocated - 1 /\ n.data = [y \in DOMAIN n.data |-> n.data[y]]
      /\ n.data[x] = content
      /\ \A y \in DOMAIN i.data : n.data[y] = i.data[y]
  <2> HIDE DEF content
  <2>1. DOMAIN n.data = DOMAIN i.data \cup {x} /\ n.data = [y \in DOMAIN n.data |-> n.data[y]]
    BY <1>3
  <2>2. DOMAIN i.data = 0 .. x - 1
    BY DEF SoundImage, Shaped
  <2>3. DOMAIN i.data \cup {x} = 0 .. (x + 1) - 1 /\ x \notin DOMAIN i.data
    BY <1>1, <2>2
  <2>4. n.data[x] = content /\ \A y \in DOMAIN i.data : n.data[y] = i.data[y]
    BY <1>3, <2>3
  <2> QED
    BY <1>3, <2>1, <2>3, <2>4
<1> HIDE DEF content
<1>6. /\ DOMAIN n.map = DOMAIN i.map /\ n.map = [c \in DOMAIN n.map |-> n.map[c]]
      /\ \A c \in DOMAIN i.map : n.map[c] = IF c = b THEN x ELSE i.map[c]
  BY <1>1, <1>3 DEF SoundImage, Shaped
<1>7. Shaped(n)
  <2>1. \A y \in DOMAIN n.data : n.data[y] \in Contents
    BY <1>1, <1>3, <1>4, <1>5 DEF SoundImage, Shaped
  <2>2. n.virtual \in Nat /\ n.count \in Nat /\ n.allocated \in Nat
        /\ n.virtual <= n.count /\ n.allocated <= n.count
    BY <1>1, <1>3 DEF SoundImage, Shaped
  <2>3. DOMAIN n.map = 0 .. n.count - 1
    BY <1>3, <1>6 DEF SoundImage, Shaped
  <2>4. n.parent.len \in Nat /\ \A w \in 0 .. n.parent.len - 1 : n.parent.at[w] \in Vals
    BY <1>3 DEF SoundImage, Shaped
  <2>5. n = [f \in DOMAIN n |-> n[f]] /\ Fields \subseteq DOMAIN n
    BY <1>3 DEF SoundImage, Shaped
  <2> QED
    BY <1>5, <1>6, <2>1, <2>2, <2>3, <2>4, <2>5 DEF Shaped
<1>8. \A c \in Mapped(n) : (c = b /\ n.map[c] = x) \/ (c \in Mapped(i) /\ n.map[c] = i.map[c])
  BY <1>6 DEF Mapped
<1>9. SoundImage(n)
  BY <1>1, <1>3, <1>7, <1>8 DEF SoundImage, MappedOnce
<1>10. Size(n) = Size(i)
  BY <1>3 DEF Size
<1>11. ASSUME NEW w \in 0 .. Size(i) - 1
       PROVE  ReadBlock(n, w) = IF w = u THEN v ELSE ReadBlock(i, w)
  <2>1. w \in Nat /\ Within(w) \in Cells /\ Block(w) \in DOMAIN i.map
    BY InMap, Placing DEF SoundImage
  <2>2. CASE Block(w) = b
    <3>1. n.map[Block(w)] = x /\ x \notin Holes
      BY <1>1, <1>6, <2>1, <2>2 DEF Holes, BlockFree, BlockZero
    <3>2. ReadBlock(n, w) = content[Within(w)]
      BY <1>5, <1>9, <1>10, <3>1, Reached
    <3>3. w = b * BlockUnits + Within(w) /\ (Within(w) = Within(u) <=> w = u)
      BY <1>1, <2>1, <2>2, Placing
    <3>4. ReadBlock(i, w) = Seed(i, e, w)
      BY <2>2 DEF ReadBlock, Seed, Holes, BlockFree, BlockZero
    <3> QED
      BY <2>1, <3>2, <3>3, <3>4 DEF content
  <2>3. CASE Block(w) # b /\ i.map[Block(w)] \in Holes
    <3>1. n.map[Block(w)] = i.map[Block(w)] /\ w # u
      BY <1>6, <2>1, <2>3
    <3>2. ReadBlock(n, w) = ReadBlock(i, w)
      BY <1>3, <2>3, <3>1 DEF ReadBlock, ReadParent, Holes, BlockFree, BlockZero
    <3> QED
      BY <3>1, <3>2
  <2>4. CASE Block(w) # b /\ i.map[Block(w)] \notin Holes
    <3>1. n.map[Block(w)] = i.map[Block(w)] /\ w # u
      BY <1>6, <2>1, <2>4
    <3>2. ReadBlock(n, w) = n.data[i.map[Block(w)]][Within(w)]
      BY <1>9, <1>10, <2>4, <3>1, Reached
    <3>3. i.map[Block(w)] \in DOMAIN i.data
          /\ ReadBlock(i, w) = i.data[i.map[Block(w)]][Within(w)]
      BY <2>4, Reached
    <3> QED
      BY <1>5, <3>1, <3>2, <3>3
  <2> QED
    BY <2>2, <2>3, <2>4
<1> QED
  BY <1>3, <1>9, <1>11 DEF n

\* A write the driver takes: a step of the disk it presents.
LEMMA StageStep ==
  ASSUME Sound, IInv, NEW u \in 0 .. Size(img), NEW v \in Vals, Stage(u, v)
  PROVE  IInv' /\ [Overlay!Next]_<<View(img), View(keptImg)>>
<1> USE DEF Sound
<1>1. CASE Accepts(img, u)
  <2>1. img' = WriteBlock(img, u, v) /\ keptImg' = keptImg /\ writes' = writes + 1
    BY <1>1 DEF Stage
  <2>2. u \in 0 .. Size(img) - 1
    BY <1>1 DEF Accepts, Size, IInv, SoundImage, Shaped
  <2>3. /\ SoundImage(img') /\ img'.virtual = img.virtual
        /\ \A w \in 0 .. Size(img) - 1 :
             ReadBlock(img', w) = IF w = u THEN v ELSE ReadBlock(img, w)
    <3>1. CASE img.map[Block(u)] \in Holes
      BY <1>1, <2>1, <2>2, <3>1, WriteFresh DEF Accepts, IInv
    <3>2. CASE img.map[Block(u)] \notin Holes
      BY <2>1, <2>2, <3>2, WriteInPlace DEF IInv
    <3> QED
      BY <3>1, <3>2
  <2>4. IInv'
    BY <2>1, <2>3 DEF IInv
  <2>5. View(img)' = [View(img) EXCEPT ![u] = v] /\ View(keptImg)' = View(keptImg)
    BY <2>1, <2>2, <2>3 DEF View, Size
  <2>6. Overlay!Write(u, v)
    BY <2>5 DEF Overlay!Write
  <2> QED
    BY <2>2, <2>4, <2>6 DEF Overlay!Next
<1>2. CASE ~Accepts(img, u)
  <2>1. img' = img /\ keptImg' = keptImg /\ writes' = writes + 1
    BY <1>2 DEF Stage
  <2> QED
    BY <2>1 DEF IInv, View
<1> QED
  BY <1>1, <1>2

\* Every step of the driver.
LEMMA StepVdi ==
  ASSUME Sound, IInv, [Next]_vars
  PROVE  IInv' /\ [Overlay!Next]_<<View(img), View(keptImg)>>
<1>1. CASE \E u \in 0 .. Size(img), v \in Vals : Stage(u, v)
  BY <1>1, StageStep
<1>2. CASE Land
  BY <1>2 DEF Land, IInv, Overlay!Next, Overlay!Commit
<1>3. CASE Discard
  BY <1>3 DEF Discard, IInv, Overlay!Next, Overlay!Rollback
<1>4. CASE UNCHANGED vars
  BY <1>4 DEF vars, IInv, View
<1> QED
  BY <1>1, <1>2, <1>3, <1>4 DEF Next

\* No two blocks of the guest ever share a data block, and the accounting
\* never passes the declared blocks (write_block's three writes), whatever is
\* written, refused, landed or put back, over any sound image.
THEOREM MapTheorem ==
  ASSUME Sound
  PROVE  Spec => []MapExact
<1>1. Init => IInv
  BY DEF Sound, Init, IInv
<1>2. IInv /\ [Next]_vars => IInv'
  BY StepVdi
<1>3. IInv => MapExact
  BY DEF IInv, SoundImage, Shaped, MappedOnce, MapExact
<1> QED
  BY <1>1, <1>2, <1>3, PTL DEF Spec

\* The driver is the disk it presents: an allocation seeds the rest of its
\* block with what the hole read, a write reaches the one unit it is to, a
\* refused one reaches none, and a batch put back leaves no trace.
THEOREM OverlayTheorem ==
  ASSUME Sound
  PROVE  Spec => OverlaySpec
<1>1. Init => IInv
  BY DEF Sound, Init, IInv
<1>2. IInv /\ [Next]_vars => IInv'
  BY StepVdi
<1>3. IInv /\ [Next]_vars => [Overlay!Next]_<<View(img), View(keptImg)>>
  BY StepVdi
<1>4. Init => Overlay!Init
  <2> SUFFICES ASSUME Init PROVE Overlay!Init
    OBVIOUS
  <2>1. SoundImage(img) /\ keptImg = img
    BY DEF Sound, Init
  <2>2. View(img) \in [0 .. Size(img) - 1 -> Vals]
    BY <2>1, ReadsVals DEF View, Sound
  <2> QED
    BY <2>1, <2>2 DEF Overlay!Init
<1> QED
  BY <1>1, <1>2, <1>3, <1>4, PTL DEF Spec, OverlaySpec, Overlay!Spec
=============================================================================
