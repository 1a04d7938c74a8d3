-------------------------------- MODULE Cpm ---------------------------------
(***************************************************************************)
(* The CP/M 2.2 namespace (crates/remanence/src/filesystem/cpm.rs): a file *)
(* is assembled from the directory entries of its user and name, each an   *)
(* extent with its number, its record count and its block pointers, in no  *)
(* order the directory promises.                                           *)
(*                                                                         *)
(* A disk d is its directory's entries in slot order and the allocation    *)
(* blocks the artifact really holds.  A record is known by its block and   *)
(* place.                                                                  *)
(***************************************************************************)
EXTENDS Integers, Sequences, FiniteSets, SequencesExt

CONSTANTS
  CpmBlocks,      \* allocation blocks the declared layout states
  BlockRecords,   \* records of an allocation block
  FullExtent      \* records of a full extent (128)

\* Mutant of InExtentOrder: the order of the directory's slots.
InSlotOrder(d) == d.slots

\* Entries in extent order; entries of one extent number keep slot order.
InExtentOrder(d) ==
  LET Precedes(m, n) == \/ d.slots[m].extent < d.slots[n].extent
                        \/ d.slots[m].extent = d.slots[n].extent /\ m < n
      order == SetToSortSeq(DOMAIN d.slots, Precedes)
  IN  [n \in DOMAIN order |-> d.slots[order[n]]]

Same(f, e) == f.user = e.user /\ f.name = e.name

\* An extent joins the file so far, or starts one.
Joined(files, e) ==
  LET at == SelectInSeq(files, LAMBDA f : Same(f, e))
  IN  IF at = 0
      THEN Append(files, [user |-> e.user, name |-> e.name, blocks |-> e.blocks,
                          last |-> e.records, extents |-> 1])
      ELSE [files EXCEPT ![at].blocks  = @ \o e.blocks,
                         ![at].extents = @ + 1,
                         ![at].last    = e.records]

Files(d) == FoldLeft(Joined, <<>>, InExtentOrder(d))

\* Every extent but the last is full by construction.
Records(f) == (f.extents - 1) * FullExtent + f.last

Lists(d) == \A n \in DOMAIN d.slots : \A k \in DOMAIN d.slots[n].blocks :
              d.slots[n].blocks[k] < CpmBlocks

Least(a, b) == IF a < b THEN a ELSE b

\* The records a block gives of those still wanted when its turn comes.
Given(f, k) ==
  LET before == (k - 1) * BlockRecords
  IN  IF Records(f) <= before THEN 0 ELSE Least(Records(f) - before, BlockRecords)

ReadExtents(d, f) ==
  IF /\ Records(f) <= Len(f.blocks) * BlockRecords
     /\ \A k \in DOMAIN f.blocks : Given(f, k) > 0 => f.blocks[k] \in d.held
  THEN [ok |-> TRUE,
        bytes |-> FlattenSeq([k \in DOMAIN f.blocks |->
          [r \in 1 .. Given(f, k) |-> <<f.blocks[k], r>>]])]
  ELSE [ok |-> FALSE, bytes |-> <<>>]

Entry(d, f) == [name |-> f.name, size |-> Records(f),
                readable |-> ReadExtents(d, f).ok]
Listing(d)  == [n \in DOMAIN Files(d) |-> Entry(d, Files(d)[n])]

\* The first file of the name, whichever user's it is.
ReadFile(d, name) ==
  LET n == SelectInSeq(Files(d), LAMBDA f : f.name = name)
  IN  IF Lists(d) /\ n # 0 THEN ReadExtents(d, Files(d)[n])
      ELSE [ok |-> FALSE, bytes |-> <<>>]

-----------------------------------------------------------------------------

\* Where CP/M itself puts record r of the file: in the extent its number
\* gives, in the block that extent names for it.  Defined where the extents
\* are all there, and all but the last are full.
Extents(d, user, name) ==
  {e \in {d.slots[n] : n \in DOMAIN d.slots} : e.user = user /\ e.name = name}

Dense(d, user, name) ==
  LET all == Extents(d, user, name)
      n   == Cardinality(all)
  IN  /\ {e.extent : e \in all} = 0 .. n - 1
      /\ Cardinality({k \in DOMAIN d.slots : d.slots[k] \in all}) = n
      /\ \A e \in all :
           /\ e.extent < n - 1 => e.records = FullExtent
           /\ Len(e.blocks) = (e.records + BlockRecords - 1) \div BlockRecords

PlaceOf(d, user, name, r) ==
  LET e == CHOOSE x \in Extents(d, user, name) : x.extent = r \div FullExtent
      k == (r % FullExtent) \div BlockRecords
  IN  <<e.blocks[k + 1], (r % BlockRecords) + 1>>
=============================================================================
