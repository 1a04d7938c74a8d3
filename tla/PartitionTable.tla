--------------------------- MODULE PartitionTable ---------------------------
(***************************************************************************)
(* What sector 0 declares, the walk along the extended chain, and the      *)
(* partition pool a medium gets of it (crates/remanence/src/partition/     *)
(* mbr.rs and mod.rs).                                                     *)
(*                                                                         *)
(* A sector is abstracted to what the reader tells apart: all zero, its    *)
(* signature, whether it looks like a boot record, and its table's slots,  *)
(* each a kind of type byte and a start.  The walk is a loop over what a   *)
(* disk somebody else wrote holds, so its links may lead anywhere.         *)
(***************************************************************************)
EXTENDS Integers, Sequences, FiniteSets

CONSTANTS
  Disks,      \* sequences of sectors, sector 0 first
  MaxHops     \* links the walk follows (128 in the code)

VARIABLES
  disk,       \* the presented disk
  scheme,     \* the scheme the device type declares: "mbr", or "none"
  content,    \* what sector 0 turned out to be; "unread" before it is read
  rows,       \* the rows reported so far
  chain,      \* where the walk stands: the base and the next boot record
  hops        \* links followed

tableVars == <<disk, scheme, content, rows, chain, hops>>

Data == "data"  Extended == "extended"  Foreign == "foreign"  Empty == "empty"
Pinned == {Data, Extended}

Entries == [type : {Data, Extended, Foreign, Empty}, start : Nat]
Sectors == [zero : BOOLEAN, signed : BOOLEAN, bpb : BOOLEAN, slots : Seq(Entries)]

\* A table has four slots, of which the chain's boot records use two.
ASSUME TableAssumption ==
  /\ MaxHops \in Nat
  /\ Disks \subseteq Seq(Sectors)
  /\ \A d \in Disks : \A n \in DOMAIN d : Len(d[n].slots) >= 2

Ended == [base |-> 0, at |-> 0, walking |-> FALSE]

Readable(at) == at < Len(disk)
Sector(at)   == disk[at + 1]

-----------------------------------------------------------------------------
(* Sector 0 *)

Leading ==
  LET boot == Sector(0)
  IN  CASE ~Readable(0) -> "refused"
        [] Readable(0) /\ scheme = "mbr" ->
             IF boot.zero THEN "blank"
             ELSE IF ~boot.signed THEN "unknown"
             ELSE IF boot.bpb THEN "volume" ELSE "table"
        [] OTHER ->
             IF boot.zero THEN "blank"
             ELSE IF boot.bpb THEN "volume" ELSE "unknown"

Slots == IF Leading = "table" THEN Sector(0).slots ELSE <<>>

\* The slots that are not empty, in their order.
Declared ==
  LET Upto[n \in 0 .. Len(Slots)] ==
        IF n = 0 THEN <<>>
        ELSE IF Slots[n].type = Empty THEN Upto[n - 1]
        ELSE Append(Upto[n - 1], Slots[n])
  IN  Upto[Len(Slots)]

\* The slots that hold an extended partition, of which the first is walked.
ExtendedAmong(slots) == {n \in 1 .. Len(slots) : slots[n].type = Extended}
FirstExtended(slots) ==
  CHOOSE n \in ExtendedAmong(slots) : \A m \in ExtendedAmong(slots) : n <= m

Row(kind, slot, at, issue) ==
  [kind |-> kind, type |-> slot.type, start |-> at + slot.start, ebr |-> at,
   issue |-> issue]

Primary(n) ==
  Row("primary", Declared[n], 0,
      CASE Declared[n].type \notin Pinned -> "foreign"
        [] n \in ExtendedAmong(Declared) /\ n # FirstExtended(Declared) -> "second"
        [] OTHER -> "none")

\* Reading sector 0: every declared slot is a row, and the first extended one
\* starts the walk.
Discover ==
  /\ content = "unread"
  /\ content' = Leading
  /\ rows' = [n \in 1 .. Len(Declared) |-> Primary(n)]
  /\ chain' =
       IF ExtendedAmong(Declared) = {} THEN Ended
       ELSE LET base == Declared[FirstExtended(Declared)].start
            IN  [base |-> base, at |-> base, walking |-> TRUE]
  /\ UNCHANGED <<disk, scheme, hops>>

-----------------------------------------------------------------------------
(* The extended chain *)

\* Mutant of GiveUp: the extended row stays clean.
GiveUpQuietly(found) == rows' = found /\ chain' = Ended

\* The walk gives up: the extended row carries the issue, the rows found stay.
GiveUp(found) ==
  /\ rows' = [found EXCEPT ![FirstExtended(Declared)].issue = "chain"]
  /\ chain' = Ended

Unfollowable ==
  \/ hops + 1 > MaxHops
  \/ ~Readable(chain.at)
  \/ ~Sector(chain.at).signed

Logical(at) ==
  LET slot == Sector(at).slots[1]
  IN  Row("logical", slot, at,
          CASE slot.type = Extended -> "nested"
            [] slot.type \notin Pinned -> "foreign"
            [] OTHER -> "none")

\* The link of the boot record the walk stands at, and the rows with the one
\* for the logical partition the record names.
Link == Sector(chain.at).slots[2]
WithLogical ==
  IF Sector(chain.at).slots[1].type = Empty THEN rows ELSE Append(rows, Logical(chain.at))

Follow ==
  /\ chain.walking
  /\ hops' = hops + 1
  /\ UNCHANGED <<disk, scheme, content>>
  /\ IF Unfollowable THEN GiveUp(rows)
     ELSE CASE Link.type = Empty -> rows' = WithLogical /\ chain' = Ended
            [] Link.type = Extended ->
                 /\ rows' = WithLogical
                 /\ chain' = [chain EXCEPT !.at = chain.base + Link.start]
            [] OTHER -> GiveUp(WithLogical)

-----------------------------------------------------------------------------
(* The pool *)

Walked == content # "unread" /\ ~chain.walking

Addressable(row) == row.type = Data /\ row.issue = "none"

\* The direct partition stands for the whole content where no table is read.
Direct(addressable, namespace) ==
  [kind |-> "direct", ordinal |-> 0, type |-> Empty, start |-> 0,
   addressable |-> addressable, namespace |-> namespace]

Declares(n) ==
  [kind |-> rows[n].kind, ordinal |-> n, type |-> rows[n].type,
   start |-> rows[n].start, addressable |-> Addressable(rows[n]),
   namespace |-> IF Addressable(rows[n]) THEN "fat" ELSE "none"]

Pool ==
  IF content = "table" THEN [n \in 1 .. Len(rows) |-> Declares(n)]
  ELSE <<Direct(TRUE, "none")>>

-----------------------------------------------------------------------------

TableInit ==
  /\ disk \in Disks /\ scheme \in {"mbr", "none"}
  /\ content = "unread" /\ rows = <<>> /\ chain = Ended /\ hops = 0

TableNext == Discover \/ Follow
TableSpec == TableInit /\ [][TableNext]_tableVars

-----------------------------------------------------------------------------
(* Properties *)

\* The boot records the chain's links lead to: the least set that holds the
\* extended partition's start and the target of each of its links.
Links(at) ==
  IF Readable(at) /\ Sector(at).signed THEN {Sector(at).slots[2]} ELSE {}
Targets(base, at) == {base + l.start : l \in {k \in Links(at) : k.type = Extended}}
Places(base)    == {base} \cup UNION {Targets(base, at) : at \in 0 .. Len(disk)}
Closed(base, S) == base \in S /\ \A at \in S : Targets(base, at) \subseteq S
Reach(base) ==
  {at \in Places(base) : \A S \in SUBSET Places(base) : Closed(base, S) => at \in S}

\* The chain is whole: every boot record on it reads and links on or ends it,
\* it does end, and it is no longer than the walk.
Whole(reach) ==
  /\ \A at \in reach : Links(at) # {} /\ \A l \in Links(at) : l.type \in {Empty, Extended}
  /\ \E at \in reach : \E l \in Links(at) : l.type = Empty
  /\ Cardinality(reach) <= MaxHops

\* A chain the walk cannot follow attaches its issue to the extended row and
\* stops (mbr.rs:449-453): the row is clean exactly when the chain is whole,
\* and then the pool's volumes are the data partitions of sector 0 and of
\* every boot record on the chain, each of them once.
CleanRowIsWholeChain ==
  Walked /\ ExtendedAmong(Declared) # {} =>
    LET first   == FirstExtended(Declared)
        reach   == Reach(Declared[first].start)
        logical == {n \in DOMAIN rows : rows[n].kind = "logical"}
        spans   == {<<0, Declared[n].start>> : n \in {m \in DOMAIN Declared : Declared[m].type = Data}}
                   \cup {<<at, at + Sector(at).slots[1].start>> :
                           at \in {x \in reach : Links(x) # {} /\ Sector(x).slots[1].type = Data}}
    IN  /\ rows[first].issue = "none" <=> Whole(reach)
        /\ {rows[n].ebr : n \in logical} \subseteq reach
        /\ Whole(reach) =>
             /\ \A n, m \in logical : rows[n].ebr = rows[m].ebr => n = m
             /\ {<<rows[n].ebr, Pool[n].start>> : n \in {m \in DOMAIN Pool : Pool[m].addressable}} = spans

-----------------------------------------------------------------------------
(* The inductive invariant behind CleanRowIsWholeChain *)

Rows == [kind : {"primary", "logical"}, type : {Data, Extended, Foreign, Empty},
         start : Nat, ebr : Nat, issue : {"none", "foreign", "second", "nested", "chain"}]

TableTypeOK ==
  /\ disk \in Disks /\ rows \in Seq(Rows) /\ hops \in Nat
  /\ chain \in [base : Nat, at : Nat, walking : BOOLEAN]

First == FirstExtended(Declared)
Base  == Declared[First].start

LinksOn(at) == Readable(at) /\ Sector(at).signed /\ Sector(at).slots[2].type = Extended

\* The rows after those of sector 0, and the boot records that name a partition.
Later(found) == {n \in 1 .. Len(found) : n > Len(Declared)}
Naming(V)    == {v \in V : Sector(v).slots[1].type # Empty}

\* The rows found: those of sector 0 as they were read, and then rows that the
\* boot records in V named.
RowsOf(found, V) ==
  /\ Len(Declared) <= Len(found)
  /\ \A n \in 1 .. Len(Declared) : found[n] = Primary(n)
  /\ \A n \in Later(found) :
       found[n].ebr \in Naming(V) /\ found[n] = Logical(found[n].ebr)

OneRowEach(found, V) ==
  /\ \A v \in Naming(V) : \E n \in Later(found) : found[n].ebr = v
  /\ \A n, m \in Later(found) : found[n].ebr = found[m].ebr => n = m

\* The boot records walked are V and the next is chain.at.  Every one of V
\* links on, to another of them or to the next.  Either the next one was walked
\* before, and the links go round for good, or none was walked twice.
Trail(V) ==
  /\ ExtendedAmong(Declared) # {} /\ content = "table" /\ chain.base = Base
  /\ V \cup {chain.at} \subseteq Reach(Base) /\ Base \in V \cup {chain.at}
  /\ \A v \in V : LinksOn(v) /\ Targets(Base, v) \subseteq V \cup {chain.at}
  /\ RowsOf(rows, V)
  /\ chain.at \in V \/ (Cardinality(V) = hops /\ OneRowEach(rows, V))

TableIInv ==
  /\ content = "unread" => chain = Ended /\ rows = <<>> /\ hops = 0
  /\ chain.walking => \E V \in SUBSET Reach(Base) : Trail(V)
  /\ CleanRowIsWholeChain
=============================================================================
