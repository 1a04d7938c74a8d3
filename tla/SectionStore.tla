---------------------------- MODULE SectionStore ----------------------------
(***************************************************************************)
(* The backing both flux layers stream into (flux/capture/sections.rs):    *)
(* sections appended in key order, sealed by leaves, a root and a footer,  *)
(* and served through a bounded working set.  The module keeps no state:   *)
(* a layer holds the records, the writer's entries and the working set.    *)
(*                                                                         *)
(* The storage is a sequence of records, an offset is a place in it, a key *)
(* is a tuple, and a section's check tells a record that changed.          *)
(***************************************************************************)
EXTENDS Integers, Sequences, SequencesExt, FiniteSetsExt

CONSTANTS
  LeafEntries,  \* sections one leaf describes (64)
  CacheBound    \* values the working set holds

Section(key, payload) == [key |-> key, payload |-> payload]

After(key, other) ==
  \E i \in DOMAIN key : key[i] > other[i] /\ \A j \in 1 .. i - 1 : key[j] = other[j]
AtMost(key, other) == key = other \/ After(other, key)

\* Chunks of a count of records, so the same evidence always splits the same.
PieceCount(items, size) == (Len(items) + size - 1) \div size
Piece(items, size, n)   == SubSeq(items, (n - 1) * size + 1, Min({n * size, Len(items)}))

-----------------------------------------------------------------------------
(* Writing *)

\* A section must sort after every section already appended.
Sorts(entries, key) == entries # <<>> => After(key, entries[Len(entries)].key)

Record(payload) == [section |-> payload, sound |-> TRUE]
Entry(key, at)  == [key |-> key, at |-> at]

\* The leaves, the root naming the first key of each, and the footer.
Index(entries, end) ==
  LET leaves  == PieceCount(entries, LeafEntries)
      leaf(n) == Piece(entries, LeafEntries, n)
  IN  [n \in 1 .. leaves |-> [leaf |-> leaf(n)]]
      \o <<[root |-> [n \in 1 .. leaves |-> [first |-> leaf(n)[1].key, at |-> end + n]]],
           [footer |-> end + leaves + 1]>>

\* The storage gives back other bytes than the n-th record's.
Changed(backing, n) == [backing EXCEPT ![n] = [section |-> <<0>>, sound |-> FALSE]]

-----------------------------------------------------------------------------
(* Reading *)

\* Mutant of Locate: the leaf is sought by strict order.
LocateStrictly(backing, key) ==
  LET root  == backing[backing[Len(backing)].footer].root
      below == {n \in DOMAIN root : \A m \in 1 .. n : After(key, root[m].first)}
      leaf  == IF below = {} THEN <<>> ELSE backing[root[Max(below)].at].leaf
  IN  {leaf[n].at : n \in {m \in DOMAIN leaf : leaf[m].key = key}}

\* The last leaf whose first key does not exceed the key is the only one.
Locate(backing, key) ==
  LET root  == backing[backing[Len(backing)].footer].root
      below == {n \in DOMAIN root : \A m \in 1 .. n : AtMost(root[m].first, key)}
      leaf  == IF below = {} THEN <<>> ELSE backing[root[Max(below)].at].leaf
  IN  {leaf[n].at : n \in {m \in DOMAIN leaf : leaf[m].key = key}}

\* A record is believed once it checks to what the index states.
ReadSection(backing, key) ==
  {backing[at].section : at \in {a \in Locate(backing, key) : backing[a].sound}}

Held(cache, key) == {n \in DOMAIN cache : cache[n].key = key}
Size(items)      == Len(FlattenSeq([n \in DOMAIN items |-> items[n].payload]))

\* The coldest go until what is wanted fits.
WithRoomFor(cache, wanted) ==
  LET rest(n) == SubSeq(cache, n + 1, Len(cache))
      enough  == {n \in 0 .. Len(cache) :
                    n = Len(cache) \/ Size(rest(n)) + Len(wanted) <= CacheBound}
  IN  rest(Min(enough))

\* What asking for a section may give and the working set after it: a section
\* held is served without the storage and becomes the warmest.
Asked(backing, cache, key) ==
  IF Held(cache, key) # {}
  THEN LET n == Min(Held(cache, key))
       IN  {[payload |-> cache[n].payload, cache |-> Append(RemoveAt(cache, n), cache[n])]}
  ELSE {[payload |-> p, cache |-> Append(WithRoomFor(cache, p), Section(key, p))] :
          p \in ReadSection(backing, key)}

\* The working set is bounded, except by one section larger than the bound.
IsBounded(cache) == Size(cache) <= CacheBound \/ Len(cache) = 1
=============================================================================
