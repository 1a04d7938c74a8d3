----------------------------- MODULE FluxMedium -----------------------------
(***************************************************************************)
(* A flux medium and its backing (flux/medium.rs): the pulses of each      *)
(* location stream into private storage, angles on one circle, and a drive *)
(* reads an arc at a time, a chunk at a time.                              *)
(***************************************************************************)
EXTENDS SectionStore

CONSTANTS
  Masters,      \* sequences of locations: [position |-> .., pulses |-> .., seams |-> ..]
  Rotation,     \* cycles of one rotation
  ChunkRecords, \* pulses one section holds (4096)
  MaxReads

VARIABLES
  master,       \* the locations handed to the builder
  phase,        \* "building", "sealed" or "failed"
  added,
  todo, entries, backing, cache,
  call,         \* the arc being read or the last one
  reads

mediumVars == <<master, phase, added, todo, entries, backing, cache, call, reads>>

NoCall == [state |-> "idle"]

MediumInit ==
  /\ master \in Masters
  /\ phase = "building" /\ added = 0
  /\ todo = <<>> /\ entries = <<>> /\ backing = <<>> /\ cache = <<>>
  /\ call = NoCall /\ reads = 0

-----------------------------------------------------------------------------
(* Building *)

Metadata == 0
Pulses   == 1
Facts    == 2

\* Angles on the circle, each past the one before it.
OnTheCircle(location) ==
  /\ \A k \in DOMAIN location.pulses :
       /\ location.pulses[k] < Rotation
       /\ k > 1 => location.pulses[k] > location.pulses[k - 1]
  /\ \A k \in DOMAIN location.seams : location.seams[k] < Rotation

Split(position, kind, items) ==
  [n \in 1 .. PieceCount(items, ChunkRecords) |->
     Section(<<position, kind, n>>, Piece(items, ChunkRecords, n))]

LocationSections(location) ==
  <<Section(<<location.position, Metadata, 0>>, <<>>)>>
    \o Split(location.position, Pulses, location.pulses)
    \o Split(location.position, Facts, location.seams)

Fail ==
  /\ phase' = "failed"
  /\ UNCHANGED <<master, added, todo, entries, backing, cache, call, reads>>

AddLocation ==
  /\ phase = "building" /\ todo = <<>> /\ added < Len(master)
  /\ \/ ~OnTheCircle(master[added + 1]) /\ Fail
     \/ /\ OnTheCircle(master[added + 1])
        /\ added' = added + 1
        /\ todo' = LocationSections(master[added + 1])
        /\ UNCHANGED <<master, phase, entries, backing, cache, call, reads>>

AppendSection ==
  /\ phase = "building" /\ todo # <<>>
  /\ \/ Fail
     \/ /\ Sorts(entries, Head(todo).key)
        /\ backing' = Append(backing, Record(Head(todo).payload))
        /\ entries' = Append(entries, Entry(Head(todo).key, Len(backing) + 1))
        /\ todo' = Tail(todo)
        /\ UNCHANGED <<master, phase, added, cache, call, reads>>

Seal ==
  /\ phase = "building" /\ todo = <<>> /\ added = Len(master)
  /\ \/ Fail
     \/ /\ backing' = backing \o Index(entries, Len(backing))
        /\ phase' = "sealed"
        /\ UNCHANGED <<master, added, todo, entries, cache, call, reads>>

-----------------------------------------------------------------------------
(* Arcs *)

AskArc ==
  /\ phase = "sealed" /\ call.state # "reading" /\ reads < MaxReads
  /\ \E l \in DOMAIN master, from, to \in 0 .. Rotation + 1 :
       call' = [state    |-> IF from < to /\ to <= Rotation THEN "reading" ELSE "refused",
                location |-> l, from |-> from, to |-> to, pulses |-> <<>>, chunk |-> 1]
  /\ reads' = reads + 1
  /\ UNCHANGED <<master, phase, added, todo, entries, backing, cache>>

\* Mutant of InArc: the end of the arc is part of it.
InArcClosed(pulses) == SelectSeq(pulses, LAMBDA p : p >= call.from /\ p <= call.to)

InArc(pulses) == SelectSeq(pulses, LAMBDA p : p >= call.from /\ p < call.to)

\* A chunk opens with its first pulse, so the walk ends with the first one
\* that opens past the span.
LoadArcChunk ==
  LET location == master[call.location]
      count    == PieceCount(location.pulses, ChunkRecords)
      given    == Asked(backing, cache, <<location.position, Pulses, call.chunk>>)
  IN  /\ call.state = "reading"
      /\ \/ /\ call.chunk <= count
            /\ \E g \in given :
                 /\ cache' = g.cache
                 /\ call' = [call EXCEPT
                               !.pulses = @ \o InArc(g.payload),
                               !.chunk  = IF g.payload[1] >= call.to THEN count + 1 ELSE @ + 1]
         \/ /\ call.chunk > count
            /\ call' = [call EXCEPT !.state = "answered"] /\ UNCHANGED cache
      /\ UNCHANGED <<master, phase, added, todo, entries, backing, reads>>

MediumNext == AddLocation \/ AppendSection \/ Seal \/ AskArc \/ LoadArcChunk

-----------------------------------------------------------------------------
(* Properties *)

\* An arc is the pulses of the location in it, in order: stopping early drops
\* none, and the working set changes nothing that is read
\* (medium.rs:843-851).
ArcIsWhole ==
  call.state = "answered" =>
    call.pulses = SelectSeq(master[call.location].pulses,
                            LAMBDA p : p \in call.from .. call.to - 1)

\* A medium that was sealed states each position once, in order, and every
\* pulse of it is an angle on its circle (medium.rs:910-912, 967-972).
SealedIsOrdered ==
  phase = "sealed" =>
    /\ \A l \in 2 .. Len(master) : master[l].position > master[l - 1].position
    /\ \A l \in DOMAIN master : Range(master[l].pulses) \subseteq 0 .. Rotation - 1

MediumIsServed == ArcIsWhole /\ SealedIsOrdered /\ IsBounded(cache)
=============================================================================
