------------------------------ MODULE KryoFlux ------------------------------
(***************************************************************************)
(* A KryoFlux collection (flux/kryoflux.rs): the set's members are         *)
(* admitted by their names as one capture, and each member's stream is     *)
(* decoded into the run it recorded.  The device reports an index out of   *)
(* band and ahead of the flux it belongs to, by the position in the stream *)
(* of the cell that was being measured.                                    *)
(*                                                                         *)
(* A stream is a sequence of items, each as many stream bytes wide as the  *)
(* grammar makes it; a tick is a sample, an overflow Full of them.         *)
(***************************************************************************)
EXTENDS Integers, Sequences, SequencesExt, FiniteSetsExt

CONSTANTS
  Inputs,       \* a collection's names with the stream of a member of it
  Full          \* what an overflow adds (65536)

VARIABLES
  names,        \* the collection's
  members,      \* those admitted, in order
  stream,       \* of the member being decoded
  phase,        \* "set", "members", "decoding", "placing", "done" or "refused"
  at,           \* items decoded
  position,     \* of the next byte of the stream proper
  cellStart,    \* where the cell in progress began
  overflow,     \* ticks carried into it
  starts,       \* where each cell's first byte sat
  ticks,        \* where each ended
  pending,      \* index records waiting for the flux they name
  markers       \* indices placed: [of |-> record, tick |-> ..]

kryoVars == <<names, members, stream, phase, at, position, cellStart, overflow, starts,
              ticks, pending, markers>>

KryoInit ==
  /\ \E input \in Inputs : names = input.names /\ stream = input.stream
  /\ phase = "set" /\ members = <<>> /\ at = 0
  /\ position = 0 /\ cellStart = 0 /\ overflow = 0
  /\ starts = <<>> /\ ticks = <<>> /\ pending = <<>> /\ markers = <<>>

-----------------------------------------------------------------------------
(* The set *)

Member(capture, step, head) == [capture |-> capture, step |-> step, head |-> head]

\* A name outside the grammar parses as nothing.
Parsed(name) == name.capture # "unrelated"

Before(m, n) == m.step < n.step \/ (m.step = n.step /\ m.head < n.head)

InOrder(set) == SortSeq(set, Before)

OneCapture(set) ==
  /\ set # <<>>
  /\ \A k \in DOMAIN set : Parsed(set[k])
  /\ \A k \in DOMAIN set : set[k].capture = set[1].capture

NoTwice(sorted) ==
  \A k \in 2 .. Len(sorted) :
    sorted[k].step # sorted[k - 1].step \/ sorted[k].head # sorted[k - 1].head

HeadsOf(sorted) == SelectSeq(sorted, LAMBDA m : m.step = sorted[1].step)

\* The heads of the first position are the heads the set must carry.
Covered(sorted) ==
  LET heads == HeadsOf(sorted)
  IN  /\ \A k \in DOMAIN heads : heads[k].head = k - 1
      /\ sorted[1].step = 0
      /\ \A step \in 0 .. sorted[Len(sorted)].step, head \in 0 .. Len(heads) - 1 :
           \E k \in DOMAIN sorted : sorted[k].step = step /\ sorted[k].head = head

Admit ==
  /\ phase = "set"
  /\ IF OneCapture(names) /\ NoTwice(InOrder(names)) /\ Covered(InOrder(names))
     THEN members' = InOrder(names) /\ phase' = "decoding"
     ELSE phase' = "refused" /\ UNCHANGED members
  /\ UNCHANGED <<names, stream, at, position, cellStart, overflow, starts, ticks, pending,
                 markers>>

-----------------------------------------------------------------------------
(* The stream *)

Item == stream[at + 1]

Took(kind) == phase = "decoding" /\ at < Len(stream) /\ Item.kind = kind /\ at' = at + 1

Elapsed == IF ticks = <<>> THEN 0 ELSE ticks[Len(ticks)]

\* A cell of one to three bytes ends in a transition.
Flux ==
  /\ Took("flux")
  /\ starts' = Append(starts, cellStart)
  /\ ticks' = Append(ticks, Elapsed + overflow + Item.value)
  /\ overflow' = 0
  /\ position' = position + Item.width /\ cellStart' = position'
  /\ UNCHANGED <<names, members, stream, phase, pending, markers>>

Overflow ==
  /\ Took("overflow")
  /\ overflow' = overflow + Full
  /\ position' = position + 1
  /\ UNCHANGED <<names, members, stream, phase, cellStart, starts, ticks, pending, markers>>

Padding ==
  /\ Took("nop")
  /\ position' = position + Item.width /\ cellStart' = position'
  /\ UNCHANGED <<names, members, stream, phase, overflow, starts, ticks, pending, markers>>

\* Out of band: no byte of it is a byte of the stream.
IndexRecord ==
  /\ Took("index")
  /\ pending' = Append(pending, [position |-> Item.position, counter |-> Item.counter])
  /\ UNCHANGED <<names, members, stream, phase, position, cellStart, overflow, starts, ticks,
                 markers>>

OtherRecord ==
  /\ Took("other")
  /\ UNCHANGED <<names, members, stream, phase, position, cellStart, overflow, starts, ticks,
                 pending, markers>>

\* The stream's end, a member that ends without one, or inside a record.
StreamEnds ==
  /\ phase = "decoding"
  /\ \/ at = Len(stream) /\ phase' = "placing"
     \/ at < Len(stream) /\ Item.kind = "end" /\ phase' = "placing"
     \/ at < Len(stream) /\ Item.kind = "torn" /\ phase' = "refused"
  /\ UNCHANGED <<names, members, stream, at, position, cellStart, overflow, starts, ticks,
                 pending, markers>>

\* Mutant of IndexTick: the index is placed in the cell before its own.
IndexTickBefore(record) ==
  LET cell == Len(SelectSeq(starts, LAMBDA s : s < record.position))
  IN  (IF cell >= 2 THEN ticks[cell - 1] ELSE 0) + record.counter

\* The last cell to start at or below the position is the one in progress;
\* the index sits past the transition it began at.
IndexTick(record) ==
  LET cell == Len(SelectSeq(starts, LAMBDA s : s <= record.position))
  IN  (IF cell >= 2 THEN ticks[cell - 1] ELSE 0) + record.counter

\* Transitions must advance for there to be a run.
Advancing == \A k \in 2 .. Len(ticks) : ticks[k] > ticks[k - 1]

PlaceIndices ==
  /\ phase = "placing"
  /\ IF Advancing /\ \A k \in DOMAIN pending : pending[k].position <= position
     THEN /\ phase' = "done"
          /\ markers' = [k \in DOMAIN pending |->
                           [of |-> pending[k], tick |-> IndexTick(pending[k])]]
     ELSE phase' = "refused" /\ UNCHANGED markers
  /\ UNCHANGED <<names, members, stream, at, position, cellStart, overflow, starts, ticks,
                 pending>>

KryoNext ==
  \/ Admit \/ Flux \/ Overflow \/ Padding \/ IndexRecord \/ OtherRecord \/ StreamEnds
  \/ PlaceIndices

-----------------------------------------------------------------------------
(* Properties *)

\* No location is stated twice and none below the last is missing for the
\* heads of the first (kryoflux.rs:183-187).
AdmittedAreApart ==
  \A j, k \in DOMAIN members :
    /\ members[j].step = members[k].step /\ members[j].head = members[k].head => j = k
    /\ \E m \in Range(members) : m.step = members[k].step /\ m.head = 0

\* The stream proper as far as it was decoded, from the items alone.
InBand   == SelectSeq(SubSeq(stream, 1, at), LAMBDA i : i.kind \in {"flux", "overflow", "nop"})
Width(i) == IF i.kind = "overflow" THEN 1 ELSE i.width
Lasts(i) == CASE i.kind = "flux" -> i.value [] i.kind = "overflow" -> Full [] OTHER -> 0

Upto(measure(_), n) ==
  FoldSeq(LAMBDA item, sum : sum + measure(item), 0, SubSeq(InBand, 1, n))

\* A cell is a flux value and the overflows before it.
CellFrom(k) ==
  CHOOSE j \in 1 .. k : /\ \A i \in j .. k - 1 : InBand[i].kind = "overflow"
                        /\ j > 1 => InBand[j - 1].kind # "overflow"
LastTransition(k) ==
  LET before == {0} \cup {j \in 1 .. k - 1 : InBand[j].kind = "flux"} IN Max(before)

\* An index is placed in the cell whose bytes its record names, past the
\* transition that cell began at (kryoflux.rs:500-506), whatever records and
\* overflows came between and however early the record was.
IndexIsInItsCell ==
  phase = "done" =>
    \A m \in Range(markers), k \in {j \in DOMAIN InBand : InBand[j].kind = "flux"} :
      m.of.position \in Upto(Width, CellFrom(k) - 1) .. Upto(Width, k) - 1
        => m.tick = Upto(Lasts, LastTransition(k)) + m.of.counter
=============================================================================
