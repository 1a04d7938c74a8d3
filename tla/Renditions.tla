------------------------------ MODULE Renditions ------------------------------
(***************************************************************************)
(* The C64 renditions of a remanence image (flux/c1541/renditions.rs):     *)
(* g64, d64 and p64.  Every orbit is placed on the half-track grid by its  *)
(* radius, clocked, read or projected in the destination's own order, and  *)
(* what the destination does not hold is counted.                          *)
(*                                                                         *)
(* An orbit is [radius, points, cell, blocks]: the cell its intervals      *)
(* imply, and the blocks its clocked bits frame at it, each at a bit of a  *)
(* circle of Bits.  A point is [angle, coherent].                          *)
(***************************************************************************)
EXTENDS Integers, FiniteSets, Sequences, SequencesExt, FiniteSetsExt, Bags, TLC

CONSTANTS
  Images,       \* sequences of orbits
  Lattice,      \* [first, pitch, steps]: a radius, a ratio of a micron, the steps there are
  Divisions,    \* of a turn (2^28)
  Bits,         \* of a clocked turn
  Nominal,      \* the cells of the zones, outermost last
  Slots,        \* half-tracks a g64 numbers (84)
  Cycles,       \* of one rotation (3,200,000)
  Sectors       \* of each track of the grid, as a sequence

VARIABLES
  image,
  want,         \* "g64", "d64" or "p64"
  phase,        \* "placing", "laying", "rendered", "written", "refused" or "failed"
  order,        \* orbits still to lay, [orbit, step], in the order they are laid
  loss,         \* what is left behind, a bag of codes
  tracks,       \* laid so far, each with the orbit it is of: slots of a g64,
                \* half-tracks of a p64
  blocks,       \* of a d64: what is laid at each address
  target        \* what the destination names, a set of at most one

renditionVars == <<image, want, phase, order, loss, tracks, blocks, target>>

Loss(code, count) == IF count = 0 THEN EmptyBag ELSE code :> count

-----------------------------------------------------------------------------
(* The grid *)

\* To the nearest, halves away from zero.
Rounded(n, d) ==
  IF n >= 0 THEN (2 * n + d) \div (2 * d) ELSE -((2 * (-n) + d) \div (2 * d))

\* The step a radius sits on, as a set of at most one: the lattice's own radius
\* of that step is a micron away at most.
StepOf(radius) ==
  LET step   == Rounded((Lattice.first - radius) * Lattice.pitch[2], Lattice.pitch[1])
      onGrid == Rounded(Lattice.first * Lattice.pitch[2] - step * Lattice.pitch[1],
                        Lattice.pitch[2])
  IN  IF step \in 0 .. Lattice.steps /\ onGrid - radius \in -1 .. 1 THEN {step} ELSE {}

\* By step, and orbits of one step as the image has them.
Before(o, p) == o.step < p.step \/ (o.step = p.step /\ o.orbit < p.orbit)
\* Whole tracks before the half-tracks between them.
WholeFirst(o, p) ==
  \/ o.step % 2 < p.step % 2
  \/ o.step % 2 = p.step % 2 /\ Before(o, p)

Sorted(placed, Less(_, _)) ==
  [n \in 1 .. Cardinality(placed) |->
     CHOOSE o \in placed : Cardinality({p \in placed : Less(p, o)}) = n - 1]

OnGrid == UNION {{[orbit |-> n, step |-> s] : s \in StepOf(image[n].radius)} : n \in DOMAIN image}

\* Mutant of PlaceOrbits: a d64 too is laid in the order of the steps.
PlaceOrbitsByStep ==
  /\ phase = "placing" /\ phase' = "laying"
  /\ order' = Sorted(OnGrid, Before)
  /\ loss' = loss (+) Loss("orbit-off-grid", Len(image) - Cardinality(OnGrid))
  /\ UNCHANGED <<image, want, tracks, blocks, target>>

PlaceOrbits ==
  /\ phase = "placing" /\ phase' = "laying"
  /\ order' = IF want = "d64" THEN Sorted(OnGrid, WholeFirst) ELSE Sorted(OnGrid, Before)
  /\ loss' = loss (+) Loss("orbit-off-grid", Len(image) - Cardinality(OnGrid))
  /\ UNCHANGED <<image, want, tracks, blocks, target>>

\* What is at the destination already.
Another == [tracks |-> <<>>, blocks |-> <<>>, map |-> <<>>]

RenditionInit ==
  /\ image \in Images /\ want \in {"g64", "d64", "p64"}
  /\ phase = "placing" /\ order = <<>> /\ loss = EmptyBag
  /\ tracks = <<>> /\ blocks = <<>>
  /\ target \in {{}, {Another}}

-----------------------------------------------------------------------------
(* One orbit *)

Coherent(orbit) ==
  LET kept == SelectSeq(orbit.points, LAMBDA p : p.coherent)
  IN  [n \in DOMAIN kept |-> kept[n].angle]
Skipped(orbit) == Len(orbit.points) - Len(Coherent(orbit))

\* Each interval is a whole number of cells, the nearest and at least one; the
\* last wraps past the origin to the first.
Clocked(angles, cell) ==
  [n \in DOMAIN angles |->
     LET span == angles[(n % Len(angles)) + 1] - angles[n]
     IN  Max({1, Rounded(IF span <= 0 THEN span + Divisions ELSE span, cell)})]

Apart(a, b) == IF a > b THEN a - b ELSE b - a

\* The first of the zones whose cell is nearest.
SpeedZone(cell) ==
  Min({z \in DOMAIN Nominal :
         \A y \in DOMAIN Nominal : Apart(cell, Nominal[z]) <= Apart(cell, Nominal[y])})

Carry(orbit, left, laid) ==
  /\ order' = Tail(order)
  /\ loss' = loss (+) Loss("points-not-coherent", Skipped(orbit)) (+) left
  /\ tracks' = tracks \o laid
  /\ UNCHANGED <<image, want, phase, target>>

\* Inside the innermost slot; nothing of it is looked at.
LeaveBeyond ==
  LET next == Head(order)
  IN  /\ phase = "laying" /\ order # <<>> /\ want # "d64"
      /\ IF want = "g64" THEN next.step >= Slots ELSE next.step + 2 > Slots + 1
      /\ order' = Tail(order) /\ loss' = loss (+) Loss("orbit-beyond-grammar", 1)
      /\ UNCHANGED <<image, want, phase, tracks, blocks, target>>

\* Clocked at its own cell, or at its zone's where its own is a tenth off.
LayTrack ==
  LET next    == Head(order)
      orbit   == image[next.orbit]
      angles  == Coherent(orbit)
      zone    == SpeedZone(orbit.cell)
      snapped == 10 * Apart(orbit.cell, Nominal[zone]) > Nominal[zone]
  IN  /\ phase = "laying" /\ order # <<>> /\ want = "g64" /\ next.step < Slots
      /\ \/ Len(angles) < 2 /\ Carry(orbit, Loss("orbit-not-clocked", 1), <<>>)
         \/ /\ Len(angles) >= 2
            /\ Carry(orbit, IF snapped THEN Loss("cell-snapped-to-nominal", 1) ELSE EmptyBag,
                 <<[index |-> next.step, of |-> next.orbit, zone |-> zone, nominal |-> snapped,
                    cells |-> Clocked(angles, IF snapped THEN Nominal[zone] ELSE orbit.cell)]>>)
      /\ UNCHANGED blocks

-----------------------------------------------------------------------------
(* Sectors into a d64 *)

Opening(found, mark) == {n \in DOMAIN found : found[n].opens = mark}

Past(from, to) == IF to < from THEN to - from + Bits ELSE to - from

\* A header's data block is the first that starts after it, past the origin
\* too, as a set of at most one.
DataAfter(found, header) ==
  {d \in Opening(found, "data") :
     \A e \in Opening(found, "data") :
       Past(found[header].at, found[d].at) <= Past(found[header].at, found[e].at)}

Admits(found, header) ==
  found[header].sound /\ \E d \in DataAfter(found, header) : found[d].sound

OnTheDisk(address) ==
  address[1] \in DOMAIN Sectors /\ address[2] \in 0 .. Sectors[address[1]] - 1

\* Blocks start where a sync run ends, in the order a scan from the origin
\* meets them.  The first one laid stays.
Laid(held, found, step) ==
  FoldLeft(LAMBDA b, n :
    LET here == found[n]
    IN  IF /\ here.opens = "header" /\ Admits(found, n)
           /\ OnTheDisk(here.address) /\ here.address \notin DOMAIN b
        THEN (here.address :> [step |-> step, header |-> here,
                               data |-> found[CHOOSE d \in DataAfter(found, n) : TRUE]]) @@ b
        ELSE b,
    held, [n \in DOMAIN found |-> n])

ReadOrbit ==
  LET next  == Head(order)
      orbit == image[next.orbit]
      fails == {h \in Opening(orbit.blocks, "header") : ~Admits(orbit.blocks, h)}
  IN  /\ phase = "laying" /\ order # <<>> /\ want = "d64"
      /\ \/ /\ Len(Coherent(orbit)) < 2
            /\ Carry(orbit, Loss("orbit-not-clocked", 1), <<>>) /\ UNCHANGED blocks
         \/ /\ Len(Coherent(orbit)) >= 2
            /\ Carry(orbit, Loss("sector-failed-checksum", Cardinality(fails))
                              (+) Loss("recording-structure", 1), <<>>)
            /\ blocks' = Laid(blocks, orbit.blocks, next.step)

Addresses == UNION {{<<t, s>> : s \in 0 .. Sectors[t] - 1} : t \in DOMAIN Sectors}

\* Blocks by number, and where one is missing a map of what each is: 1 is no
\* error, 2 is a header not found.
ErrorMap ==
  IF want # "d64" \/ DOMAIN blocks = Addresses THEN <<>>
  ELSE [a \in Addresses |-> IF a \in DOMAIN blocks THEN 1 ELSE 2]

Artifact == [tracks |-> tracks, blocks |-> blocks, map |-> ErrorMap]

-----------------------------------------------------------------------------
(* Pulses into a p64 *)

\* An angle's cycle is the nearest, the last one at most; one not past the
\* pulse before it is nudged to the cycle after that.
Projected(angles) ==
  FoldLeft(LAMBDA s, a :
    LET nearest == Min({(2 * a * Cycles + Divisions) \div (2 * Divisions), Cycles - 1})
        last    == IF s.pulses = <<>> THEN -1 ELSE Last(s.pulses)
    IN  [pulses |-> Append(s.pulses, IF nearest <= last THEN last + 1 ELSE nearest),
         nudged |-> s.nudged + (IF nearest <= last THEN 1 ELSE 0)],
    [pulses |-> <<>>, nudged |-> 0], angles)

\* Half-tracks the medium's key order leaves room for.
Served(step) == \A t \in Range(tracks) : t.index < step + 2

ServeOrbit ==
  LET next   == Head(order)
      orbit  == image[next.orbit]
      served == Projected(Coherent(orbit))
      fits   == \A n \in DOMAIN served.pulses : served.pulses[n] < Cycles
  IN  /\ phase = "laying" /\ order # <<>> /\ want = "p64" /\ next.step + 2 <= Slots + 1
      /\ \/ /\ served.pulses = <<>>
            /\ Carry(orbit, Loss("orbit-not-served", 1), <<>>)
         \/ /\ served.pulses # <<>> /\ fits /\ Served(next.step)
            /\ Carry(orbit, Loss("pulse-nudged", served.nudged),
                     <<[index |-> next.step + 2, of |-> next.orbit, pulses |-> served.pulses]>>)
         \/ /\ served.pulses # <<>> /\ ~(fits /\ Served(next.step))
            /\ phase' = "refused" /\ UNCHANGED <<image, want, order, loss, tracks, target>>
      /\ UNCHANGED blocks

-----------------------------------------------------------------------------
(* The artifact *)

\* A g64 has each slot once, and a rendition that carries nothing is none.
Holds ==
  \/ want = "d64"
  \/ /\ tracks # <<>>
     /\ \A m, n \in DOMAIN tracks : m # n => tracks[m].index # tracks[n].index

Render ==
  /\ phase = "laying" /\ order = <<>>
  /\ \/ ~Holds /\ phase' = "refused" /\ UNCHANGED loss
     \/ /\ Holds /\ phase' = "rendered"
        /\ loss' = loss (+)
             (CASE want = "g64" -> Loss("write-geometry", Len(tracks))
                                     (+) Loss("measured-radius", Len(tracks))
                [] want = "p64" -> Loss("write-geometry", 1) (+) Loss("measured-radius", 1)
                [] want = "d64" -> Loss("block-not-read",
                                        Cardinality(Addresses \ DOMAIN blocks)))
  /\ UNCHANGED <<image, want, order, tracks, blocks, target>>

\* Something there already is not written over; placed whole or not at all.
WriteRendition ==
  /\ phase = "rendered"
  /\ \/ phase' = "failed" /\ UNCHANGED target
     \/ target = {} /\ phase' = "written" /\ target' = {Artifact}
  /\ UNCHANGED <<image, want, order, loss, tracks, blocks>>

RenditionNext ==
  \/ PlaceOrbits \/ LeaveBeyond \/ LayTrack \/ ReadOrbit \/ ServeOrbit
  \/ Render \/ WriteRendition

RenditionSpec == RenditionInit /\ [][RenditionNext]_renditionVars

-----------------------------------------------------------------------------
(* Properties *)

Laying == {"laying", "rendered", "written", "failed"}
Left(code) == CopiesIn(code, loss)

\* Every orbit of the image is carried or accounted for, once, and a point
\* without a sense is counted where its orbit was looked at
\* (renditions.rs:617-705, 733-820, 848-1011).
AccountCloses ==
  phase \in Laying =>
    /\ Len(image) = Len(order) + Len(tracks) + Left("orbit-off-grid")
                      + Left("orbit-beyond-grammar") + Left("orbit-not-clocked")
                      + Left("orbit-not-served") + Left("recording-structure")
    /\ phase \in {"rendered", "written"} /\ want = "d64" =>
         Left("points-not-coherent")
           = FoldLeft(LAMBDA n, o : n + Skipped(image[o.orbit]), 0, Sorted(OnGrid, Before))

\* A turn clocked has no seam: from wherever it is begun, it is the same cells
\* (renditions.rs:98-117).
TurnHasNoSeam ==
  want = "g64" /\ phase = "rendered" =>
    \A n \in DOMAIN tracks :
      LET t      == tracks[n]
          o      == t.of
          angles == Coherent(image[o])
          cell   == IF t.nominal THEN Nominal[t.zone] ELSE image[o].cell
      IN  \A by \in 1 .. Len(angles) :
            LET turned == [m \in DOMAIN angles |->
                             (angles[((m + by - 1) % Len(angles)) + 1] - angles[(by % Len(angles)) + 1]
                                + Divisions) % Divisions]
            IN  Clocked(turned, cell)
                  = [m \in DOMAIN angles |-> t.cells[((m + by - 1) % Len(angles)) + 1]]

\* What is laid at an address was sound on both sides, and no half-track
\* outbids a whole track that reads the sector, nor a later one an earlier
\* (renditions.rs:712-725).
BestSourceWins ==
  want = "d64" =>
    /\ \A a \in DOMAIN blocks :
         blocks[a].header.address = a /\ blocks[a].header.sound /\ blocks[a].data.sound
    /\ phase \in {"rendered", "written"} =>
         \A o \in OnGrid :
           LET orbit == image[o.orbit]
           IN  \A h \in Opening(orbit.blocks, "header") :
                 LET a == orbit.blocks[h].address
                 IN  /\ Len(Coherent(orbit)) >= 2 /\ Admits(orbit.blocks, h) /\ OnTheDisk(a)
                     => /\ a \in DOMAIN blocks
                        /\ \/ blocks[a].step % 2 < o.step % 2
                           \/ blocks[a].step % 2 = o.step % 2 /\ blocks[a].step <= o.step
    /\ \A artifact \in target \ {Another} :
         \A a \in Addresses : a \notin DOMAIN artifact.blocks => artifact.map[a] = 2

\* The pulses of a half-track advance on the circle, one a transition, each at
\* the nearest cycle but for those counted as nudged; half-tracks ascend
\* (renditions.rs:848-1011).
PulsesAdvance ==
  want = "p64" /\ phase \in Laying =>
    /\ \A n \in DOMAIN tracks :
         /\ n > 1 => tracks[n].index > tracks[n - 1].index
         /\ \A k \in DOMAIN tracks[n].pulses :
              /\ tracks[n].pulses[k] < Cycles
              /\ k > 1 => tracks[n].pulses[k] > tracks[n].pulses[k - 1]
    /\ Left("pulse-nudged") >=
         FoldLeft(LAMBDA n, t :
           LET angles == Coherent(image[t.of])
           IN  n + Cardinality({k \in DOMAIN angles :
                 /\ 2 * Apart(t.pulses[k] * Divisions, angles[k] * Cycles) > Divisions
                 /\ t.pulses[k] # Cycles - 1}), 0, tracks)

\* The reconstruction's radius of every step is on the grid at that step, and
\* nothing two microns off is (renditions.rs:39-52).
GridIsTheLattice ==
  image = <<>> /\ phase = "placing" =>
    \A step \in 0 .. Lattice.steps :
      LET radius == Rounded(Lattice.first * Lattice.pitch[2] - step * Lattice.pitch[1],
                            Lattice.pitch[2])
      IN  /\ \A off \in -1 .. 1 : StepOf(radius + off) = {step}
          /\ \A off \in {-2, 2} : StepOf(radius + off) = {}

RenditionsAreHonest ==
  AccountCloses /\ TurnHasNoSeam /\ BestSourceWins /\ PulsesAdvance /\ GridIsTheLattice

\* "the pairing the medium lays out - header, gap, sync, data"
\* (renditions.rs:141-142) and a block the recording did not yield is missing
\* (renditions.rs:552): between the header that states an address and the data
\* laid there, no sound header states another.
LaidFollowsItsHeader ==
  \A a \in DOMAIN blocks :
    \A o \in OnGrid :
      LET found  == image[o.orbit].blocks
          header == blocks[a].header
      IN  o.step = blocks[a].step /\ header \in Range(found) =>
            \A h \in Opening(found, "header") :
              Past(header.at, found[h].at) <= Past(header.at, blocks[a].data.at)
                => ~found[h].sound \/ found[h].address = a
=============================================================================
