-------------------------------- MODULE Rungs --------------------------------
(***************************************************************************)
(* The two rungs above a flux medium: its pulses clocked into bit cells    *)
(* (flux/presentation.rs, flux/bitstream.rs) and the bits framed into      *)
(* bytes (flux/c1541/presentation.rs, flux/ibm/presentation.rs,            *)
(* flux/bytestream.rs).  Both stores are the section store FluxMedium      *)
(* streams into; here they are the sequences they give back.               *)
(*                                                                         *)
(* An angle is scaled by the denominator of its zone's cell, so a cell is  *)
(* a whole number; bits are numbered from zero, as the code numbers them.  *)
(***************************************************************************)
EXTENDS Integers, FiniteSets, Sequences, SequencesExt, FiniteSetsExt

CONSTANTS
  Media,       \* [family |-> .., circle |-> .., locations |-> <<[zone |-> .., pulses |-> ..]>>]
  Policies,    \* [unzoned |-> .., weak |-> .., codec |-> .., origin |-> .., unassigned |-> ..]
  Zones,       \* zone -> [cell |-> .., scale |-> ..]
  Rotation,    \* cycles of the profile's circle
  Strongest,   \* the last strength state; 0 never triggers
  Window,      \* <<1, 2>>: the share of a cell a transition may be late by
  Admitted,    \* zeros the encoding admits between transitions
  Landmark,    \* one bits that frame the group code
  Mark,        \* the cells of an address mark
  GroupBits,   \* bits of the recording a byte takes
  Assigned,    \* the groups the table assigns a byte
  MaxReads

VARIABLES
  medium, policy,
  phase,       \* "clocking", "framing", "served" or "refused"
  place,       \* locations gone through in this phase
  pulse,       \* pulses of the next location gone through
  cells, facts, zeroRun,  \* what is clocked of the next location
  bitstream,   \* locations clocked: [at, cells, facts, slack]
  bytestream,  \* locations framed: [records, landmarks, unframed]
  loss,
  answer, reads

rungVars == <<medium, policy, phase, place, pulse, cells, facts, zeroRun, bitstream,
              bytestream, loss, answer, reads>>

RungInit ==
  /\ medium \in Media /\ policy \in Policies
  /\ phase = "clocking" /\ place = 0 /\ pulse = 0
  /\ cells = <<>> /\ facts = {} /\ zeroRun = 0
  /\ bitstream = <<>> /\ bytestream = <<>>
  /\ loss = [undetected |-> 0, resolved |-> 0, unzoned |-> 0]
  /\ answer = [state |-> "none"] /\ reads = 0

Refuse ==
  /\ phase' = "refused"
  /\ UNCHANGED <<medium, policy, place, pulse, cells, facts, zeroRun, bitstream,
                 bytestream, loss, answer, reads>>

-----------------------------------------------------------------------------
(* The read channel *)

location == medium.locations[place + 1]
Zone     == Zones[location.zone]
End      == IF cells = <<>> THEN 0 ELSE Last(cells).end

\* Only a medium of the profile's own family, on the profile's own circle.
ReadsItsFamily == medium.family = "own" /\ medium.circle = Rotation

Clocking == phase = "clocking" /\ ReadsItsFamily /\ place < Len(medium.locations)

RefuseMedium == phase = "clocking" /\ ~ReadsItsFamily /\ Refuse

Cell(end, one, evidence) == [end |-> end, one |-> one, evidence |-> evidence]

\* A pulse between the weakest and the strongest state sometimes triggers: the
\* policy says which way, or a seed does.
Detected(strength) ==
  CASE strength = 0         -> {[one |-> FALSE, evidence |-> "recorded"]}
    [] strength = Strongest -> {[one |-> TRUE, evidence |-> "recorded"]}
    [] OTHER ->
         IF policy.weak = "seeded" THEN {[one |-> d, evidence |-> "seeded"] : d \in BOOLEAN}
         ELSE {[one |-> policy.weak = "on", evidence |-> "declared"]}

\* Mutant of Carried: the next boundary the transition passes, no window.
NextBoundary(span) == span \div Zone.cell

\* How many cells a transition is away: the boundary it is nearest.
Carried(span) ==
  (span * Window[2] + Zone.cell * Window[1]) \div (Zone.cell * Window[2])

\* A run longer than the encoding admits is stated where it begins.
ClosedRun(count, run) ==
  IF run > Admitted THEN {[kind |-> "long", at |-> count - run, cells |-> run]} ELSE {}

Zeros(from, n) ==
  [k \in 1 .. n |-> Cell(from + Zone.cell * k, FALSE, "recorded")]

ClockPulse ==
  /\ Clocking /\ location.zone \in DOMAIN Zones /\ pulse < Len(location.pulses)
  /\ LET p == location.pulses[pulse + 1]
     IN \/ p.strength > Strongest /\ Refuse
        \/ /\ p.strength <= Strongest
           /\ \E d \in Detected(p.strength) :
                \/ /\ ~d.one
                   /\ loss' = [loss EXCEPT !.undetected = @ + 1]
                   /\ UNCHANGED <<cells, facts, zeroRun>>
                \/ /\ d.one
                   /\ LET position == p.angle * Zone.scale
                          carried  == Carried(position - End)
                          closed   == cells \o Zeros(End, carried - 1)
                          run      == zeroRun + Max({carried - 1, 0})
                      IN  /\ cells' = Append(closed, Cell(position, TRUE, d.evidence))
                          /\ facts' = facts \cup ClosedRun(Len(closed), run) \cup
                               IF carried = 0 THEN {[kind |-> "short", at |-> Len(cells)]}
                               ELSE {}
                   /\ zeroRun' = 0
                   /\ loss' = IF d.evidence = "recorded" THEN loss
                              ELSE [loss EXCEPT !.resolved = @ + 1]
           /\ pulse' = pulse + 1
           /\ UNCHANGED <<medium, policy, phase, place, bitstream, bytestream, answer, reads>>

\* Cells keep coming until one would run past the circle; the location is added.
CloseCircle ==
  /\ Clocking /\ location.zone \in DOMAIN Zones /\ pulse = Len(location.pulses)
  /\ LET circle == Rotation * Zone.scale
         left   == (circle - End) \div Zone.cell
         all    == cells \o Zeros(End, left)
     IN  bitstream' = Append(bitstream,
           [at    |-> place + 1,
            cells |-> all,
            facts |-> facts \cup ClosedRun(Len(all), zeroRun + left),
            slack |-> circle - End - left * Zone.cell])
  /\ place' = place + 1 /\ pulse' = 0
  /\ cells' = <<>> /\ facts' = {} /\ zeroRun' = 0
  /\ UNCHANGED <<medium, policy, phase, bytestream, loss, answer, reads>>

\* No declared rate reaches the location.
Unzoned ==
  /\ Clocking /\ location.zone \notin DOMAIN Zones
  /\ \/ policy.unzoned = "refuse" /\ Refuse
     \/ /\ policy.unzoned = "omit"
        /\ place' = place + 1
        /\ loss' = [loss EXCEPT !.unzoned = @ + 1]
        /\ UNCHANGED <<medium, policy, phase, pulse, cells, facts, zeroRun, bitstream,
                       bytestream, answer, reads>>

SealBits ==
  /\ phase = "clocking" /\ ReadsItsFamily /\ place = Len(medium.locations)
  /\ \/ bitstream = <<>> /\ Refuse
     \/ /\ bitstream # <<>>
        /\ phase' = "framing" /\ place' = 0
        /\ UNCHANGED <<medium, policy, pulse, cells, facts, zeroRun, bitstream, bytestream,
                       loss, answer, reads>>

-----------------------------------------------------------------------------
(* Framing *)

Bits(stored) == [n \in 1 .. Len(stored.cells) |-> stored.cells[n].one]

Span(from, to) == [from |-> from, to |-> to]

\* Every longest run of ones that is long enough to be the landmark.
Landmarks(bits) ==
  {s \in {Span(a, b) : a, b \in 0 .. Len(bits)} :
     /\ s.to - s.from >= Landmark
     /\ \A n \in s.from + 1 .. s.to : bits[n]
     /\ s.from > 0 => ~bits[s.from]
     /\ s.to < Len(bits) => ~bits[s.to + 1]}

\* The search is over cells: nothing has placed a byte boundary yet.
Marks(bits) ==
  {n \in 0 .. Len(bits) - Len(Mark) : SubSeq(bits, n + 1, n + Len(Mark)) = Mark}

\* From each place framing begins to the next place it stops.
UpTo(starts, stops, length) ==
  {Span(a, Min({b \in stops \cup {length} : b > a})) : a \in starts \ {length}}

\* A byte ends before the next mark: the mark is the first byte of its own run.
MarkSegments(bits) == UpTo(Marks(bits), Marks(bits), Len(bits))

\* The gaps between landmarks, and the one before the first of them.
Gaps(bits) ==
  LET marks == Landmarks(bits)
  IN  {g \in UpTo({0} \cup {m.to : m \in marks}, {m.from : m \in marks}, Len(bits)) :
         g.from \notin {m.from : m \in marks}}

GroupSegments(bits) ==
  {g \in Gaps(bits) : policy.origin \/ g.from \in {m.to : m \in Landmarks(bits)}}

Segments(bits) == IF policy.codec = "group" THEN GroupSegments(bits) ELSE MarkSegments(bits)

Groups(segment) ==
  {Span(segment.from + k * GroupBits, segment.from + (k + 1) * GroupBits) :
     k \in 0 .. (segment.to - segment.from) \div GroupBits - 1}

\* What no whole group covers of a segment.
Leftover(segment) ==
  LET from == segment.to - ((segment.to - segment.from) % GroupBits)
  IN  IF from < segment.to THEN {Span(from, segment.to)} ELSE {}

\* Where framing does not reach at all.
Unreached(bits) ==
  IF policy.codec = "group" THEN Gaps(bits) \ GroupSegments(bits)
  ELSE LET first == Min(Marks(bits) \cup {Len(bits)})
       IN  IF first > 0 THEN {Span(0, first)} ELSE {}

InOrder(spans) ==
  [n \in 1 .. Cardinality(spans) |->
     CHOOSE s \in spans : Cardinality({t \in spans : t.from < s.from}) = n - 1]

GroupOf(bits, span) == SubSeq(bits, span.from + 1, span.to)

\* In these encodings every pattern of cells is a byte; a group code's table
\* leaves patterns out.
Resolves(group) == policy.codec = "marks" \/ group \in Assigned

\* Mutant of Framed: what a last group does not fill is left unsaid.
FramedSilently(bits) ==
  [records   |-> InOrder(UNION {Groups(s) : s \in Segments(bits)}),
   landmarks |-> IF policy.codec = "group" THEN Landmarks(bits) ELSE {},
   unframed  |-> Unreached(bits)]

Framed(bits) ==
  [records   |-> InOrder(UNION {Groups(s) : s \in Segments(bits)}),
   landmarks |-> IF policy.codec = "group" THEN Landmarks(bits) ELSE {},
   unframed  |-> Unreached(bits) \cup UNION {Leftover(s) : s \in Segments(bits)}]

FrameLocation ==
  /\ phase = "framing" /\ place < Len(bitstream)
  /\ LET bits   == Bits(bitstream[place + 1])
         framed == Framed(bits)
         whole  == \A n \in DOMAIN framed.records :
                     Resolves(GroupOf(bits, framed.records[n]))
     IN \/ ~whole /\ policy.unassigned = "refuse" /\ Refuse
        \/ /\ whole \/ policy.unassigned = "declare"
           /\ bytestream' = Append(bytestream, framed)
           /\ place' = place + 1
           /\ UNCHANGED <<medium, policy, phase, pulse, cells, facts, zeroRun, bitstream,
                          loss, answer, reads>>

SealBytes ==
  /\ phase = "framing" /\ place = Len(bitstream)
  /\ phase' = "served"
  /\ UNCHANGED <<medium, policy, place, pulse, cells, facts, zeroRun, bitstream,
                 bytestream, loss, answer, reads>>

\* Whole or not at all: past the last frame, or over a byte that has no value,
\* the read is refused; a location not clocked is absent rather than blank.
ReadBytes ==
  /\ phase = "served" /\ reads < MaxReads
  /\ \E at \in DOMAIN medium.locations, offset \in 0 .. 2, length \in 1 .. 2 :
       LET held == {n \in DOMAIN bitstream : bitstream[n].at = at}
           fits(n)   == offset + length <= Len(bytestream[n].records)
           wanted(n) == [k \in 1 .. length |->
                           GroupOf(Bits(bitstream[n]), bytestream[n].records[offset + k])]
       IN  answer' = IF \E n \in held : fits(n) /\ \A k \in 1 .. length : Resolves(wanted(n)[k])
                     THEN [state |-> "served", at |-> at, offset |-> offset,
                           groups |-> wanted(CHOOSE n \in held : TRUE)]
                     ELSE [state |-> "refused"]
  /\ reads' = reads + 1
  /\ UNCHANGED <<medium, policy, phase, place, pulse, cells, facts, zeroRun, bitstream,
                 bytestream, loss>>

RungNext ==
  \/ RefuseMedium \/ ClockPulse \/ CloseCircle \/ Unzoned \/ SealBits
  \/ FrameLocation \/ SealBytes \/ ReadBytes

-----------------------------------------------------------------------------
(* Properties *)

StoredPulses(stored) == medium.locations[stored.at].pulses
StoredZone(stored)   == Zones[medium.locations[stored.at].zone]
OnesOf(stored)       == SelectSeq(stored.cells, LAMBDA c : c.one)

\* The cells of a location tile its circle: they ascend, what is left over is
\* no whole cell, and each one of them is a pulse where the pulse was, those
\* that surely trigger among them (presentation.rs:696-708, bitstream.rs:592).
CellsTileTheCircle ==
  \A n \in DOMAIN bitstream :
    LET s    == bitstream[n]
        last == IF s.cells = <<>> THEN 0 ELSE Last(s.cells).end
        ends == {OnesOf(s)[k].end : k \in DOMAIN OnesOf(s)}
        angles(strengths) == {p.angle * StoredZone(s).scale :
                                p \in {q \in Range(StoredPulses(s)) : q.strength \in strengths}}
    IN  /\ \A k \in 2 .. Len(s.cells) : s.cells[k].end > s.cells[k - 1].end
        /\ last + s.slack = Rotation * StoredZone(s).scale
        /\ s.slack \in 0 .. StoredZone(s).cell - 1
        /\ angles({Strongest}) \subseteq ends
        /\ ends \subseteq angles(1 .. Strongest)

\* The channel stays in phase: a cell that a transition closes is between half
\* a cell and one and a half, or is stated short (presentation.rs:704-708, 790).
ChannelKeepsPhase ==
  \A n \in DOMAIN bitstream :
    LET s == bitstream[n]
        size(k) == s.cells[k].end - (IF k = 1 THEN 0 ELSE s.cells[k - 1].end)
    IN  \A k \in DOMAIN s.cells :
          IF [kind |-> "short", at |-> k - 1] \in s.facts
          THEN s.cells[k].one /\ 2 * size(k) < StoredZone(s).cell
          ELSE 2 * size(k) >= StoredZone(s).cell /\ 2 * size(k) < 3 * StoredZone(s).cell

\* The long runs stated are the longest runs of zeros the encoding does not
\* admit, all of them and no other (presentation.rs:737-757).
LongRunsAreStated ==
  \A n \in DOMAIN bitstream :
    LET bits == Bits(bitstream[n])
        long == {s \in {Span(a, b) : a, b \in 0 .. Len(bits)} :
                   /\ s.to - s.from > Admitted
                   /\ \A k \in s.from + 1 .. s.to : ~bits[k]
                   /\ s.from > 0 => bits[s.from]
                   /\ s.to < Len(bits) => bits[s.to + 1]}
    IN  {<<f.at, f.cells>> : f \in {g \in bitstream[n].facts : g.kind = "long"}}
          = {<<s.from, s.to - s.from>> : s \in long}

\* Every bit is in one byte, one landmark or one span stated unframed, in both
\* codecs and under every policy (c1541/presentation.rs:338, ibm/presentation.rs:148).
EveryBitIsAccounted ==
  \A n \in DOMAIN bytestream :
    LET f == bytestream[n]
        spans == Range(f.records) \cup f.landmarks \cup f.unframed
    IN  \A bit \in 0 .. Len(bitstream[n].cells) - 1 :
          Cardinality({s \in spans : bit \in s.from .. s.to - 1}) = 1

\* No evidence goes missing between a medium and its bytes: every location is
\* framed or counted, every pulse a one bit or counted (presentation.rs:824-846).
LossIsStated ==
  phase = "served" =>
    /\ Len(bytestream) + loss.unzoned = Len(medium.locations)
    /\ MapThenSumSet(LAMBDA n : Len(OnesOf(bitstream[n])), DOMAIN bitstream)
         + loss.undetected
         = MapThenSumSet(LAMBDA n : Len(StoredPulses(bitstream[n])), DOMAIN bitstream)

\* What is served is what the recording states, never a group without a byte
\* (presentation.rs:557-563).
ServedHasValue ==
  answer.state = "served" =>
    /\ \E n \in DOMAIN bitstream : bitstream[n].at = answer.at
    /\ \A k \in DOMAIN answer.groups : Resolves(answer.groups[k])

RungsAreFaithful ==
  /\ CellsTileTheCircle /\ ChannelKeepsPhase /\ LongRunsAreStated
  /\ EveryBitIsAccounted /\ LossIsStated /\ ServedHasValue
=============================================================================
