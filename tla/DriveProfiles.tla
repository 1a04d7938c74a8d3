---------------------------- MODULE DriveProfiles ----------------------------
(***************************************************************************)
(* The drives a flux recording is read against (flux/drive_profile/,       *)
(* flux/ibm/profiles.rs), what one of them claims of a capture, and the    *)
(* medium such a claim makes of a capture set (flux/load.rs).              *)
(*                                                                         *)
(* A capture is tracks, each under a head and a step position; a track is  *)
(* observations of one turn each, and an observation the times of its      *)
(* transitions.  A reading classifies the intervals into multiples of a    *)
(* cell it derives from them, finds the runs that open records, and counts *)
(* the bits between them.                                                  *)
(*                                                                         *)
(* Reducing a capture to an image and serving that is Reconstruction's and *)
(* Renditions'; what a rung holds is Rungs'.                               *)
(***************************************************************************)
EXTENDS Integers, Sequences, FiniteSets, FiniteSetsExt, SequencesExt, Functions, TLC

CONSTANTS
  SmallDrives,   \* drives of few locations, to read captures against
  Captures,      \* captures to read
  Fewest,        \* an observation of fewer transitions is not read (100)
  Sample,        \* how many intervals a cell is derived from at most (4096)
  Refinements,   \* how often a cell is refined (40)
  Unmeasured,    \* stands for the largest number, where nothing was measured
  LastStep       \* bound: the steps an arm takes

VARIABLES
  drive,         \* the profile in use
  arm,           \* how far its arm has stepped
  passed,        \* the locations it has passed over, in their order
  capture,       \* the capture handed over
  verdict,       \* what the profile claims of it
  medium,        \* the medium made of it
  rungs,         \* how many rungs of that medium are built
  answer         \* of the last call

vars == <<drive, arm, passed, capture, verdict, medium, rungs, answer>>

None == "none"

-----------------------------------------------------------------------------
(* The declared drives *)

Stepping(drive_tpi, recorded_tpi, first) ==
  [drive |-> drive_tpi, recorded |-> recorded_tpi, first |-> first]

\* A turn in cycles of the reference clock; whether the drive sees the index.
Rotation(turns, clock, index) ==
  [cycles |-> clock \div turns, clock |-> clock, index |-> index]

Encoding(multiples, landmark, least) ==
  [multiples |-> multiples, band |-> <<3, 10>>, landmark |-> landmark, least |-> least, per |-> 2]

Zone(first, last, rate, records) ==
  [first |-> first, last |-> last, rate |-> rate, records |-> records]

GcrEncoding == Encoding(<<1, 2, 3>>, 1, 9)
MFM_ENCODING == Encoding(<<2, 3, 4>>, 0, 0)
FM_ENCODING == Encoding(<<1, 2>>, 0, 0)

C1541 ==
  [id |-> "c1541", article |-> "flexible-5.25-soft", stepping |-> Stepping(96, 48, 1),
   rotation |-> Rotation(5, 16000000, FALSE), surfaces |-> 1, encoding |-> GcrEncoding,
   density |-> <<Zone(1, 17, <<16000000, 52>>, 21), Zone(18, 24, <<16000000, 56>>, 19),
                 Zone(25, 30, <<16000000, 60>>, 18), Zone(31, 35, <<16000000, 64>>, 17)>>,
   origin |-> "longest gap", alignment |-> 10, codec |-> "gcr"]

\* What the drives of the IBM disciplines share.
IbmDrive(id, article, stepping, rotation, surfaces, encoding, zone, codec) ==
  [id |-> id, article |-> article, stepping |-> stepping, rotation |-> rotation,
   surfaces |-> surfaces, encoding |-> encoding, density |-> <<zone>>, origin |-> "index",
   alignment |-> 0, codec |-> codec]

HEATH_H17_1_SOFT ==
  IbmDrive("heath-h17-1-soft", "flexible-5.25-soft", Stepping(48, 48, 0),
           Rotation(5, 16000000, TRUE), 1, FM_ENCODING, Zone(0, 39, <<250000, 1>>, 10), "fm")
HEATH_H17_4_SOFT ==
  IbmDrive("heath-h17-4-soft", "flexible-5.25-soft", Stepping(96, 96, 0),
           Rotation(5, 16000000, TRUE), 2, MFM_ENCODING, Zone(0, 79, <<500000, 1>>, 16), "mfm")
HEATH_H17_1_SOFT_DD ==
  IbmDrive("heath-h17-1-soft-dd", "flexible-5.25-soft", Stepping(48, 48, 0),
           Rotation(5, 16000000, TRUE), 1, MFM_ENCODING, Zone(0, 39, <<500000, 1>>, 16), "mfm")
PC_3_5_HD ==
  IbmDrive("pc-3.5-hd", "flexible-3.5-hd", Stepping(135, 135, 0),
           Rotation(5, 16000000, TRUE), 2, MFM_ENCODING, Zone(0, 79, <<1000000, 1>>, 18), "mfm")
PC_5_25_HD ==
  IbmDrive("pc-5.25-hd", "flexible-5.25-hd", Stepping(96, 96, 0),
           Rotation(6, 24000000, TRUE), 2, MFM_ENCODING, Zone(0, 79, <<1000000, 1>>, 15), "mfm")

Declared ==
  {C1541, HEATH_H17_1_SOFT, HEATH_H17_4_SOFT, HEATH_H17_1_SOFT_DD, PC_3_5_HD, PC_5_25_HD}

\* The drives that claim captures.
Enrolled == {C1541} \cup SmallDrives

-----------------------------------------------------------------------------
(* Where a step falls *)

\* The step at which a location falls at all, and how many locations that is.
Cadence(stepping) ==
  LET divisor == Max({d \in 1 .. stepping.drive :
                        stepping.drive % d = 0 /\ stepping.recorded % d = 0})
  IN  [steps |-> stepping.drive \div divisor, locations |-> stepping.recorded \div divisor]

\* Mutant of LocationOf: a step between two locations is one of them.
LocationRounded(stepping, position) ==
  LET cadence == Cadence(stepping) IN
  {(position * cadence.locations) \div cadence.steps + stepping.first}

LocationOf(stepping, position) ==
  LET cadence == Cadence(stepping) IN
  IF position % cadence.steps = 0
    THEN {(position \div cadence.steps) * cadence.locations + stepping.first}
    ELSE {}

\* The first zone a location lies in.
ZoneFor(density, location) ==
  LET holding == {z \in DOMAIN density :
                    density[z].first <= location /\ location <= density[z].last}
  IN  IF holding = {} THEN {} ELSE {CHOOSE z \in holding : \A y \in holding : z <= y}

DeclaredLocations(density) ==
  FoldFunction(+, 0, [z \in DOMAIN density |-> density[z].last - density[z].first + 1])

-----------------------------------------------------------------------------
(* Reading one observation *)

Apart(a, b) == IF a < b THEN b - a ELSE a - b

\* The middle of what was measured, the later of two.
Median(values) == SortSeq(values, <)[Len(values) \div 2 + 1]

\* The multiple of the cell an interval is, or none; a cell is a ratio.
Classify(interval, cell, encoding) ==
  LET fits == {m \in Range(encoding.multiples) :
                 Apart(interval * cell[2], m * cell[1]) * encoding.band[2]
                   <= encoding.band[1] * cell[1]}
  IN  IF cell[1] = 0 \/ fits = {} THEN -1 ELSE CHOOSE m \in fits : \A n \in fits : m <= n

Multiples(intervals, cell, encoding) ==
  [n \in DOMAIN intervals |-> Classify(intervals[n], cell, encoding)]

Resolved(multiples) == {n \in DOMAIN multiples : multiples[n] # -1}

Total(sequence, at) == FoldFunctionOnSet(+, 0, sequence, at)

\* The ratio of the intervals that classify to the multiples they are.
Refine(intervals, cell, multiples) ==
  LET at == Resolved(multiples) IN
  IF at = {} THEN cell ELSE <<Total(intervals, at), Total(multiples, at)>>

\* Mutant of Refined: the seed is taken for the cell.
RefinedOnce(intervals, seed, encoding) == <<seed, 1>>

Refined(intervals, seed, encoding) ==
  LET f[n \in 0 .. Refinements] ==
        IF n = 0 THEN <<seed, 1>>
        ELSE LET cell == f[n - 1]
             IN  Refine(intervals, cell, Multiples(intervals, cell, encoding))
  IN  f[Refinements]

\* The cell that resolves more intervals, and the shortest among them; the
\* first of two seeds where both do as well.
DeriveCell(all, encoding) ==
  LET stride    == (Len(all) + Sample - 1) \div Sample
      intervals == [n \in 1 .. ((Len(all) - 1) \div stride) + 1 |-> all[(n - 1) * stride + 1]]
      least     == SortSeq(intervals, <)[Len(intervals) \div 20 + 1]
      seed      == IF least = 0 THEN 1 ELSE least
      cells     == [n \in 1 .. 2 |-> Refined(intervals, n * seed, encoding)]
      read      == [n \in 1 .. 2 |-> Multiples(intervals, cells[n], encoding)]
      count(n)  == Cardinality(Resolved(read[n]))
      fit       == {n \in 1 .. 2 : Contains(read[n], encoding.multiples[1])}
  IN  {cells[n] : n \in {m \in fit : \A k \in fit : count(k) < count(m)
                                                    \/ (count(k) = count(m) /\ m <= k)}}

\* Where the runs of the landmark multiple begin that are long enough.
Landmarks(multiples, encoding) ==
  LET Is(n)    == n \in DOMAIN multiples /\ multiples[n] = encoding.landmark
      Opens(n) == ~Is(n - 1) /\ \A k \in 0 .. encoding.least - 1 : Is(n + k)
  IN  SelectSeq([n \in DOMAIN multiples |-> n], Opens)

\* Bits from one interval up to another, none where one of them is no multiple.
BitsBetween(multiples, from, to) ==
  IF \E n \in from .. to - 1 : multiples[n] = -1 THEN 0 ELSE Total(multiples, from .. to - 1)

\* A record opens at every so manyth landmark; the last runs round to the first.
Spacings(multiples, starts) ==
  [n \in DOMAIN starts |->
     IF n < Len(starts)
       THEN BitsBetween(multiples, starts[n], starts[n + 1])
       ELSE BitsBetween(multiples, starts[n], Len(multiples) + 1)
              + BitsBetween(multiples, 1, starts[1])]

\* What the multiples of an observation's intervals say.
Say(multiples, encoding) ==
  LET landmarks == Landmarks(multiples, encoding)
      starts    == [n \in 1 .. (Len(landmarks) + encoding.per - 1) \div encoding.per |->
                      landmarks[(n - 1) * encoding.per + 1]]
      spacings  == Spacings(multiples, starts)
      bits      == IF Len(starts) < 2 THEN {} ELSE {Median(spacings)}
  IN  [landmarks |-> Len(landmarks),
       bits      |-> bits,
       deviation |-> IF bits = {} THEN Unmeasured
                     ELSE Median([n \in DOMAIN spacings |->
                                    Apart(spacings[n], CHOOSE b \in bits : TRUE)]),
       population |-> [m \in DOMAIN encoding.multiples |->
                         Cardinality({n \in DOMAIN multiples :
                                        multiples[n] = encoding.multiples[m]})]]

ReadObservation(transitions, encoding) ==
  IF Len(transitions) < Fewest THEN {}
  ELSE LET intervals == [n \in 1 .. Len(transitions) - 1 |-> transitions[n + 1] - transitions[n]]
       IN  {Say(Multiples(intervals, cell, encoding), encoding) :
              cell \in DeriveCell(intervals, encoding)}

-----------------------------------------------------------------------------
(* Reading a location, and the verdict on a capture *)

\* What no observation of it can be read for.
Unread ==
  [read |-> FALSE, agreeing |-> 0, records |-> 0, bits |-> {}, deviation |-> Unmeasured,
   fingerprint |-> <<>>, spread |-> Unmeasured]

\* A location says what the middle of its observations does.
Agreement(read, encoding) ==
  LET held    == [n \in DOMAIN read |-> read[n].landmarks \div encoding.per]
      known   == FlattenSeq([n \in DOMAIN read |-> SetToSeq(read[n].bits)])
      bits    == IF known = <<>> THEN {} ELSE {Median(known)}
      counts  == [m \in DOMAIN encoding.multiples |->
                    [n \in DOMAIN read |-> read[n].population[m]]]
      ranges  == [m \in DOMAIN counts |-> Max(Range(counts[m])) - Min(Range(counts[m]))]
  IN  [read |-> TRUE, records |-> Median(held), bits |-> bits,
       agreeing |-> Cardinality({n \in DOMAIN read :
                                   held[n] = Median(held) /\ read[n].bits = bits}),
       deviation |-> Median([n \in DOMAIN read |-> read[n].deviation]),
       fingerprint |-> [m \in DOMAIN counts |-> Median(counts[m])],
       spread |-> FoldFunction(+, 0, ranges)]

ReadLocation(profile, track) ==
  LET encoding == profile.encoding
      read     == FlattenSeq([n \in DOMAIN track.observations |->
                    SetToSeq(ReadObservation(track.observations[n], encoding))])
      location == IF track.position[2] = 1 THEN LocationOf(profile.stepping, track.position[1])
                  ELSE {}
  IN  [head |-> track.head, location |-> location,
       zone |-> UNION {ZoneFor(profile.density, l) : l \in location},
       observations |-> Len(track.observations)]
      @@ IF read = <<>> THEN Unread ELSE Agreement(read, encoding)

\* Two neighbours on a surface hold the same when they differ by no more than
\* either differs from itself, and two transitions.
SameContent(a, b) ==
  /\ a.fingerprint # <<>> /\ b.fingerprint # <<>>
  /\ FoldFunction(+, 0, [m \in DOMAIN a.fingerprint |-> Apart(a.fingerprint[m], b.fingerprint[m])])
       <= Max({a.spread, b.spread}) + 2

\* The neighbours on one surface, in the order the capture was stepped through.
Neighbours(readings) ==
  {<<a, b>> \in (DOMAIN readings) \X (DOMAIN readings) :
     /\ a < b /\ readings[a].head = readings[b].head
     /\ \A c \in a + 1 .. b - 1 : readings[c].head # readings[a].head}

\* The later of two neighbours that hold the same is the one it is said of.
DuplicateOf(readings, same, n) ==
  LET others == {p[2] : p \in {q \in same : q[1] = n}} IN
  IF others # {} THEN others ELSE {p[1] : p \in {q \in same : q[2] = n}}

\* Whether a family stands by a location: it is one of its own, and every
\* observation agrees that it holds its zone's records, evenly spaced.
Claims(profile, reading) ==
  /\ reading.read
  /\ reading.location # {}
  /\ reading.zone # {}
  /\ \A z \in reading.zone : reading.records = profile.density[z].records
  /\ reading.deviation = 0
  /\ reading.agreeing = reading.observations

Confidence(claimed, expected) ==
  IF expected = 0 THEN 0 ELSE Min({100, (claimed * 100) \div expected})

Judge(profile, readings) ==
  LET same    == {p \in Neighbours(readings) : SameContent(readings[p[1]], readings[p[2]])}
      claimed == {n \in DOMAIN readings : Claims(profile, readings[n])}
  IN  [readings |-> readings,
       claimed |-> claimed,
       duplicates |-> [n \in DOMAIN readings |-> DuplicateOf(readings, same, n)],
       expected |-> DeclaredLocations(profile.density),
       confidence |-> Confidence(Cardinality(claimed), DeclaredLocations(profile.density))]

-----------------------------------------------------------------------------
(* Actions *)

Said(verb, outcome, at) == [verb |-> verb, outcome |-> outcome, at |-> at]

NoDrive == [id |-> None]

DriveInit ==
  /\ drive = NoDrive /\ arm = 0 /\ passed = <<>> /\ capture = <<>> /\ verdict = {}
  /\ medium = {} /\ rungs = 0 /\ answer = Said("init", "ok", {})

PassedAt(stepping, position, before) ==
  before \o SetToSeq(LocationOf(stepping, position))

ChooseDrive ==
  /\ drive = NoDrive
  /\ drive' \in Declared \cup SmallDrives
  /\ passed' = PassedAt(drive'.stepping, 0, <<>>)
  /\ answer' = Said("drive", "ok", {})
  /\ UNCHANGED <<arm, capture, verdict, medium, rungs>>

\* A sweep takes its arm one step on.
Step ==
  /\ drive # NoDrive /\ capture = <<>> /\ arm < LastStep
  /\ arm' = arm + 1
  /\ passed' = PassedAt(drive.stepping, arm', passed)
  /\ answer' = Said("step", "ok", {})
  /\ UNCHANGED <<drive, capture, verdict, medium, rungs>>

\* A probe reads every track; a capture no location of which is claimed is
\* recognized by no drive.
Probe ==
  /\ drive \in SmallDrives /\ arm = 0 /\ capture = <<>>
  /\ \E c \in Captures :
       \E readings \in {[n \in DOMAIN c |-> ReadLocation(drive, c[n])]} :
         /\ capture' = c
         /\ verdict' = {Judge(drive, readings)}
         /\ answer' = Said("recognize", IF \E n \in DOMAIN readings : Claims(drive, readings[n])
                                        THEN "ok" ELSE "refused", {})
  /\ UNCHANGED <<drive, arm, passed, medium, rungs>>

Sides(judged) ==
  {judged.readings[n].head : n \in judged.claimed} \ {None}

\* A capture set makes a medium where its recording is on one side.
LoadKryoFlux ==
  /\ medium = {}
  /\ \E v \in verdict :
       IF Cardinality(Sides(v)) = 1
         THEN /\ medium' = {[side |-> s, claimed |-> Cardinality(v.claimed)] : s \in Sides(v)}
              /\ answer' = Said("load", "ok", {})
         ELSE medium' = {} /\ answer' = Said("load", "refused", {})
  /\ UNCHANGED <<drive, arm, passed, capture, verdict, rungs>>

\* A rung is built over the one below it, which is built first and kept, and
\* any of them may refuse: bitstream, bytestream, sectors.
Climb ==
  /\ medium # {}
  /\ \E rung \in 1 .. 3 :
       /\ rungs' \in rungs .. Max({rungs, rung})
       /\ answer' = Said("climb", IF rung <= rungs' THEN "ok" ELSE "refused", {rung})
  /\ UNCHANGED <<drive, arm, passed, capture, verdict, medium>>

\* A session's medium, its capture and its verdict are dropped together.
Drop ==
  /\ drive # NoDrive
  /\ drive' = NoDrive /\ arm' = 0 /\ passed' = <<>> /\ capture' = <<>> /\ verdict' = {}
  /\ medium' = {} /\ rungs' = 0 /\ answer' = Said("drop", "ok", {})

DriveNext == ChooseDrive \/ Step \/ Probe \/ LoadKryoFlux \/ Climb \/ Drop

DriveSpec == DriveInit /\ [][DriveNext]_vars

-----------------------------------------------------------------------------
(* Properties *)

\* An arm that steps passes a family's locations one by one, from the first on
\* and none twice; and those its zones declare are each of one zone, with none
\* between them left out (mod.rs Stepping::location_of, zone_for).
NoLocationIsPassedOver ==
  drive # NoDrive =>
    LET first == drive.stepping.first
        last  == drive.density[Len(drive.density)].last
    IN  /\ passed = [n \in 1 .. Len(passed) |-> first + n - 1]
        /\ \A l \in Range(passed) : ZoneFor(drive.density, l) # {} <=> l <= last
        /\ DeclaredLocations(drive.density) = last - first + 1
        /\ arm = LastStep => last \in Range(passed)

\* Records laid whole and evenly round a track, in cells the band admits, are
\* read as that many, wherever between two landmarks the turn is cut; what is
\* claimed of a whole track is what it holds; no location is claimed twice on
\* one surface, and a medium has the one side that bears its claims
\* (intervals.rs derive_cell, read_observation; verdict.rs probe; load.rs).
ClaimsAreTrue ==
  \A v \in verdict :
    /\ \A n \in DOMAIN capture : \A laid \in capture[n].laid :
         LET reading == v.readings[n] IN
         /\ laid.whole => /\ reading.records = laid.records /\ reading.deviation = 0
                          /\ reading.agreeing = reading.observations
         /\ ~laid.damaged /\ n \in v.claimed => reading.records = laid.records
         /\ laid.whole /\ (\E z \in reading.zone : drive.density[z].records = laid.records)
              => n \in v.claimed
    /\ \A a, b \in v.claimed :
         v.readings[a].head = v.readings[b].head
           /\ v.readings[a].location = v.readings[b].location => a = b
    /\ \A m \in medium :
         /\ \E n \in v.claimed : v.readings[n].head = m.side
         /\ \A n \in v.claimed : v.readings[n].head \in {m.side, None}

DrivesAreTrue == NoLocationIsPassedOver /\ ClaimsAreTrue
=============================================================================
