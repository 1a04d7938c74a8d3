---------------------------- MODULE MCRecordings ----------------------------
(***************************************************************************)
(* The flux layers on small instances, in one state space: part picks the  *)
(* layer a behaviour is about.  The layers keep no state of each other's,  *)
(* so each lays its variables over the same ones, from the first on.       *)
(***************************************************************************)
EXTENDS Integers, Sequences, SequencesExt, FiniteSets

VARIABLES part, x1, x2, x3, x4, x5, x6, x7, x8, x9, x10, x11, x12, x13, x14

\* Those after the fifth, the eighth, ...
After13 == <<x14>>
After12 == <<x13, After13>>
After10 == <<x11, x12, After12>>
After9 == <<x10, After10>>
After8 == <<x9, After9>>
After5 == <<x6, x7, x8, After8>>

Unused13 == x14 = 0
Unused12 == x13 = 0 /\ Unused13
Unused10 == x11 = 0 /\ x12 = 0 /\ Unused12
Unused9 == x10 = 0 /\ Unused10
Unused8 == x9 = 0 /\ Unused9
Unused5 == x6 = 0 /\ x7 = 0 /\ x8 = 0 /\ Unused8

-----------------------------------------------------------------------------
(* Captures of one and two locations, runs with none to three indices *)

Run(ticks, indices) == [ticks |-> ticks, indices |-> indices]

MCRuns == {Run(<<0, 2, 3, 5>>, i) : i \in {<<>>, <<2>>, <<0, 3>>, <<1, 3, 6>>, <<3, 3>>}}
            \cup {Run(<<1, 4>>, <<2, 4, 5>>), Run(<<>>, <<0, 3>>)}

MCCaptures ==
  {<<<<r>>>> : r \in MCRuns}
    \cup {<<<<Run(<<0, 2, 3, 5>>, <<1, 3, 6>>), r>>>> : r \in MCRuns}
    \cup {<<<<Run(<<0, 2, 3, 5>>, <<2, 4>>)>>, <<Run(<<1, 4>>, i), Run(<<0>>, <<0, 1>>)>>>> :
            i \in {<<>>, <<1, 3>>}}

Capture == INSTANCE FluxCapture WITH
  Captures <- MCCaptures, ChunkRecords <- 2, LeafEntries <- 2, CacheBound <- 3,
  MaxReads <- 3, capture <- x1, phase <- x2, added <- x3, todo <- x4, entries <- x5,
  backing <- x6, cache <- x7, damaged <- x8, call <- x9, reads <- x10

-----------------------------------------------------------------------------
(* Media of one to three locations, some of which no medium may have *)

At(position, pulses, seams) == [position |-> position, pulses |-> pulses, seams |-> seams]

MCFirsts  == {At(1, <<0, 2, 3, 5, 6>>, <<0, 6>>), At(1, <<>>, <<>>), At(2, <<1, 1>>, <<>>),
              At(1, <<7>>, <<>>), At(1, <<4, 2>>, <<>>), At(1, <<>>, <<7>>)}
MCSeconds == {At(2, <<1, 6>>, <<>>), At(1, <<3>>, <<2>>)}
MCMasters == {<<x>> : x \in MCFirsts} \cup {<<x, y>> : x \in MCFirsts, y \in MCSeconds}

Medium == INSTANCE FluxMedium WITH
  Masters <- MCMasters, Rotation <- 7, ChunkRecords <- 2, LeafEntries <- 2,
  CacheBound <- 3, MaxReads <- 2, master <- x1, phase <- x2, added <- x3, todo <- x4,
  entries <- x5, backing <- x6, cache <- x7, call <- x8, reads <- x9

-----------------------------------------------------------------------------
(* Sets of up to four members decoded not at all or as far as one stream,  *)
(* and every stream of up to four items                                    *)

Member(capture, step, head) == [capture |-> capture, step |-> step, head |-> head]

MCNames == {Member("a", step, head) : step, head \in 0 .. 1}
             \cup {Member("a", 2, 0), Member("b", 0, 0)}

MCItems ==
  {[kind |-> "flux", value |-> 2, width |-> 1], [kind |-> "flux", value |-> 3, width |-> 2],
   [kind |-> "flux", value |-> 0, width |-> 1],
   [kind |-> "overflow"], [kind |-> "nop", width |-> 2], [kind |-> "other"],
   [kind |-> "torn"], [kind |-> "end"]}
  \cup {[kind |-> "index", position |-> p, counter |-> 1] : p \in {0, 1, 2, 4}}

Few == {[kind |-> "flux", value |-> 3, width |-> 2], [kind |-> "overflow"],
        [kind |-> "flux", value |-> 2, width |-> 1],
        [kind |-> "index", position |-> 1, counter |-> 1],
        [kind |-> "index", position |-> 3, counter |-> 1]}

MCInputs ==
  {[names |-> <<Member("a", 0, 0)>>, stream |-> s] :
     s \in BoundedSeq(MCItems, 3) \cup [1 .. 4 -> Few]}
  \cup {[names |-> n, stream |-> <<>>] :
          n \in {<<>>, <<Member("unrelated", 0, 0)>>} \cup BoundedSeq(MCNames, 4)}

Kryo == INSTANCE KryoFlux WITH
  Inputs <- MCInputs, Full <- 8, names <- x1, members <- x2, stream <- x3, phase <- x4,
  at <- x5, position <- x6, cellStart <- x7, overflow <- x8, starts <- x9, ticks <- x10,
  pending <- x11, markers <- x12

-----------------------------------------------------------------------------
(* Every location of up to four runs, and every two of up to two *)

Header(address, sound) == [opens |-> "header", address |-> address, sound |-> sound]
Data(payload, sound)   == [opens |-> "data", payload |-> payload, sound |-> sound]

MCRuns3 == {Header("a", TRUE), Header("b", TRUE), Data(1, TRUE), Data(2, TRUE),
            Data(1, FALSE), Header("a", FALSE), [opens |-> "neither"]}

MCGcr ==
  {<<l>> : l \in BoundedSeq(MCRuns3, 4)}
  \cup {<<k, l>> : k, l \in BoundedSeq({Header("a", TRUE), Data(1, TRUE), Data(2, TRUE)}, 2)}

Gcr == INSTANCE GcrRecords WITH
  Recordings <- MCGcr, Addresses <- {"a", "b"}, recording <- x1, place <- x2,
  pending <- x3, leading <- x4, records <- x5, claims <- x6, stored <- x7, phase <- x8,
  answer <- x9

-----------------------------------------------------------------------------
(* Records in the marked encodings *)

Id(cylinder, head, sector, code) ==
  [marks |-> 2, kind |-> "id", address |-> <<cylinder, head, sector>>, code |-> code,
   agrees |-> TRUE, whole |-> TRUE]
Field(units, agrees) == [marks |-> 2, kind |-> "data", units |-> units, agrees |-> agrees]
Deleted(units)       == [Field(units, TRUE) EXCEPT !.kind = "deleted"]
Gap                  == [marks |-> 2, kind |-> "gap"]

\* A field of as many units as are read of it, holding v and what comes after it.
Filled(code, v) == [u \in 1 .. (IF code = 0 THEN 1 ELSE 2) |-> <<v, u>>]

FirstLocations(code, s) ==
  LET a == <<Id(0, 0, s, code), Field(Filled(code, 1), TRUE)>>
      b == <<Id(0, 0, s + 1, code), Deleted(Filled(code, 2))>>
  IN  {a \o b, b \o a, b \o a \o <<[Id(0, 0, s, code) EXCEPT !.agrees = FALSE]>>,
       <<Id(0, 0, s, code), Gap, Field(Filled(code, 3), TRUE)>> \o b,
       <<Id(0, 0, s, code), Field(Filled(code, 3), FALSE)>> \o a \o b,
       <<[Id(0, 0, s, code) EXCEPT !.whole = FALSE]>> \o a \o b}

SecondLocations(code, s) ==
  {<<>>,
   <<Id(0, 1, s, code), Field(Filled(code, 4) \o <<<<4, 9>>>>, TRUE)>>,
   <<Id(1, 1, s + 1, code), Field(Filled(code, 5), TRUE), Id(0, 1, s, code),
     Field(Filled(code, 6), TRUE)>>,
   <<Id(1, 0, s, code), [Gap EXCEPT !.marks = 1], Field(Filled(code, 7), TRUE)>>,
   <<Id(1, 0, s, code), [Field(Filled(code, 7), TRUE) EXCEPT !.marks = 3]>>,
   <<Id(1, 0, s, code), [Gap EXCEPT !.kind = "unread"], Field(Filled(code, 7), TRUE)>>,
   <<Id(0, 0, s + 3, code), Field(Filled(code, 8), TRUE)>>,
   <<Id(0, 1, s, code + 1), Field(Filled(code + 1, 8), TRUE)>>}

MCMarked ==
  {<<>>} \cup UNION {{<<x, y>> : x \in FirstLocations(code, 1), y \in SecondLocations(code, 1)} :
                       code \in 0 .. 4}

Ibm == INSTANCE IbmRecords WITH
  Recordings <- MCMarked, Marks <- 2, MaxCode <- 1, Width <- 3,
  CodeLimit <- 4, MaxRead <- 3, recording <- x1, located <- x2, claims <- x3,
  geometry <- x4, call <- x5

-----------------------------------------------------------------------------
(* Media clocked in two zones: pulses anywhere on a circle, weak ones, and  *)
(* locations no zone reaches                                               *)

Pulse(angle, strength) == [angle |-> angle, strength |-> strength]
PulseSeqs(angles, strengths) ==
  {[n \in 1 .. Cardinality(DOMAIN f) |->
      LET a == CHOOSE a \in DOMAIN f : Cardinality({b \in DOMAIN f : b < a}) = n - 1
      IN  Pulse(a, f[a])] : f \in UNION {[S -> strengths] : S \in SUBSET angles}}

Zoned(zone, pulses)               == [zone |-> zone, pulses |-> pulses]
Disk(family, circle, locations)   ==
  [family |-> family, circle |-> circle, locations |-> locations]

MCMedia ==
  {Disk("own", 9, <<Zoned(z, p)>>) : z \in {"a", "b"}, p \in PulseSeqs({0, 2, 3, 4, 6, 8}, {2})}
  \cup {Disk("own", 9, <<Zoned(z, p), Zoned("a", <<Pulse(4, 2)>>)>>) :
          z \in {"a", "none"}, p \in PulseSeqs({0, 3}, {0, 1, 2})}
  \cup {Disk("own", 9, <<Zoned("a", <<Pulse(2, 3)>>)>>), Disk("own", 9, <<>>)}
  \cup {Disk(f, 10, <<Zoned("none", <<>>)>>) : f \in {"own", "other"}}

Policy(unzoned, weak, codec, origin, unassigned) ==
  [unzoned |-> unzoned, weak |-> weak, codec |-> codec, origin |-> origin,
   unassigned |-> unassigned]
MCPolicies ==
  {Policy("omit", w, "marks", FALSE, "refuse") : w \in {"on", "off", "seeded"}}
  \cup {Policy("refuse", "on", "group", o, u) : o \in BOOLEAN, u \in {"refuse", "declare"}}

Rungs == INSTANCE Rungs WITH
  Media <- MCMedia, Policies <- MCPolicies, Rotation <- 9, Strongest <- 2,
  Zones <- [z \in {"a", "b"} |-> IF z = "a" THEN [cell |-> 2, scale |-> 2]
                                 ELSE [cell |-> 5, scale |-> 3]],
  Window <- <<1, 2>>, Admitted <- 2, Landmark <- 2, Mark <- <<TRUE, TRUE, FALSE>>,
  GroupBits <- 2, Assigned <- {<<FALSE, TRUE>>, <<TRUE, FALSE>>, <<TRUE, TRUE>>},
  MaxReads <- 1, medium <- x1, policy <- x2, phase <- x3, place <- x4, pulse <- x5,
  cells <- x6, facts <- x7, zeroRun <- x8, bitstream <- x9, bytestream <- x10,
  loss <- x11, answer <- x12, reads <- x13

-----------------------------------------------------------------------------
(* Remanence artifacts: every orbit of up to three points on a turn of four *)
(* divisions, payloads that are no artifact, and two surfaces              *)

RemMade == INSTANCE RemanenceImage WITH
  Artifacts <- {}, Donors <- {}, Divisions <- 4, source <- x1, read <- x2, orbits <- x3,
  phase <- x4, result <- x5, target <- x6, staged <- x7, writer <- x8

Senses == {<<"positive", 0>>, <<"positive", 1>>, <<"positive", 2>>, <<"negative", 0>>,
           <<"negative", 1>>, <<"unaligned", 0>>, <<"inert", 0>>}
Points(senses, n) ==
  UNION {{[k \in 1 .. Cardinality(S) |->
             LET a == CHOOSE a \in S : Cardinality({b \in S : b < a}) = k - 1
             IN  RemMade!Point(a, f[a][1], f[a][2])] : f \in [S -> senses]} :
         S \in {T \in SUBSET (0 .. 3) : Cardinality(T) \in n}}
Orbit(radius, points) == [radius |-> radius, points |-> points]
Surface(n, orbits)    == [surface |-> n, orbits |-> orbits]

R(step, state, widths) == [step |-> step, state |-> state, widths |-> widths]
Sound == {<<R(1, "positive", 1), R(1, "derived", 0)>>, <<R(1, "unaligned", 0)>>,
          <<R(2, "inert", 0), R(1, "positive", 2)>>}
Unsound == {<<R(0, "derived", 1)>>, <<R(1, "inert", 0), R(1, "derived", 0)>>,
            <<R(4, "positive", 1)>>, <<R(1, "inert", 1)>>, <<R(1, "positive", 0)>>,
            <<R(1, "positive", 1), R(0, "derived", 0)>>,
            <<R(1, "positive", 1), R(1, "positive", 0)>>}

MCArtifacts ==
  {<<Surface(0, <<Orbit(2, RemMade!EncodePoints(o))>>)>> :
     o \in {p \in Points(Senses, 1 .. 3) : RemMade!IsOrbit(p)}}
  \cup {<<Surface(0, <<Orbit(r, p)>>)>> : p \in Unsound, r \in {0, 1}}
  \cup {<<Surface(s, <<Orbit(x, p), Orbit(y, p)>>), Surface(1, <<Orbit(1, q)>>)>> :
          s \in {0, 1}, x, y \in {1, 2}, p, q \in Sound}
MCDonors ==
  Points({<<"positive", 1>>, <<"negative", 1>>, <<"unaligned", 0>>}, 0 .. 1)
    \cup {<<RemMade!Point(1, "positive", 1), RemMade!Point(2, "negative", 0)>>,
          <<RemMade!Point(0, "inert", 0), RemMade!Point(2, "negative", 1)>>}

Rem == INSTANCE RemanenceImage WITH
  Artifacts <- MCArtifacts, Donors <- MCDonors, Divisions <- 4, source <- x1, read <- x2,
  orbits <- x3, phase <- x4, result <- x5, target <- x6, staged <- x7, writer <- x8

-----------------------------------------------------------------------------
(* Captures of two revolutions a location: alike, one reversal apart, noise, *)
(* none, and on two sides                                                  *)

Seen(ticks)           == [span |-> 12, ticks |-> ticks]
Sweep(position, obs)  == [head |-> 0, position |-> position, runs |-> <<obs>>]

Alike    == <<Seen(<<0, 1, 3, 5, 8, 10>>), Seen(<<1, 3, 5, 8, 10>>)>>
Missed   == <<Seen(<<1, 3, 5, 8, 10>>), Seen(<<1, 3, 8, 10>>)>>
Extra    == <<Seen(<<2, 4, 9, 11>>), Seen(<<2, 4, 6, 9, 11>>)>>
Noise    == <<Seen(<<1, 3, 5, 8, 10>>), Seen(<<4, 9, 11>>)>>
Frayed   == <<Seen(<<1, 3, 5, 8, 10>>), Seen(<<3, 5, 8, 10, 11>>)>>
Lone     == <<Seen(<<1, 4, 5, 7, 11>>)>>
Unread   == <<Seen(<<>>), Seen(<<3>>)>>
Readings == {Alike, Missed, Extra, Noise, Frayed, Lone, Unread, <<>>}

MCCaptured ==
  {<<Sweep(0, a), Sweep(1, b), Sweep(2, c)>> :
     a \in {Alike, Extra, Lone}, b \in Readings, c \in {Missed, Noise}}
  \cup {<<Sweep(2, a), Sweep(0, b), [Sweep(0, a) EXCEPT !.head = 1]>> : a, b \in Readings}

Reduction == INSTANCE Reconstruction WITH
  Captures <- MCCaptured,
  Reductions <- {[side |-> s, declared |-> d] : s \in {0, 1}, d \in {{}, {{0}}, {{1, 2}}}},
  Divisions <- 12, GapTolerance <- 0, Confirm <- 2, Spread <- 1, LongRun <- 2, Slack <- 1,
  Resolves <- 1, FirstRadius <- 10, Pitch <- <<5, 2>>, capture <- x1, choice <- x2,
  phase <- x3, swept <- x4, built <- x5, recorded <- x6, at <- x7, admitted <- x8,
  loss <- x9, image <- x10

-----------------------------------------------------------------------------
(* Media of up to two half-tracks and containers of up to three *)

Pu(position, state)   == [position |-> position, state |-> state, seeded |-> state = 1]
Key(num, den, side)   == [steps |-> <<num, den>>, side |-> side]
Loc(key, p, facts)    == [key |-> key, pulses |-> p, facts |-> facts, notes |-> 1]
Med(locations)        == [kind |-> "medium", ours |-> TRUE, notes |-> 2, locations |-> locations]
St(position, strength) == [position |-> position, strength |-> strength]
Half(index, stored)   == [index |-> index, stored |-> stored]
Other(flags, halves)  == [kind |-> "foreign", flags |-> flags, halves |-> halves]

MCCircles == {<<>>, <<Pu(0, 2)>>, <<Pu(0, 2), Pu(3, 1), Pu(6, 1), Pu(19, 0)>>, <<Pu(5, 2), Pu(10, 2)>>}
MCContainers ==
  {Med(<<Loc(Key(n, 2, 0), c, <<"seam", "protect">>)>>) : n \in {1, 3}, c \in MCCircles}
  \cup {Med(<<Loc(Key(1, 1, 0), c, <<>>), Loc(Key(1, 1, 1), <<Pu(7, 2)>>, <<"seam">>)>>) :
          c \in MCCircles}
  \cup {Med(<<Loc(k, <<Pu(1, s)>>, <<>>)>>) :
          k \in {Key(1, 3, 0), Key(2, 1, 0), Key(1, 1, -1), Key(1, 1, 2)}, s \in {2, 3}}
  \cup {Med(<<>>), [Med(<<Loc(Key(1, 1, 0), <<>>, <<>>)>>) EXCEPT !.ours = FALSE]}
  \cup {Other(f, <<Half(i, <<St(p, s), St(q, t)>>)>>) :
          f \in {{"protect"}}, i \in {1}, p \in {0, 4}, q \in {0, 8, 20}, s \in {63, 7}, t \in {0, 7}}
  \cup {Other({"double"}, <<Half(i, <<St(2, 63)>>), Half(j, <<St(3, 9), St(6, 9)>>),
                             Half(2, <<>>)>>) : i, j \in {1, 5, 6}}

Container == INSTANCE P64 WITH
  Sources <- MCContainers, Cycles <- 20, SideBit <- 4, ByteBits <- 2, WordBytes <- 3,
  Odds <- 8, source <- x1, phase <- x2, at <- x3, report <- x4, stream <- x5,
  target <- x6, staged <- x7, touched <- x8, found <- x9, coder <- x10, pulses <- x11,
  opened <- x12

-----------------------------------------------------------------------------
(* Images of up to three orbits, on the declared lattice *)

\* The lattice the code declares, over a few of its slots.
C64Lattice == [first |-> 57150, pitch |-> <<3175, 12>>, steps |-> 200]

\* Renditions of no image: how its images are put together.
Grid == INSTANCE Renditions WITH
  Images <- {}, Lattice <- C64Lattice, Divisions <- 12, Bits <- 8, Nominal <- <<2, 4>>,
  Slots <- 5, Cycles <- 5, Sectors <- <<2, 1>>, image <- x1, want <- x2, phase <- x3,
  order <- x4, loss <- x5, tracks <- x6, blocks <- x7, target <- x8

PointsAt(angles, lost) ==
  LET all == Grid!Sorted({[orbit |-> 0, step |-> a] : a \in angles \cup lost}, Grid!Before)
  IN  [n \in DOMAIN all |-> [angle |-> all[n].step, coherent |-> all[n].step \in angles]]

HeaderAt(at, address, sound) ==
  [at |-> at, opens |-> "header", address |-> address, sound |-> sound]
DataAt(at, payload, sound) == [at |-> at, opens |-> "data", payload |-> payload, sound |-> sound]

RadiusOf(step) ==
  Grid!Rounded(C64Lattice.first * C64Lattice.pitch[2] - step * C64Lattice.pitch[1],
               C64Lattice.pitch[2])
OrbitAt(step, points, cell, found) ==
  [radius |-> RadiusOf(step), points |-> points, cell |-> cell, blocks |-> found]

Plain == PointsAt({1, 5}, {})

\* Clocks and radii, on the lattice and beside it.
Clocked ==
  {<<OrbitAt(s, PointsAt(a, b), c, <<>>)>> :
     s \in {0, 3}, a \in {x \in SUBSET {0, 1, 2, 6, 9, 11} : Cardinality(x) < 4},
     b \in {{}, {3, 7}}, c \in {2, 3, 4}}
  \cup {<<OrbitAt(s, Plain, 2, <<>>), [OrbitAt(t, PointsAt({0, 1, 11}, {4}), 3, <<>>) EXCEPT !.radius = @ + d]>> :
          s \in {3, 4}, t \in {2, 3, 4, 5}, d \in {-1, 0, 1, 3}}

\* Up to four blocks of two sectors, anywhere on the circle.
OpensAt(n) ==
  {HeaderAt(2 * n - 2, <<1, 0>>, TRUE), HeaderAt(2 * n - 2, <<1, 1>>, TRUE),
   DataAt(2 * n - 2, "x", TRUE), DataAt(2 * n - 2, "y", FALSE)}
Framed ==
  {<<a, b, c>> \o d :
     a \in {HeaderAt(0, <<1, 0>>, TRUE), HeaderAt(0, <<9, 0>>, TRUE), DataAt(0, "z", TRUE)},
     b \in OpensAt(2), c \in OpensAt(3), d \in {<<>>} \cup {<<x>> : x \in OpensAt(4)}}

OwnBlocks == <<HeaderAt(1, <<1, 0>>, TRUE), DataAt(3, "own", TRUE)>>

Recorded ==
  {<<OrbitAt(1, Plain, 2, OwnBlocks), OrbitAt(0, Plain, 2, f)>> : f \in Framed}
  \cup {<<OrbitAt(2, Plain, 2, OwnBlocks), OrbitAt(1, Plain, 2, f), OrbitAt(0, PointsAt({1}, {2}), 2, OwnBlocks)>> :
          f \in {<<>>, <<DataAt(1, "x", TRUE)>>, <<HeaderAt(1, <<1, 0>>, TRUE), DataAt(2, "x", TRUE)>>,
                 <<HeaderAt(1, <<1, 0>>, FALSE), DataAt(2, "x", TRUE), HeaderAt(3, <<1, 1>>, TRUE)>>}}

Rend == INSTANCE Renditions WITH
  Images <- Clocked \cup Recorded \cup {<<>>}, Lattice <- C64Lattice, Divisions <- 12,
  Bits <- 8, Nominal <- <<2, 4>>, Slots <- 5, Cycles <- 5, Sectors <- <<2, 1>>,
  image <- x1, want <- x2, phase <- x3, order <- x4, loss <- x5, tracks <- x6,
  blocks <- x7, target <- x8

-----------------------------------------------------------------------------

RecordingsInit ==
  \/ part = "capture"  /\ Capture!CaptureInit /\ Unused10
  \/ part = "medium"   /\ Medium!MediumInit   /\ Unused9
  \/ part = "kryoflux" /\ Kryo!KryoInit       /\ Unused12
  \/ part = "gcr"      /\ Gcr!Init            /\ Unused9
  \/ part = "ibm"      /\ Ibm!Init            /\ Unused5
  \/ part = "rungs"    /\ Rungs!RungInit      /\ Unused13
  \/ part = "image"    /\ Rem!ImageInit       /\ Unused8
  \/ part = "reduction" /\ Reduction!ReductionInit /\ Unused10
  \/ part = "p64"      /\ Container!P64Init   /\ Unused12
  \/ part = "renditions" /\ Rend!RenditionInit /\ Unused8

RecordingsNext ==
  /\ \/ part = "capture"  /\ Capture!CaptureNext /\ UNCHANGED After10
     \/ part = "medium"   /\ Medium!MediumNext   /\ UNCHANGED After9
     \/ part = "kryoflux" /\ Kryo!KryoNext       /\ UNCHANGED After12
     \/ part = "gcr"      /\ Gcr!Next            /\ UNCHANGED After9
     \/ part = "ibm"      /\ Ibm!Next            /\ UNCHANGED After5
     \/ part = "rungs"    /\ Rungs!RungNext      /\ UNCHANGED After13
     \/ part = "image"    /\ Rem!ImageNext       /\ UNCHANGED After8
     \/ part = "reduction" /\ Reduction!ReductionNext /\ UNCHANGED After10
     \/ part = "p64"      /\ Container!P64Next   /\ UNCHANGED After12
     \/ part = "renditions" /\ Rend!RenditionNext /\ UNCHANGED After8
  /\ UNCHANGED part

\* What the flux layers give back is the evidence they were given, and each
\* rung above says what it left behind.
FluxIsKept ==
  /\ part = "capture"  => Capture!EvidenceIsKept
  /\ part = "medium"   => Medium!MediumIsServed
  /\ part = "kryoflux" => Kryo!AdmittedAreApart /\ Kryo!IndexIsInItsCell
  /\ part = "rungs"    => Rungs!RungsAreFaithful
  /\ part = "image"    => Rem!ImageIsKept
  /\ part = "reduction" => Reduction!ReductionIsHonest
  /\ part = "p64"      => Container!P64IsKept
  /\ part = "renditions" => Rend!RenditionsAreHonest

\* What a recording's sectors are read as is what its own records state.
RecordsAreServed ==
  /\ part = "ibm" => Ibm!ExtentServesRecords
  /\ part = "gcr" => Gcr!SectorsAreTheCircles

-----------------------------------------------------------------------------
(* Reads of what the marked encodings state, alone *)

HangSpec ==
  /\ part = "ibm" /\ RecordingsInit
  /\ [][RecordingsNext]_<<part, x1, x2, x3, x4, x5, After5>>
  /\ WF_<<x1, x2, x3, x4, x5>>(Ibm!Advance)

\* A read that touches a hole is refused and any other is answered
\* (geometry.rs:26-27): whichever it is, the call returns.
ReadsAreAnswered == Ibm!ReadsAreAnswered

-----------------------------------------------------------------------------
(* Renditions, alone *)

SectorSpec ==
  /\ part = "renditions" /\ RecordingsInit
  /\ [][RecordingsNext]_<<part, x1, x2, x3, x4, x5, After5>>

\* A block the recording did not yield is missing (renditions.rs:552): what
\* is laid at an address is not the data that follows the header of another.
LaidFollowsItsHeader == part = "renditions" => Rend!LaidFollowsItsHeader
=============================================================================
