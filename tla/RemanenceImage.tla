---------------------------- MODULE RemanenceImage ----------------------------
(***************************************************************************)
(* The remanence image (flux/remanence/image.rs) and its artifact          *)
(* (flux/remanence/format.rs).  An orbit is a circular sequence of points, *)
(* each stating the state in force from its angle: what is between two     *)
(* points is the object, a point only its leading edge.  An orbit is       *)
(* turned over with its medium, refined by what a donor reads, written out *)
(* and read back.                                                          *)
(*                                                                         *)
(* A point is [angle, state, widths]; widths 0 states none.                *)
(***************************************************************************)
EXTENDS Integers, FiniteSets, Sequences, SequencesExt, FiniteSetsExt

CONSTANTS
  Artifacts,  \* payloads: surfaces of [surface |-> .., orbits |-> <<[radius, points]>>]
  Donors,     \* orbits another reading gives
  Divisions   \* of one turn (2^28)

VARIABLES
  source,     \* the artifact opened
  read,       \* surfaces of it that are decoded
  orbits,     \* orbits the image holds, in key order
  phase,      \* "decoding", "open" or "refused"
  result,     \* what the last call made of an orbit
  target,     \* the file the destination names, as a set of at most one
  staged,     \* the staging file, likewise
  writer      \* "idle", "building", "placing", "done", "failed" or "crashed"

imageVars == <<source, read, orbits, phase, result, target, staged, writer>>

-----------------------------------------------------------------------------
(* Points *)

Point(angle, state, widths) == [angle |-> angle, state |-> state, widths |-> widths]

IsCoherent(state) == state \in {"positive", "negative"}
Opposite(state)   == IF state = "positive" THEN "negative" ELSE "positive"

CoherentAt(points)  == {n \in DOMAIN points : IsCoherent(points[n].state)}
\* The nearest coherent span before the n-th, zero when there is none.
CoherentBefore(points, n) == Max({0} \cup {m \in CoherentAt(points) : m < n})

\* Angles ascend, the first coherent point states widths, and a sense already
\* in force is only stated again with widths: a rewrite splice.
IsOrbit(points) ==
  /\ CoherentAt(points) # {} => points[Min(CoherentAt(points))].widths # 0
  /\ \A n \in 2 .. Len(points) :
       /\ points[n].angle > points[n - 1].angle
       /\ (IsCoherent(points[n].state) /\ points[n].state = points[n - 1].state)
            => points[n].widths # 0

Asserts(points) == \E n \in DOMAIN points : points[n].state # "unaligned"

\* The nearest point before the angle, wrapping past the origin.
StateAt(points, angle) ==
  LET before == {n \in DOMAIN points : points[n].angle <= angle}
  IN  points[IF before = {} THEN Len(points) ELSE Max(before)].state

SpanEnd(points, n) ==
  IF n < Len(points) THEN points[n + 1].angle ELSE points[1].angle + Divisions

\* The points strictly inside the stretch, which may run past the origin.
Inside(points, from, to) ==
  {n \in DOMAIN points :
     \E a \in {points[n].angle, points[n].angle + Divisions} : a > from /\ a < to}

\* All or nothing: one point inside with no sense and the stretch is not read.
Reads(points, from, to) ==
  /\ points # <<>> /\ from < to
  /\ IsCoherent(StateAt(points, from % Divisions))
  /\ Inside(points, from, to) \subseteq CoherentAt(points)

\* Absence of widths means unchanged, resolved forward with the wrap.
WidthsInForce(points, n) ==
  LET stating == {m \in DOMAIN points : points[m].widths # 0}
      before  == {m \in stating : m <= n}
  IN  IF stating = {} THEN 0
      ELSE points[IF before = {} THEN Max(stating) ELSE Max(before)].widths

\* Mutant of Relaid: the widths are stated on the first coherent point only.
RelaidOnce(spans) ==
  [n \in DOMAIN spans |->
     IF ~IsCoherent(spans[n].state) THEN Point(spans[n].angle, spans[n].state, 0)
     ELSE LET opens  == Max({0} \cup {m \in 1 .. n : ~IsCoherent(spans[m].state)}) + 1
          IN  Point(spans[n].angle,
                    IF (n - opens) % 2 = 0 THEN "positive" ELSE "negative",
                    IF CoherentBefore(spans, n) = 0 THEN spans[n].widths ELSE 0)]

\* Polarity is laid fresh: senses alternate, starting over after a span that
\* has none, and widths are stated where they change and on the first point.
Relaid(spans) ==
  [n \in DOMAIN spans |->
     IF ~IsCoherent(spans[n].state) THEN Point(spans[n].angle, spans[n].state, 0)
     ELSE LET opens  == Max({0} \cup {m \in 1 .. n : ~IsCoherent(spans[m].state)}) + 1
              before == CoherentBefore(spans, n)
          IN  Point(spans[n].angle,
                    IF (n - opens) % 2 = 0 THEN "positive" ELSE "negative",
                    IF before # 0 /\ spans[before].widths = spans[n].widths THEN 0
                    ELSE spans[n].widths)]

InAngle(spans) ==
  [n \in 1 .. Cardinality(spans) |->
     CHOOSE s \in spans : Cardinality({t \in spans : t.angle < s.angle}) = n - 1]

\* The other side up: a span's leading edge becomes its trailing one.
Reversed(points) ==
  Relaid(InAngle({Point((Divisions - (SpanEnd(points, n) % Divisions)) % Divisions,
                        points[n].state, WidthsInForce(points, n)) : n \in DOMAIN points}))

\* Spans of mine that a donor may fill: ignorance, and it reads all of them.
Filled(mine, donor) ==
  {n \in DOMAIN mine :
     mine[n].state = "unaligned" /\ Reads(donor, mine[n].angle, SpanEnd(mine, n))}

FillFrom(mine, donor) ==
  LET kept == {IF n \in Filled(mine, donor)
               THEN Point(mine[n].angle, "positive", WidthsInForce(mine, n))
               ELSE Point(mine[n].angle, mine[n].state,
                          IF mine[n].state = "unaligned" THEN 0 ELSE WidthsInForce(mine, n)) :
                 n \in DOMAIN mine}
      recovered == UNION {{Point(donor[m].angle, "positive", WidthsInForce(mine, n)) :
                             m \in Inside(donor, mine[n].angle, SpanEnd(mine, n))} :
                            n \in Filled(mine, donor)}
  IN  Relaid(InAngle(kept \cup recovered))

-----------------------------------------------------------------------------
(* The artifact *)

\* A sense that alternates is derived, every other one is stated.
Derivable(points, n) ==
  /\ n > 1 /\ IsCoherent(points[n].state) /\ IsCoherent(points[n - 1].state)
  /\ points[n].state = Opposite(points[n - 1].state)

EncodePoints(points) ==
  [n \in DOMAIN points |->
     [step   |-> points[n].angle - (IF n = 1 THEN 0 ELSE points[n - 1].angle),
      state  |-> IF Derivable(points, n) THEN "derived" ELSE points[n].state,
      widths |-> points[n].widths]]

\* The records of an orbit read in order: undone when a sense is derived from
\* none, or when a point is none (an angle past the turn, widths on no sense).
DecodePoints(records) ==
  FoldLeft(LAMBDA soFar, r :
    LET last  == soFar.points[Len(soFar.points)]
        angle == r.step + (IF soFar.points = <<>> THEN 0 ELSE last.angle)
        from  == IF soFar.points = <<>> THEN "none" ELSE last.state
        state == IF r.state = "derived" THEN Opposite(from) ELSE r.state
    IN  IF \/ ~soFar.whole
           \/ r.state = "derived" /\ ~IsCoherent(from)
           \/ angle >= Divisions
           \/ r.widths # 0 /\ ~IsCoherent(state)
        THEN [whole |-> FALSE, points |-> <<>>]
        ELSE [whole |-> TRUE, points |-> Append(soFar.points, Point(angle, state, r.widths))],
    [whole |-> TRUE, points |-> <<>>], records)

\* Grouped by surface, and within one the outermost orbit first.
Encode(held) ==
  LET surfaces == {o.surface : o \in Range(held)}
      nth(k)   == CHOOSE s \in surfaces : Cardinality({t \in surfaces : t < s}) = k - 1
  IN  [k \in 1 .. Cardinality(surfaces) |->
         [surface |-> nth(k),
          orbits  |-> LET mine == Reverse(SelectSeq(held, LAMBDA o : o.surface = nth(k)))
                      IN  [j \in DOMAIN mine |->
                             [radius |-> mine[j].radius, points |-> EncodePoints(mine[j].points)]]]]

\* Bytes that are no whole artifact.
Unfinished == <<[surface |-> -1, orbits |-> <<>>]>>

ImageInit ==
  /\ source \in Artifacts /\ read = 0 /\ orbits = <<>> /\ phase = "decoding"
  /\ result = [call |-> "none"]
  /\ target \in {{}, {Unfinished}} /\ staged = {} /\ writer = "idle"

\* Adds an orbit after those the image has: one that asserts nothing is not
\* kept, one that is no orbit or not past them is refused.
Added(held, surface, record) ==
  LET decoded == DecodePoints(record.points)
      orbit   == [surface |-> surface, radius |-> record.radius, points |-> decoded.points]
      sorts   == \/ held = <<>>
                 \/ surface > Last(held).surface
                 \/ surface = Last(held).surface /\ record.radius > Last(held).radius
  IN  IF ~decoded.whole \/ record.radius = 0 \/ ~IsOrbit(decoded.points) THEN {}
      ELSE IF ~Asserts(decoded.points) THEN {held}
      ELSE IF sorts THEN {Append(held, orbit)} ELSE {}

\* A surface is decoded whole and its orbits are added innermost first.
DecodeSurface ==
  /\ phase = "decoding" /\ read < Len(source)
  /\ LET block   == source[read + 1]
         ascends == read > 0 => block.surface > source[read].surface
         made    == FoldLeft(LAMBDA held, o : UNION {Added(h, block.surface, o) : h \in held},
                             {orbits}, Reverse(block.orbits))
     IN \/ /\ ~ascends \/ made = {}
           /\ phase' = "refused" /\ UNCHANGED <<read, orbits>>
        \/ /\ ascends /\ made # {}
           /\ orbits' \in made /\ read' = read + 1 /\ UNCHANGED phase
  /\ UNCHANGED <<source, result, target, staged, writer>>

SealImage ==
  /\ phase = "decoding" /\ read = Len(source)
  /\ phase' = "open"
  /\ UNCHANGED <<source, read, orbits, result, target, staged, writer>>

-----------------------------------------------------------------------------
(* Calls on an orbit *)

TurnOver ==
  /\ phase = "open" /\ result.call = "none" /\ writer = "idle"
  /\ \E n \in DOMAIN orbits :
       result' = [call |-> "turned", mine |-> orbits[n].points,
                  made |-> Reversed(orbits[n].points)]
  /\ UNCHANGED <<source, read, orbits, phase, target, staged, writer>>

Refine ==
  /\ phase = "open" /\ result.call = "none" /\ writer = "idle"
  /\ \E n \in DOMAIN orbits, donor \in Donors :
       result' = [call |-> "refined", mine |-> orbits[n].points, donor |-> donor,
                  made |-> FillFrom(orbits[n].points, donor)]
  /\ UNCHANGED <<source, read, orbits, phase, target, staged, writer>>

-----------------------------------------------------------------------------
(* Writing an artifact *)

\* What is there already is not overwritten; the staging file is made claimed.
BeginWrite ==
  /\ phase = "open" /\ writer = "idle" /\ result.call = "none"
  /\ \/ target # {} /\ writer' = "failed" /\ UNCHANGED staged
     \/ target = {} /\ writer' = "building" /\ staged' = {Unfinished}
  /\ UNCHANGED <<source, read, orbits, phase, result, target>>

\* Written and synced before the destination is named, or taken away.
Build ==
  /\ writer = "building"
  /\ \/ writer' = "placing" /\ staged' = {Encode(orbits)}
     \/ writer' = "failed" /\ staged' = {}
  /\ UNCHANGED <<source, read, orbits, phase, result, target>>

Place ==
  /\ writer = "placing"
  /\ \/ writer' = "done" /\ target' = staged
     \/ writer' = "failed" /\ UNCHANGED target
  /\ staged' = {}
  /\ UNCHANGED <<source, read, orbits, phase, result>>

\* Another program makes the destination while the artifact is on its way.
Interfere ==
  /\ writer \in {"building", "placing"} /\ target = {}
  /\ target' = {Unfinished}
  /\ UNCHANGED <<source, read, orbits, phase, result, staged, writer>>

\* The process ends between two steps; what it staged stays behind.
CrashWriting ==
  /\ writer \in {"building", "placing"}
  /\ writer' = "crashed"
  /\ UNCHANGED <<source, read, orbits, phase, result, target, staged>>

ImageNext ==
  DecodeSurface \/ SealImage \/ TurnOver \/ Refine \/ BeginWrite \/ Build \/ Place
  \/ Interfere \/ CrashWriting

-----------------------------------------------------------------------------
(* Properties *)

Angles == 0 .. Divisions - 1

\* The angles at which the sense changes from one to the other.
Reversals(points) ==
  {a \in Angles :
     LET before == StateAt(points, (a + Divisions - 1) % Divisions)
         here   == StateAt(points, a)
     IN  IsCoherent(before) /\ IsCoherent(here) /\ before # here}

\* Same-sense neighbours, which only a rewrite leaves.
Spliced(points) ==
  \E n \in 2 .. Len(points) :
    IsCoherent(points[n].state) /\ points[n].state = points[n - 1].state

\* What an artifact opens to is an image: keys ascend, every orbit is one and
\* asserts something (image.rs:1196-1203, format.rs:208-226).
DecodedIsImage ==
  phase = "open" =>
    /\ \A n \in 2 .. Len(orbits) :
         \/ orbits[n].surface > orbits[n - 1].surface
         \/ orbits[n].surface = orbits[n - 1].surface /\ orbits[n].radius > orbits[n - 1].radius
    /\ \A n \in DOMAIN orbits : IsOrbit(orbits[n].points) /\ Asserts(orbits[n].points)

\* A destination names the whole artifact or what it named before, and what it
\* names reads back as the image (format.rs:435-441, 482-492).
WrittenReadsBack ==
  /\ target \in {{}, {Unfinished}, {Encode(orbits)}}
  /\ phase = "open" =>
       FoldLeft(LAMBDA held, block :
                  UNION {FoldLeft(LAMBDA hs, o : UNION {Added(h, block.surface, o) : h \in hs},
                                  {g}, Reverse(block.orbits)) : g \in held},
                {<<>>}, Encode(orbits)) = {orbits}

\* Turned over, every place of an orbit is what the mirrored place was: its
\* state where it has no sense, its widths where it has, and the reversals the
\* mirrored ones, but for the wrap, and where the orbit was spliced
\* (image.rs:944-956).
TurnedIsMirror ==
  result.call = "turned" =>
    LET mine == result.mine
        made == result.made
        mirror(a) == Divisions - 1 - a
        kind(s) == IF IsCoherent(s) THEN "coherent" ELSE s
        at(points, a) == LET before == {n \in DOMAIN points : points[n].angle <= a}
                         IN  IF before = {} THEN Len(points) ELSE Max(before)
        wrap == {mine[1].angle, (Divisions - made[1].angle) % Divisions}
    IN  /\ IsOrbit(made)
        /\ \A a \in Angles :
             /\ kind(StateAt(made, a)) = kind(StateAt(mine, mirror(a)))
             /\ IsCoherent(StateAt(made, a)) =>
                  WidthsInForce(made, at(made, a)) = WidthsInForce(mine, at(mine, mirror(a)))
        /\ ~Spliced(mine) =>
             {(Divisions - a) % Divisions : a \in Reversals(made)} \ wrap
               = Reversals(mine) \ wrap

\* Refined, an orbit is overwritten only where it was ignorant and the donor
\* reads the whole stretch; a place it could not read stays unread, one that
\* holds no state stays inert, and inside a filled stretch the reversals are
\* the donor's (image.rs:1059-1063).
RefinedFillsIgnorance ==
  result.call = "refined" =>
    LET mine == result.mine
        made == result.made
        at(a) == LET before == {n \in DOMAIN mine : mine[n].angle <= a}
                 IN  IF before = {} THEN Len(mine) ELSE Max(before)
        filled(a) == at(a) \in Filled(mine, result.donor)
    IN  \A a \in Angles :
          /\ ~filled(a) =>
               \/ IsCoherent(StateAt(mine, a)) /\ IsCoherent(StateAt(made, a))
               \/ StateAt(made, a) = StateAt(mine, a)
          /\ filled(a) =>
               /\ IsCoherent(StateAt(made, a))
               /\ a # mine[at(a)].angle =>
                    (a \in {p.angle : p \in Range(result.donor)} <=> a \in {p.angle : p \in Range(made)})

ImageIsKept == DecodedIsImage /\ WrittenReadsBack /\ TurnedIsMirror /\ RefinedFillsIgnorance
=============================================================================
