--------------------------- MODULE Reconstruction ---------------------------
(***************************************************************************)
(* The reduction of a capture to a remanence image (flux/remanence/        *)
(* reconstruction.rs over flux/analysis.rs): one side's locations swept,   *)
(* their revolutions matched, the recorded positions selected, the steps   *)
(* that read one recording merged, and the image written orbit by orbit.   *)
(*                                                                         *)
(* A location is [head, position, runs]; a run is the sequence of its      *)
(* circular observations, [span, ticks].  The lattice the angles are       *)
(* snapped to is left out: the integration gives as many angles, ascending *)
(* from the first, and any of the last may come out past the turn.         *)
(***************************************************************************)
EXTENDS Integers, FiniteSets, Sequences, SequencesExt, FiniteSetsExt, Folds

CONSTANTS
  Captures,      \* sequences of locations
  Reductions,    \* [side |-> .., declared |-> {} or {positions}]
  Divisions,     \* of one turn (2^28)
  GapTolerance,  \* two gaps are the same within this much
  Confirm,       \* gaps a resynchronisation proves itself over (6)
  Spread,        \* how far apart sightings of one transition may be
  LongRun,       \* failures in a row that are the background (32)
  Slack,         \* reversals two passes of one recording differ by (4)
  Resolves,      \* permille the counts of a recording may spread by
  FirstRadius, Pitch  \* the rig's radial lattice

VARIABLES
  capture, choice,
  phase,       \* "sweeping", "merging", "writing", "done" or "refused"
  swept,       \* locations gone through
  built,       \* what the sweep made of those it could
  recorded,    \* positions selected
  at,          \* the next of built the merge looks at
  admitted,    \* those of built that are admitted
  loss,
  image        \* orbits written: [radius |-> .., points |-> ..]

reductionVars ==
  <<capture, choice, phase, swept, built, recorded, at, admitted, loss, image>>

ReductionInit ==
  /\ capture \in Captures /\ choice \in Reductions
  /\ phase = "sweeping" /\ swept = 0 /\ built = <<>> /\ recorded = {}
  /\ at = 1 /\ admitted = {} /\ image = <<>>
  /\ loss = [unselected |-> 0, unbounded |-> 0, empty |-> 0, unadmitted |-> 0]

Refuse ==
  /\ phase' = "refused"
  /\ UNCHANGED <<capture, choice, swept, built, recorded, at, admitted, loss, image>>

-----------------------------------------------------------------------------
(* The correspondence between two revolutions *)

GapsAgree(a, i, b, j) ==
  LET d == (a[i + 1] - a[i]) - (b[j + 1] - b[j])
  IN  d \in -GapTolerance .. GapTolerance

\* Following gaps that agree, up to what confirms.
ResyncScore(a, i, b, j) ==
  Max({n \in 0 .. Confirm :
         \A k \in 0 .. n - 1 :
           i + k < Len(a) /\ j + k < Len(b) /\ GapsAgree(a, i + k, b, j + k)})

\* How far the walk goes in each after a gap that does not agree: on in both,
\* or over a reversal only one of them resolved.
Repair(skipOther, skipReference, neither) ==
  LET best == Max({skipOther, skipReference, neither})
  IN  IF best < Confirm - 1 THEN <<1, 1>>
      ELSE IF skipOther = best THEN <<1, 2>>
      ELSE IF skipReference = best THEN <<2, 1>>
      ELSE <<1, 1>>

Onward(a, i, b, j) ==
  IF GapsAgree(a, i, b, j) THEN <<1, 1>>
  ELSE Repair(ResyncScore(a, i + 1, b, j + 2), ResyncScore(a, i + 2, b, j + 1),
              ResyncScore(a, i + 1, b, j + 1))

\* match_indices: pairs of the reference's transitions and the other's, walked
\* by the agreement of gaps; a transition in no pair was not seen.
MatchIndices(a, b) ==
  LET walk[n \in 0 .. Len(a)] ==
        IF n = 0 THEN IF a = <<>> \/ b = <<>> THEN <<>> ELSE <<<<1, 1>>>>
        ELSE IF walk[n - 1] = <<>> THEN <<>>
        ELSE LET p == Last(walk[n - 1])
                 s == Onward(a, p[1], b, p[2])
             IN  IF \/ p[1] >= Len(a) \/ p[2] >= Len(b)
                    \/ p[1] + s[1] > Len(a) \/ p[2] + s[2] > Len(b)
                 THEN walk[n - 1]
                 ELSE Append(walk[n - 1], <<p[1] + s[1], p[2] + s[2]>>)
  IN  Range(walk[Len(a)])

\* A revolution laid over the reference: its angles, -1 for one it did not see.
Laid(a, b) ==
  LET pairs == MatchIndices(a, b)
  IN  [i \in DOMAIN a |->
         IF \E p \in pairs : p[1] = i THEN b[(CHOOSE p \in pairs : p[1] = i)[2]] ELSE -1]

-----------------------------------------------------------------------------
(* One location *)

\* A tick at the index is dropped, and so is one no angle apart from the last.
AnglesOf(o) ==
  FoldLeft(LAMBDA kept, tick :
    LET angle == (tick * Divisions) \div o.span
    IN  IF tick = 0 \/ (kept # <<>> /\ angle <= Last(kept)) THEN kept
        ELSE Append(kept, angle), <<>>, o.ticks)

Gathered(l) == LET all == FlattenSeq(l.runs) IN [n \in DOMAIN all |-> AnglesOf(all[n])]

\* coheres: three quarters of the revolutions saw it, close enough together.
Required(n)  == (3 * n + 3) \div 4
Coheres(rows, i) ==
  LET seen == {r \in DOMAIN rows : rows[r][i] >= 0}
      at0  == {rows[r][i] : r \in seen}
  IN  Cardinality(seen) >= Required(Len(rows)) /\ Max(at0) - Min(at0) <= Spread

\* Those of a run of failures long enough to be the background.
InSpan(coheres) ==
  {i \in DOMAIN coheres :
     \E a, b \in DOMAIN coheres :
       /\ a <= i /\ i <= b /\ b - a + 1 >= LongRun
       /\ \A k \in a .. b : ~coheres[k]}

Point(angle, state, widths) == [angle |-> angle, state |-> state, widths |-> widths]
Opposite(s) == IF s = "positive" THEN "negative" ELSE "positive"

\* points_from: senses alternate from a fresh one, one point opens a span that
\* has none, and the widths are stated on the first that has a sense.
PointsFrom(angles, inSpan) ==
  FoldLeft(LAMBDA soFar, i :
    IF angles[i] <= 0 \/ angles[i] >= Divisions THEN soFar
    ELSE IF i \notin inSpan
    THEN [points |-> Append(soFar.points,
                            Point(angles[i], soFar.sense, IF soFar.stated THEN 0 ELSE 1)),
          stated |-> TRUE, sense |-> Opposite(soFar.sense), within |-> FALSE]
    ELSE IF soFar.within THEN soFar
    ELSE [points |-> Append(soFar.points, Point(angles[i], "unaligned", 0)),
          stated |-> soFar.stated, sense |-> "positive", within |-> TRUE],
    [points |-> <<>>, stated |-> FALSE, sense |-> "positive", within |-> FALSE],
    [i \in DOMAIN angles |-> i]).points

\* The integration from the reference's first angle: the last of them may come
\* out past the turn, and two that tie are set one division apart.
Integrated(reference) ==
  {reference} \cup
  {[i \in DOMAIN reference |->
      IF i < n THEN reference[i]
      ELSE Max({reference[n - 1] + 1 + (i - n)} \cup {Divisions - Len(reference) + i})] :
     n \in 2 .. Len(reference)}

CoherentAngles(points) ==
  LET coherent == SelectSeq(points, LAMBDA p : p.state # "unaligned")
  IN  [n \in DOMAIN coherent |-> coherent[n].angle]

Orbit(position, rows, angles, inSpan, counts) ==
  LET points == PointsFrom(angles, inSpan)
  IN  [position |-> position, rows |-> rows, counts |-> counts, inSpan |-> inSpan,
       points |-> points, angles |-> CoherentAngles(points)]

Built(l, revolutions) ==
  LET reference == revolutions[1]
      rows      == [r \in DOMAIN revolutions |->
                      IF r = 1 THEN reference ELSE Laid(reference, revolutions[r])]
      spans     == InSpan([i \in DOMAIN reference |-> Coheres(rows, i)])
      counts    == [r \in DOMAIN revolutions |-> Len(revolutions[r])]
  IN  {Orbit(l.position, rows, a, spans, counts) : a \in Integrated(reference)}

-----------------------------------------------------------------------------
(* The sweep *)

Sides == {capture[n].head : n \in DOMAIN capture}

\* Sides are never merged: the one declared must be there.
NoSuchSide == phase = "sweeping" /\ choice.side \notin Sides /\ Refuse

Lose(kind) ==
  /\ loss' = [loss EXCEPT ![kind] = @ + 1]
  /\ UNCHANGED <<phase, built>>

SweepLocation ==
  /\ phase = "sweeping" /\ choice.side \in Sides /\ swept < Len(capture)
  /\ LET l == capture[swept + 1]
         r == Gathered(l)
     IN \/ l.head # choice.side /\ Lose("unselected")
        \/ l.head = choice.side /\ r = <<>> /\ Lose("unbounded")
        \/ l.head = choice.side /\ r # <<>> /\ r[1] = <<>> /\ Lose("empty")
        \/ /\ l.head = choice.side /\ r # <<>> /\ r[1] # <<>>
           /\ \E o \in Built(l, r) : built' = Append(built, o)
           /\ UNCHANGED <<phase, loss>>
  /\ swept' = swept + 1
  /\ UNCHANGED <<capture, choice, recorded, at, admitted, image>>

-----------------------------------------------------------------------------
(* The selection and the merge *)

Positions == {built[n].position : n \in DOMAIN built}

\* The counts of a recording's revolutions spread by less than the threshold.
IsResolved(o) ==
  LET high == Max(Range(o.counts)) low == Min(Range(o.counts))
  IN  (high - low) * 1000 < Resolves * high

InPosition ==
  [n \in DOMAIN built |->
     CHOOSE o \in Range(built) :
       Cardinality({p \in Range(built) : p.position < o.position}) = n - 1]

Measured == {o.position : o \in {p \in Range(built) : IsResolved(p)}}
Selected == IF choice.declared = {} THEN Measured ELSE CHOOSE d \in choice.declared : TRUE

\* No location could be reconstructed, none of them is selected, or the policy
\* declares one the capture does not hold.
RefuseSelection ==
  /\ phase = "sweeping" /\ choice.side \in Sides /\ swept = Len(capture)
  /\ built = <<>> \/ Selected = {} \/ ~(Selected \subseteq Positions)
  /\ Refuse

Select ==
  /\ phase = "sweeping" /\ choice.side \in Sides /\ swept = Len(capture)
  /\ built # <<>> /\ Selected # {} /\ Selected \subseteq Positions
  /\ phase' = "merging" /\ recorded' = Selected /\ built' = InPosition
  /\ UNCHANGED <<capture, choice, swept, at, admitted, loss, image>>

\* is_recording: half of the transitions read survived coherence.
IsRecording(o) == o.counts[1] > 0 /\ 2 * Len(o.angles) >= o.counts[1]

\* The circular gaps, the last wrapping to the first one turn on.
Gaps(a) == [i \in DOMAIN a |-> (IF i < Len(a) THEN a[i + 1] ELSE a[1] + Divisions) - a[i]]

\* same_recording: at some rotation, nine in ten of the gaps agree.
SameGaps(a, b) ==
  LET window == Min({Len(a), Len(b)})
      hits(offset) ==
        Cardinality({i \in 1 .. window :
          a[i] - b[((offset + i - 1) % Len(b)) + 1] \in -GapTolerance .. GapTolerance})
  IN  /\ a # <<>> /\ b # <<>>
      /\ Len(a) - Len(b) \in -Slack .. Slack
      /\ \E offset \in 0 .. Len(b) - 1 : 10 * hits(offset) >= 9 * window
SameRecording(o, p) == SameGaps(Gaps(o.angles), Gaps(p.angles))

\* The steps from i on that follow one another and read what i reads.
GroupEnd(i) ==
  Max({k \in i .. Len(built) :
         \A m \in i + 1 .. k :
           /\ built[m].position = built[m - 1].position + 1
           /\ IsRecording(built[m]) /\ SameRecording(built[i], built[m])})

\* Mutant of MergeGroup: a group nothing selected is admitted as well.
MergeUnasked ==
  /\ phase = "merging" /\ at <= Len(built)
  /\ IF IsRecording(built[at])
     THEN /\ at' = GroupEnd(at) + 1
          /\ admitted' = admitted \cup (at .. GroupEnd(at))
     ELSE at' = at + 1 /\ UNCHANGED admitted
  /\ UNCHANGED <<capture, choice, phase, swept, built, recorded, loss, image>>

\* A group is admitted only where the selection names one of its steps.
MergeGroup ==
  /\ phase = "merging" /\ at <= Len(built)
  /\ IF IsRecording(built[at])
     THEN LET group == at .. GroupEnd(at)
          IN  /\ at' = GroupEnd(at) + 1
              /\ admitted' = IF \E k \in group : built[k].position \in recorded
                             THEN admitted \cup group ELSE admitted
     ELSE at' = at + 1 /\ UNCHANGED admitted
  /\ UNCHANGED <<capture, choice, phase, swept, built, recorded, loss, image>>

FinishPlan ==
  /\ phase = "merging" /\ at = Len(built) + 1
  /\ phase' = "writing"
  /\ loss' = [loss EXCEPT !.unadmitted = Len(built) - Cardinality(admitted)]
  /\ UNCHANGED <<capture, choice, swept, built, recorded, at, admitted, image>>

-----------------------------------------------------------------------------
(* The image *)

\* The rig's radius at a position, rounded to the whole micron.
RadiusAt(position) ==
  Max({0, (2 * (FirstRadius * Pitch[2] - position * Pitch[1]) + Pitch[2]) \div (2 * Pitch[2])})

\* What the image's builder takes: RemanenceImage's IsOrbit, past the last.
Takes(orbits, radius, points) ==
  LET coherent == {n \in DOMAIN points : points[n].state # "unaligned"}
  IN  /\ radius > 0 /\ (orbits # <<>> => radius > Last(orbits).radius)
      /\ coherent # {} => points[Min(coherent)].widths # 0
      /\ \A n \in 2 .. Len(points) :
           /\ points[n].angle > points[n - 1].angle
           /\ (n \in coherent /\ points[n].state = points[n - 1].state)
                => points[n].widths # 0

\* execute: innermost first, which is the last position.
Remaining == {n \in admitted : ~\E o \in Range(image) : o.position = built[n].position}

WriteOrbit ==
  /\ phase = "writing" /\ Remaining # {}
  /\ LET o == built[Max(Remaining)]
     IN IF Takes(image, RadiusAt(o.position), o.points)
        THEN /\ image' = Append(image, [position |-> o.position, points |-> o.points,
                                        radius |-> RadiusAt(o.position)])
             /\ UNCHANGED phase
        ELSE phase' = "refused" /\ UNCHANGED image
  /\ UNCHANGED <<capture, choice, swept, built, recorded, at, admitted, loss>>

SealImage ==
  /\ phase = "writing" /\ Remaining = {}
  /\ phase' = "done"
  /\ UNCHANGED <<capture, choice, swept, built, recorded, at, admitted, loss, image>>

ReductionNext ==
  \/ NoSuchSide \/ SweepLocation \/ RefuseSelection \/ Select \/ MergeGroup \/ FinishPlan
  \/ WriteOrbit \/ SealImage

-----------------------------------------------------------------------------
(* Properties *)

\* Every location is in the image or in the account of what was left behind
\* (reconstruction.rs:346, 576-584).
SweepIsAccounted ==
  phase = "done" =>
    Len(capture) = Len(image) + loss.unselected + loss.unbounded + loss.empty
                     + loss.unadmitted

\* What was planned can be written: the reduction gives no orbit the image's
\* builder refuses, and none it would drop as asserting nothing
\* ("executing adds nothing to the account", reconstruction.rs:148-150).
PlanIsWritable ==
  phase \in {"writing", "done"} =>
    \A n \in admitted :
      /\ Takes(<<>>, RadiusAt(built[n].position), built[n].points)
      /\ \E p \in Range(built[n].points) : p.state # "unaligned"

\* "The merge widens recordings, it never decides what the disk holds"
\* (reconstruction.rs:532-535): from every admitted position, steps that follow
\* one another and are admitted themselves lead to one the selection names.
MergeOnlyWidens ==
  \A n \in admitted :
    /\ IsRecording(built[n])
    /\ \E m \in admitted :
         /\ built[m].position \in recorded
         /\ \A k \in Min({n, m}) .. Max({n, m}) : k \in admitted
         /\ built[m].position - built[n].position = m - n

ReductionIsHonest == SweepIsAccounted /\ PlanIsWritable /\ MergeOnlyWidens
=============================================================================
