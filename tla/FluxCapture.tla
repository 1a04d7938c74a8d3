---------------------------- MODULE FluxCapture -----------------------------
(***************************************************************************)
(* A flux capture and its backing (flux/capture/mod.rs, wire.rs): the      *)
(* transitions of each run stream into private storage as sections; what   *)
(* stays resident is identity and shape; and an observation is rebuilt     *)
(* from the run it was bounded from.                                       *)
(***************************************************************************)
EXTENDS SectionStore

CONSTANTS
  Captures,     \* sequences of locations, a location a sequence of runs
  ChunkRecords, \* transitions one section holds (4096)
  MaxReads      \* observations asked for

VARIABLES
  capture,      \* the evidence handed to the builder
  phase,        \* "building", "sealed" or "failed"
  added,        \* locations begun
  todo,         \* sections of the location still to append
  entries, backing, cache,
  damaged,      \* whether a record has changed
  call,         \* the observation being rebuilt or the last one
  reads

captureVars ==
  <<capture, phase, added, todo, entries, backing, cache, damaged, call, reads>>

NoCall == [state |-> "idle"]

CaptureInit ==
  /\ capture \in Captures
  /\ phase = "building" /\ added = 0
  /\ todo = <<>> /\ entries = <<>> /\ backing = <<>> /\ cache = <<>>
  /\ damaged = FALSE
  /\ call = NoCall /\ reads = 0

-----------------------------------------------------------------------------
(* What a run bounds *)

Windows(run) == 1 .. Len(run.indices) - 1
Bounded(run) == \A w \in Windows(run) : run.indices[w + 1] > run.indices[w]

Slice(run, w) == [start |-> run.indices[w], end |-> run.indices[w + 1]]

\* Mutant of Within: the transition that opens the next window counts twice.
WithinClosed(ticks, slice) == SelectSeq(ticks, LAMBDA t : t >= slice.start /\ t <= slice.end)

Within(ticks, slice) == SelectSeq(ticks, LAMBDA t : t >= slice.start /\ t < slice.end)
Rebased(ticks, slice) ==
  LET held == Within(ticks, slice) IN [k \in DOMAIN held |-> held[k] - slice.start]

Below(ticks, tick) == Len(SelectSeq(ticks, LAMBDA t : t < tick))

\* Evidence that bounding does not consume.
BeforeFirstIndex(run) ==
  IF run.indices = <<>> THEN Len(run.ticks) ELSE Below(run.ticks, run.indices[1])
AfterLastIndex(run) ==
  IF run.indices = <<>> THEN 0
  ELSE Len(run.ticks) - Below(run.ticks, run.indices[Len(run.indices)])

\* The first tick as it is and each later one as the gap before it.
Gaps(ticks) == [k \in DOMAIN ticks |-> IF k = 1 THEN ticks[1] ELSE ticks[k] - ticks[k - 1]]
Ticks(gaps) ==
  LET tick[k \in DOMAIN gaps] == IF k = 1 THEN gaps[1] ELSE tick[k - 1] + gaps[k] IN tick

-----------------------------------------------------------------------------
(* The sections of a location: its own, its runs', its observations' *)

Key(location, scope, id, kind, ordinal) == <<location, scope, id, kind, ordinal>>
TrackScope == 0
RunScope   == 1
ViewScope  == 2
Metadata   == 0
Chunks     == 1

\* Runs are numbered across the capture.
RunId(location, r) == Len(FlattenSeq(SubSeq(capture, 1, location - 1))) + r

ChunkKey(location, r, n) == Key(location, RunScope, RunId(location, r), Chunks, n)

RunSections(location, r) ==
  LET ticks == capture[location][r].ticks
  IN  <<Section(Key(location, RunScope, RunId(location, r), Metadata, 0), <<>>)>>
      \o [n \in 1 .. PieceCount(ticks, ChunkRecords) |->
            Section(ChunkKey(location, r, n), Gaps(Piece(ticks, ChunkRecords, n)))]

\* An observation's own section holds no pulses: it names the run and range.
ViewSections(location, r) ==
  [w \in Windows(capture[location][r]) |->
     Section(Key(location, ViewScope, RunId(location, r), Metadata, w), <<>>)]

LocationSections(location) ==
  LET runs == DOMAIN capture[location]
  IN  <<Section(Key(location, TrackScope, 0, Metadata, 0), <<>>)>>
      \o FlattenSeq([r \in runs |-> RunSections(location, r)])
      \o FlattenSeq([r \in runs |-> ViewSections(location, r)])

-----------------------------------------------------------------------------
(* Building *)

\* The builder is spent by its first failure.
Fail ==
  /\ phase' = "failed"
  /\ UNCHANGED <<capture, added, todo, entries, backing, cache, damaged, call, reads>>

AddLocation ==
  /\ phase = "building" /\ todo = <<>> /\ added < Len(capture)
  /\ added' = added + 1
  /\ todo' = LocationSections(added + 1)
  /\ UNCHANGED <<capture, phase, entries, backing, cache, damaged, call, reads>>

\* Observations are bounded after every run of the location was written.
Refused(section) ==
  \/ ~Sorts(entries, section.key)
  \/ section.key[2] = ViewScope /\ \E r \in DOMAIN capture[added] : ~Bounded(capture[added][r])

AppendSection ==
  /\ phase = "building" /\ todo # <<>>
  /\ \/ Fail
     \/ /\ ~Refused(Head(todo))
        /\ backing' = Append(backing, Record(Head(todo).payload))
        /\ entries' = Append(entries, Entry(Head(todo).key, Len(backing) + 1))
        /\ todo' = Tail(todo)
        /\ UNCHANGED <<capture, phase, added, cache, damaged, call, reads>>

Seal ==
  /\ phase = "building" /\ todo = <<>> /\ added = Len(capture)
  /\ \/ Fail
     \/ /\ backing' = backing \o Index(entries, Len(backing))
        /\ phase' = "sealed"
        /\ UNCHANGED <<capture, added, todo, entries, cache, damaged, call, reads>>

Damage ==
  /\ phase = "sealed" /\ ~damaged
  /\ \E n \in DOMAIN entries : backing[n].section # <<>> /\ backing' = Changed(backing, n)
  /\ damaged' = TRUE
  /\ UNCHANGED <<capture, phase, added, todo, entries, cache, call, reads>>

-----------------------------------------------------------------------------
(* Reading *)

Ask ==
  /\ phase = "sealed" /\ call.state # "reading" /\ reads < MaxReads
  /\ \E l \in DOMAIN capture : \E r \in DOMAIN capture[l] : \E w \in Windows(capture[l][r]) :
       call' = [state |-> "reading", location |-> l, run |-> r, window |-> w,
                ticks |-> <<>>, chunk |-> 1]
  /\ reads' = reads + 1
  /\ UNCHANGED <<capture, phase, added, todo, entries, backing, cache, damaged>>

ChunksAsked == PieceCount(capture[call.location][call.run].ticks, ChunkRecords)

LoadChunk ==
  LET given == Asked(backing, cache, ChunkKey(call.location, call.run, call.chunk))
  IN  /\ call.state = "reading" /\ call.chunk <= ChunksAsked
      /\ \/ \E g \in given :
              /\ cache' = g.cache
              /\ call' = [call EXCEPT !.ticks = @ \o Ticks(g.payload), !.chunk = @ + 1]
         \/ given = {} /\ call' = [call EXCEPT !.state = "refused"] /\ UNCHANGED cache
      /\ UNCHANGED <<capture, phase, added, todo, entries, backing, damaged, reads>>

\* The same cut, made again from the same bytes.
Rebuild ==
  LET run == capture[call.location][call.run]
  IN  /\ call.state = "reading" /\ call.chunk > ChunksAsked
      /\ call' = [call EXCEPT !.state = "answered",
                              !.ticks = Rebased(@, Slice(run, call.window))]
      /\ UNCHANGED <<capture, phase, added, todo, entries, backing, cache, damaged, reads>>

CaptureNext == AddLocation \/ AppendSection \/ Seal \/ Damage \/ Ask \/ LoadChunk \/ Rebuild

-----------------------------------------------------------------------------
(* Properties *)

\* An observation rebuilt from the backing is the run's own evidence between
\* its two indices, whatever was evicted or has changed since, and a section
\* that was written is refused only where its record changed
\* (capture/mod.rs:654-660, sections.rs:727-731).
ObservationIsTheCut ==
  LET run   == capture[call.location][call.run]
      slice == Slice(run, call.window)
  IN  /\ call.state = "answered" =>
           /\ Range(call.ticks) = {t - slice.start : t \in
                {u \in Range(run.ticks) : u \in slice.start .. slice.end - 1}}
           /\ \A k \in 2 .. Len(call.ticks) : call.ticks[k] > call.ticks[k - 1]
      /\ call.state = "refused" => damaged

\* What bounding does not consume is counted: every transition of a run is in
\* one of its observations, before the first index or after the last.
EveryTransitionIsCounted ==
  \A l \in 1 .. added : \A r \in DOMAIN capture[l] :
    LET run     == capture[l][r]
        held(w) == Len(Within(run.ticks, Slice(run, w)))
    IN  Bounded(run) =>
          BeforeFirstIndex(run) + AfterLastIndex(run)
            + FoldSet(LAMBDA w, n : n + held(w), 0, Windows(run)) = Len(run.ticks)

EvidenceIsKept == ObservationIsTheCut /\ EveryTransitionIsCounted /\ IsBounded(cache)
=============================================================================
