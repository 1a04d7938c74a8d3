---------------------------------- MODULE P64 ----------------------------------
(***************************************************************************)
(* The P64 container (flux/p64.rs): a flux medium at rest, one             *)
(* range-coded chunk a half-track.  A medium is described, streamed to a   *)
(* staging file and moved into place; a container, this library's or       *)
(* another program's, is walked chunk by chunk and decoded pulse by pulse. *)
(*                                                                         *)
(* Every width is a constant: a byte holds ByteBits bits, a word WordBytes *)
(* bytes, and the coder's models odds out of Odds.                         *)
(***************************************************************************)
EXTENDS Integers, FiniteSets, Sequences, SequencesExt, FiniteSetsExt, Bags, TLC

CONSTANTS
  Sources,    \* media to write, and containers other programs left
  Cycles,     \* of one rotation
  SideBit,    \* of an index byte
  ByteBits, WordBytes,
  Odds        \* 12 bits of them

VARIABLES
  source,
  phase,      \* where the writer or the reader stands
  at,         \* locations or chunks done
  report,     \* what the container is said to hold
  stream,     \* chunks written so far
  target,     \* what the destination names, a set of at most one
  staged,     \* the staging file, likewise
  touched,    \* what was done to the container since: "nothing", "rewritten", "damaged"
  found,      \* half-track chunks the walk found, then those still to decode
  coder,      \* the decoder over the chunk being read
  pulses,     \* pulses decoded of it
  opened      \* locations of the medium decoded

p64Vars ==
  <<source, phase, at, report, stream, target, staged, touched, found, coder, pulses, opened>>

-----------------------------------------------------------------------------
(* The range coder: one model per byte of a word, contexts the byte before  *)
(* and the bits so far, and one model per flag                              *)

Byte  == 2 ^ ByteBits
Word  == Byte ^ WordBytes
Digit(word, n) == (word \div Byte ^ (WordBytes - n)) % Byte   \* n-th from the top
Digits(word)   == [n \in 1 .. WordBytes |-> Digit(word, n)]

Fresh == [low |-> 0, high |-> Word - 1, odds |-> <<>>, last |-> <<>>,
          out |-> <<>>, code |-> 0, input |-> <<>>, short |-> FALSE]

Likely(c, context) == IF context \in DOMAIN c.odds THEN c.odds[context] ELSE Odds \div 2
LastOf(c, model)   == IF model \in DOMAIN c.last THEN c.last[model] ELSE 0
With(f, x, v)      == (x :> v) @@ f
Flag(kind)         == <<kind, WordBytes>>   \* the model after those of its bytes

Middle(c, context) == c.low + ((c.high - c.low) \div Odds) * Likely(c, context)

\* The leading bytes the ends of the range share.
Shared(low, high) ==
  Max({n \in 0 .. WordBytes : low \div Byte ^ (WordBytes - n) = high \div Byte ^ (WordBytes - n)})

Moved(odds, bit) ==
  IF bit = 1 THEN odds + ((Odds - 1 - odds) \div 2) ELSE odds - (odds \div 2)

\* The bytes settled leave, and a decoder takes as many of its input; short of
\* them it takes none.
Shift(c, low, high, n) ==
  [c EXCEPT
     !.low   = (low * Byte ^ n) % Word,
     !.high  = (high * Byte ^ n + Byte ^ n - 1) % Word,
     !.out   = @ \o SubSeq(Digits(high), 1, n),
     !.code  = IF Len(c.input) < n THEN @
               ELSE FoldLeft(LAMBDA v, d : (v * Byte + d) % Word, @, SubSeq(c.input, 1, n)),
     !.input = SubSeq(@, n + 1, Len(@)),
     !.short = @ \/ Len(c.input) < n]

Settle(c, low, high) == Shift(c, low, high, Shared(low, high))

Narrow(c, bit, middle) ==
  IF bit = 1 THEN Settle(c, c.low, middle) ELSE Settle(c, middle + 1, c.high)

\* One bit narrows the range and moves its model.
Bit(c, context, bit) ==
  Narrow([c EXCEPT !.odds = With(@, context, Moved(Likely(c, context), bit))],
         bit, Middle(c, context))

Coded(c, context) == IF c.code <= Middle(c, context) THEN 1 ELSE 0

Bits(byte) == [n \in 1 .. ByteBits |-> (byte \div 2 ^ (ByteBits - n)) % 2]

Remembering(c, model, byte) == [c EXCEPT !.last = With(@, model, byte)]

\* The encoder is fed the bits of a value, the decoder reads them.
EncodeFlag(c, model, bit) ==
  Remembering(Bit(c, <<model, LastOf(c, model)>>, bit), model, bit)

EncodeByte(c, model, byte) ==
  Remembering(FoldLeft(LAMBDA s, b :
                [coder   |-> Bit(s.coder, <<model, LastOf(c, model), s.context>>, b),
                 context |-> 2 * s.context + b], [coder |-> c, context |-> 1], Bits(byte)).coder,
              model, byte)

\* A word goes out lowest byte first, each under a model of its own.
EncodeWord(c, model, word) ==
  FoldLeft(LAMBDA d, n : EncodeByte(d, <<model, n>>, (word \div Byte ^ n) % Byte),
           c, [n \in 1 .. WordBytes |-> n - 1])

Finish(c) == c.out \o Digits(c.high)

TakeFlag(c, model, bit) == [coder |-> EncodeFlag(c, model, bit), value |-> bit]
DecodeFlag(c, model)    == TakeFlag(c, model, Coded(c, <<model, LastOf(c, model)>>))

TakeBit(c, context, sofar, bit) ==
  [coder |-> Bit(c, context, bit), context |-> 2 * sofar + bit]
TakeByte(read, model, byte) ==
  [coder |-> Remembering(read.coder, model, byte), value |-> byte]

DecodeByte(c, model) ==
  LET Read(read) == TakeByte(read, model, read.context % Byte)
  IN  Read(FoldLeft(LAMBDA s, n :
             LET Next(context) == TakeBit(s.coder, context, s.context, Coded(s.coder, context))
             IN  Next(<<model, LastOf(c, model), s.context>>),
             [coder |-> c, context |-> 1], [n \in 1 .. ByteBits |-> n]))

DecodeWord(c, model) ==
  LET Join(s, b, n) == [coder |-> b.coder, value |-> s.value + b.value * Byte ^ n]
  IN  FoldLeft(LAMBDA s, n : Join(s, DecodeByte(s.coder, <<model, n>>), n),
               [coder |-> c, value |-> 0], [n \in 1 .. WordBytes |-> n - 1])

Minus(a, b) == (a - b + Word) % Word

\* A value, or a flag in its place.
EncodeField(c, kind, repeats, value) ==
  IF repeats THEN EncodeFlag(c, Flag(kind), 0)
  ELSE EncodeWord(EncodeFlag(c, Flag(kind), 1), kind, value)

\* Positions and strengths are deltas, and one that repeats is a flag: a
\* position's when it is the delta before, a strength's when there is none.
EncodePulse(s, pulse) ==
  LET delta  == Minus(pulse.position, s.position)
      change == Minus(pulse.strength, s.strength)
  IN  [position |-> pulse.position, delta |-> delta, strength |-> pulse.strength,
       coder    |-> EncodeField(EncodeField(s.coder, "position", delta = s.delta, delta),
                                "strength", change = 0, change)]

\* A written delta of none closes the stream.
EncodePulses(stored) ==
  LET all == FoldLeft(EncodePulse,
                      [position |-> 0, delta |-> 0, strength |-> 0, coder |-> Fresh], stored)
  IN  Finish(EncodeField(all.coder, "position", FALSE, 0))

-----------------------------------------------------------------------------
(* Addresses, strengths and chunks *)

Always == Word - 1
Weak   == 1
Never  == 0

\* The family's states are 0, 1 and 2: absent, weak and strong.
StoredStrength(state) ==
  IF state = 2 THEN Always ELSE IF state = 1 THEN Weak ELSE Never
StrengthState(stored) ==
  IF stored = Always THEN 2 ELSE IF stored = Never THEN 0 ELSE 1

\* A location's key is its step, as a ratio, and its side (none is -1).
HasIndex(key) ==
  /\ key.side \in {0, 1}
  /\ (2 * key.steps[1]) % key.steps[2] = 0
  /\ (2 * key.steps[1]) \div key.steps[2] < SideBit
IndexByte(key) == (2 * key.steps[1]) \div key.steps[2] + key.side * SideBit

Ratio(halves) == IF halves % 2 = 0 THEN <<halves \div 2, 1>> ELSE <<halves, 2>>
LocationOf(index) == [steps |-> Ratio(index % SideBit), side |-> index \div SideBit]

\* By exact position first, then by side.
Precedes(k, l) ==
  \/ k.steps[1] * l.steps[2] < l.steps[1] * k.steps[2]
  \/ k.steps = l.steps /\ k.side < l.side

States(location) == [n \in 0 .. 2 |-> Cardinality({k \in DOMAIN location.pulses :
                                                     location.pulses[k].state = n})]
HalfTrack(index, key, counts, total) ==
  [index |-> index, key |-> key, counts |-> counts, pulses |-> total]

HalfTrackChunk(index, stored) ==
  [kind |-> "half", index |-> index, count |-> Len(stored), sized |-> TRUE,
   data |-> EncodePulses(stored), summed |-> TRUE]
EndChunk == [kind |-> "end", index |-> 0, count |-> 0, sized |-> TRUE, data |-> <<>>,
             summed |-> TRUE]

\* named: the signature; sized, summed: it agrees with the stream after it.
Container(flags, chunks) ==
  [named |-> TRUE, version |-> 0, flags |-> flags, sized |-> TRUE, summed |-> TRUE,
   chunks |-> chunks]
Unfinished == [Container({}, <<>>) EXCEPT !.named = FALSE]

Loss(code, count) == IF count = 0 THEN EmptyBag ELSE (code :> count)

NoReport == [halves |-> <<>>, flags |-> {}, loss |-> EmptyBag]

P64Init ==
  /\ source \in Sources
  /\ phase = IF source.kind = "medium" THEN "describing" ELSE "left"
  /\ target \in {{}, {Unfinished}}
  /\ at = 0 /\ report = NoReport /\ stream = <<>> /\ staged = {} /\ touched = "nothing"
  /\ found = <<>> /\ coder = Fresh /\ pulses = <<>> /\ opened = <<>>

-----------------------------------------------------------------------------
(* Writing a medium *)

Stop(outcome) == phase' = outcome /\ at' = 0

\* Every pulse and fact of a location is looked at before anything is made.
Describe ==
  LET location == source.locations[at + 1]
      weight   == [n \in {"seed", "fact", "note"} |->
                     CASE n = "seed" -> Cardinality({k \in DOMAIN location.pulses :
                                                       location.pulses[k].seeded})
                       [] n = "fact" -> Len(SelectSeq(location.facts, LAMBDA f : f # "protect"))
                       [] OTHER      -> location.notes]
  IN  /\ phase = "describing" /\ at < Len(source.locations)
      /\ \/ /\ \/ ~HasIndex(location.key)
               \/ \E k \in DOMAIN location.pulses : location.pulses[k].state \notin 0 .. 2
            /\ Stop("unwritable") /\ UNCHANGED report
         \/ Stop("failed") /\ UNCHANGED report
         \/ /\ HasIndex(location.key)
            /\ \A k \in DOMAIN location.pulses : location.pulses[k].state \in 0 .. 2
            /\ at' = at + 1 /\ UNCHANGED phase
            /\ report' =
                 [halves |-> Append(report.halves,
                               HalfTrack(IndexByte(location.key), location.key,
                                         States(location), Len(location.pulses))),
                  flags  |-> report.flags
                               \cup (IF location.key.side = 1 THEN {"double"} ELSE {})
                               \cup (Range(location.facts) \cap {"protect"}),
                  loss   |-> report.loss (+) Loss("strength-seed", weight["seed"])
                               (+) Loss("medium-fact", weight["fact"])
                               (+) Loss("location-provenance", weight["note"])]
      /\ UNCHANGED <<source, stream, target, staged, touched, found, coder, pulses, opened>>

\* The profile and the frame are compared first, and a medium of no location
\* is none; what no field holds is accounted for.
Described ==
  /\ phase = "describing" /\ at = Len(source.locations)
  /\ \/ /\ source.locations = <<>> \/ ~source.ours
        /\ Stop("unwritable") /\ UNCHANGED report
     \/ /\ source.locations # <<>> /\ source.ours
        /\ Stop("placing")
        /\ report' = [report EXCEPT !.loss = @ (+) Loss("reduction-policy", source.notes)
                        (+) Loss("located-origin", 1) (+) Loss("derivation", 1)]
  /\ UNCHANGED <<source, stream, target, staged, touched, found, coder, pulses, opened>>

\* What is there already is not written over.
Stage ==
  /\ phase = "placing"
  /\ \/ Stop("failed") /\ UNCHANGED staged
     \/ target = {} /\ Stop("streaming") /\ staged' = {Unfinished}
  /\ UNCHANGED <<source, report, stream, target, touched, found, coder, pulses, opened>>

Stored(location) ==
  [k \in DOMAIN location.pulses |->
     [position |-> location.pulses[k].position,
      strength |-> StoredStrength(location.pulses[k].state)]]

\* A half-track at a time, each addressed from its own location.
StreamHalfTrack ==
  /\ phase = "streaming" /\ at < Len(source.locations)
  /\ \/ Stop("failed") /\ staged' = {} /\ UNCHANGED stream
     \/ /\ stream' = Append(stream, HalfTrackChunk(IndexByte(source.locations[at + 1].key),
                                                   Stored(source.locations[at + 1])))
        /\ at' = at + 1 /\ UNCHANGED <<phase, staged>>
  /\ UNCHANGED <<source, report, target, touched, found, coder, pulses, opened>>

\* The end chunk, then the header over all of them, then the sync.
StreamEnd ==
  /\ phase = "streaming" /\ at = Len(source.locations)
  /\ \/ Stop("failed") /\ staged' = {} /\ UNCHANGED stream
     \/ /\ stream' = Append(stream, EndChunk)
        /\ staged' = {Container(report.flags, stream')}
        /\ Stop("renaming")
  /\ UNCHANGED <<source, report, target, touched, found, coder, pulses, opened>>

PlaceContainer ==
  /\ phase = "renaming"
  /\ \/ Stop("failed") /\ UNCHANGED target
     \/ Stop("left") /\ target' = staged
  /\ staged' = {}
  /\ UNCHANGED <<source, report, stream, touched, found, coder, pulses, opened>>

\* The process ends between two steps; what it staged stays beside the target.
StopWriting ==
  /\ phase \in {"streaming", "renaming"}
  /\ Stop("crashed")
  /\ UNCHANGED <<source, report, stream, target, staged, touched, found, coder, pulses, opened>>

-----------------------------------------------------------------------------
(* What is left for a reader: the container written, another program's, or  *)
(* one of the two damaged or rewritten by a third                          *)

\* A chunk in another's place is in none of its own checksums.
Damaged(c) ==
  {[c EXCEPT !.named = FALSE], [c EXCEPT !.version = 1], [c EXCEPT !.sized = FALSE],
   [c EXCEPT !.summed = FALSE], [c EXCEPT !.flags = @ \cup {"reserved"}],
   [c EXCEPT !.chunks = Front(@)], [c EXCEPT !.chunks = Append(@, EndChunk)],
   [c EXCEPT !.chunks = <<EndChunk>>]}
  \cup UNION {{[c EXCEPT !.chunks[n].summed = FALSE], [c EXCEPT !.chunks[n].kind = "other"],
               [c EXCEPT !.chunks[n].sized = FALSE],
               [c EXCEPT !.chunks = SubSeq(@, 1, n) \o SubSeq(@, n, Len(@))]} :
              n \in DOMAIN c.chunks}

\* Consistent checksums over other contents.
Rewritten(c) ==
  UNION {{[c EXCEPT !.chunks[n].count = k] : k \in 0 .. Cycles + 1}
           \cup {[c EXCEPT !.chunks[n].data = Front(@)]}
           \cup {[c EXCEPT !.chunks[n].data[d] = v] :
                   d \in DOMAIN c.chunks[n].data, v \in 0 .. Byte - 1} :
         n \in {m \in DOMAIN c.chunks : c.chunks[m].kind = "half"}} \ {c}

Left ==
  LET own == IF source.kind = "medium" THEN target
             ELSE {Container(source.flags,
                     Append([n \in DOMAIN source.halves |->
                               HalfTrackChunk(source.halves[n].index, source.halves[n].stored)],
                            EndChunk))}
  IN  /\ phase = "left" /\ Stop("header")
      /\ \E c \in own :
           \/ target' = {c} /\ touched' = "nothing"
           \/ target' \in {{d} : d \in Damaged(c)} /\ touched' = "damaged"
           \/ target' \in {{r} : r \in Rewritten(c)} /\ touched' = "rewritten"
      /\ UNCHANGED <<source, report, stream, staged, found, coder, pulses, opened>>

-----------------------------------------------------------------------------
(* Reading a container *)

\* The signature, the version, the flags, the size, in that order.
ReadHeader ==
  /\ phase = "header"
  /\ \E c \in target :
       \/ ~c.named /\ Stop("refused")
       \/ c.named /\ (c.version # 0 \/ "reserved" \in c.flags) /\ Stop("unsupported")
       \/ c.named /\ c.version = 0 /\ "reserved" \notin c.flags /\ ~c.sized /\ Stop("refused")
       \/ c.named /\ c.version = 0 /\ "reserved" \notin c.flags /\ c.sized /\ Stop("walking")
       \/ Stop("unread")
  /\ UNCHANGED <<source, report, stream, target, staged, touched, found, coder, pulses, opened>>

\* A chunk is admitted when it is a half-track's, the only one of it so far,
\* and checksums to what it stores.
Admitted(chunk) ==
  /\ chunk.kind = "half" /\ chunk.summed
  /\ \A n \in DOMAIN found : found[n].index # chunk.index

WalkChunk ==
  /\ phase = "walking"
  /\ \E c \in target :
       LET here  == {c.chunks[n] : n \in {at + 1} \cap DOMAIN c.chunks}
           ended == \E n \in {at} \cap DOMAIN c.chunks : c.chunks[n].kind = "end"
           closes == at = Len(c.chunks) /\ c.summed /\ found # <<>>
       IN \/ /\ ~ended /\ \E h \in here : Admitted(h) /\ found' = Append(found, h)
             /\ at' = at + 1 /\ UNCHANGED phase
          \/ /\ ~ended /\ \E h \in here : h.kind = "end" /\ h.sized /\ h.summed
             /\ at' = at + 1 /\ UNCHANGED <<phase, found>>
          \/ /\ ~ended
             /\ \A h \in here :
                  /\ h.kind # "other" /\ ~Admitted(h)
                  /\ h.kind = "end" => ~(h.sized /\ h.summed)
             /\ Stop("refused") /\ UNCHANGED found
          \/ ~ended /\ (\E h \in here : h.kind = "other") /\ Stop("unsupported")
               /\ UNCHANGED found
          \/ ended /\ ~closes /\ Stop("refused") /\ UNCHANGED found
          \/ ended /\ closes /\ Stop("locating") /\ UNCHANGED found
          \/ Stop("unread") /\ UNCHANGED found
  /\ UNCHANGED <<source, report, stream, target, staged, touched, coder, pulses, opened>>

InMediumOrder(chunks) ==
  [n \in DOMAIN chunks |->
     CHOOSE c \in Range(chunks) :
       Cardinality({d \in Range(chunks) :
                      Precedes(LocationOf(d.index), LocationOf(c.index))}) = n - 1]

\* Side 0 comes before side 1 in the container, and beside it in the medium.
Locate ==
  /\ phase = "locating" /\ Stop("half-track")
  /\ found' = InMediumOrder(found)
  /\ report' = [NoReport EXCEPT !.flags = UNION {c.flags : c \in target}]
  /\ UNCHANGED <<source, stream, target, staged, touched, coder, pulses, opened>>

NewDecoder(data) ==
  [Fresh EXCEPT !.code  = FoldLeft(LAMBDA v, d : v * Byte + d, 0,
                                   SubSeq(data, 1, Min({WordBytes, Len(data)}))),
                !.input = SubSeq(data, WordBytes + 1, Len(data)),
                !.short = Len(data) < WordBytes]

\* Models start over with every half-track; at is the pulse's delta, and what
\* the last pulse left is in pulses.
OpenHalfTrack ==
  /\ phase = "half-track" /\ found # <<>>
  /\ LET c == Head(found)
     IN \/ /\ c.count > Cycles \/ ~c.sized \/ NewDecoder(c.data).short
           /\ Stop("refused") /\ UNCHANGED coder
        \/ /\ c.count <= Cycles /\ c.sized /\ ~NewDecoder(c.data).short
           /\ Stop("pulses") /\ coder' = NewDecoder(c.data)
        \/ Stop("unread") /\ UNCHANGED coder
  /\ pulses' = <<>>
  /\ UNCHANGED <<source, report, stream, target, staged, touched, found, opened>>

\* What a field says: a word under the flag, or what stands without one.
DecodeField(flag, kind, stands) ==
  LET Stated(w) == [coder |-> w.coder, value |-> w.value, coded |-> TRUE]
  IN  IF flag.value = 0 THEN [coder |-> flag.coder, value |-> stands, coded |-> FALSE]
      ELSE Stated(DecodeWord(flag.coder, kind))

\* The delta of the pulse after those decoded, and the strength after it.
NextDelta == DecodeField(DecodeFlag(coder, Flag("position")), "position", at)
NextChange(c) == DecodeField(DecodeFlag(c, Flag("strength")), "strength", 0)

LastPulse == IF pulses = <<>> THEN [position |-> 0, strength |-> 0] ELSE Last(pulses)

Closes(delta) == delta.coded /\ delta.value = 0

\* Mutant of Advances: a pulse may stay where the one before it is.
StandsOrAdvances(position) ==
  position < Cycles /\ (pulses # <<>> => position >= Last(pulses).position)

Advances(position) ==
  position < Cycles /\ (pulses # <<>> => position > Last(pulses).position)

DecodePulse ==
  /\ phase = "pulses"
  /\ \E delta \in {NextDelta} : \E change \in {NextChange(delta.coder)} :
       LET position == LastPulse.position + delta.value
           whole    == /\ ~change.coder.short /\ Len(pulses) < Head(found).count
                       /\ Advances(position)
       IN  /\ ~Closes(delta)
           /\ \/ /\ whole
                 /\ pulses' = Append(pulses,
                      [position |-> position,
                       strength |-> (LastPulse.strength + change.value) % Word])
                 /\ coder' = change.coder /\ at' = delta.value
                 /\ UNCHANGED phase
              \/ ~whole /\ Stop("refused") /\ UNCHANGED <<pulses, coder>>
  /\ UNCHANGED <<source, report, stream, target, staged, touched, found, opened>>

\* Weak pulses whose trigger value the family has no finer word for.
Coarsened == {k \in DOMAIN pulses : pulses[k].strength \notin {Always, Weak, Never}}

AddLocation ==
  LET key      == LocationOf(Head(found).index)
      location == [key |-> key,
                   pulses |-> [k \in DOMAIN pulses |->
                                 [position |-> pulses[k].position,
                                  state    |-> StrengthState(pulses[k].strength)]]]
  IN  /\ phase = "pulses"
      /\ \E delta \in {NextDelta} :
           LET whole == ~delta.coder.short /\ Len(pulses) = Head(found).count
           IN  /\ Closes(delta)
               /\ \/ /\ whole /\ Stop("half-track")
                     /\ opened' = Append(opened, location)
                     /\ report' = [report EXCEPT
                          !.halves = Append(@, HalfTrack(Head(found).index, key,
                                                         States(location), Len(pulses))),
                          !.loss   = @ (+) Loss("strength-resolution", Cardinality(Coarsened))]
                     /\ found' = Tail(found)
                  \/ ~whole /\ Stop("refused") /\ UNCHANGED <<opened, report, found>>
      /\ UNCHANGED <<source, stream, target, staged, touched, coder, pulses>>

SealMedium ==
  /\ phase = "half-track" /\ found = <<>> /\ Stop("open")
  /\ report' = [report EXCEPT !.loss = @ (+) Loss("container-provenance", Len(opened))
                                         (+) Loss("located-origin", 1)]
  /\ UNCHANGED <<source, stream, target, staged, touched, found, coder, pulses, opened>>

P64Next ==
  Describe \/ Described \/ Stage \/ StreamHalfTrack \/ StreamEnd \/ PlaceContainer
  \/ StopWriting \/ Left \/ ReadHeader \/ WalkChunk \/ Locate \/ OpenHalfTrack
  \/ DecodePulse \/ AddLocation \/ SealMedium

-----------------------------------------------------------------------------
(* Properties *)

Ascends(circle) ==
  \A k \in DOMAIN circle : /\ circle[k].position < Cycles
                           /\ k > 1 => circle[k].position > circle[k - 1].position

\* What a source holds, at rest: each key once, its pulses in their states.
Held ==
  IF source.kind = "medium"
  THEN {[key |-> l.key, pulses |-> [k \in DOMAIN l.pulses |->
           [position |-> l.pulses[k].position, state |-> l.pulses[k].state]]] :
          l \in Range(source.locations)}
  ELSE {[key |-> LocationOf(h.index), pulses |-> [k \in DOMAIN h.stored |->
           [position |-> h.stored[k].position, state |-> StrengthState(h.stored[k].strength)]]] :
          h \in Range(source.halves)}

\* A container this grammar holds; every one a medium is written to is.
Sayable ==
  source.kind = "medium"
    \/ /\ source.halves # <<>>
       /\ \A h \in Range(source.halves) : Ascends(h.stored)
       /\ \A m, n \in DOMAIN source.halves :
            m # n => source.halves[m].index # source.halves[n].index

FlagsHeld ==
  IF source.kind = "foreign" THEN source.flags
  ELSE (IF \E l \in Range(source.locations) : l.key.side = 1 THEN {"double"} ELSE {})
         \cup {f \in {"protect"} : \E l \in Range(source.locations) : f \in Range(l.facts)}

\* A container no one touched opens as the medium it was written from, every
\* location at its own address in the medium's order, with the flags and the
\* counts the writer described; one that says what no medium can is refused
\* (p64.rs:1219-1301 against 817-959).
WrittenOpens ==
  touched = "nothing" =>
    /\ phase \in {"refused", "unsupported"} => ~Sayable
    /\ phase = "open" =>
         /\ Sayable
         /\ Range(opened) = Held /\ Len(opened) = Cardinality(Held)
         /\ \A n \in 2 .. Len(opened) : Precedes(opened[n - 1].key, opened[n].key)
         /\ report.flags = FlagsHeld
         /\ \A n \in DOMAIN opened :
              report.halves[n] = HalfTrack(IndexByte(opened[n].key), opened[n].key,
                                           States(opened[n]), Len(opened[n].pulses))

\* A damaged container is never a medium, and one rewritten under checksums
\* that hold still opens to circles that ascend, as many pulses as it counts
\* (p64.rs:362-419, 697-790).
DamagedIsRefused ==
  /\ phase = "open" => touched # "damaged"
  /\ \A n \in DOMAIN opened : Ascends(opened[n].pulses)
  /\ phase = "open" =>
       {<<h.index, h.pulses>> : h \in Range(report.halves)}
         = {<<c.index, c.count>> :
              c \in {d \in UNION {Range(e.chunks) : e \in target} : d.kind = "half"}}

\* What the reading coarsened is counted, no pulse twice.
LossIsCounted ==
  phase = "open" /\ touched = "nothing" =>
    LET fine == IF source.kind = "medium" THEN 0
                ELSE FoldLeft(LAMBDA n, h : n + Len(SelectSeq(h.stored, LAMBDA p :
                                 p.strength \notin {Always, Weak, Never})), 0, source.halves)
    IN  CopiesIn("strength-resolution", report.loss) = fine

\* The destination is what it was, or one whole container (p64.rs:1173-1179).
WholeOrNothing ==
  /\ staged # {} => phase \in {"streaming", "renaming", "crashed"}
  /\ touched = "nothing" /\ source.kind = "medium" /\ target \notin {{}, {Unfinished}} =>
       \E c \in target :
         /\ c.named /\ c.sized /\ c.summed
         /\ Len(c.chunks) = Len(source.locations) + 1 /\ Last(c.chunks) = EndChunk

P64IsKept == WrittenOpens /\ DamagedIsRefused /\ LossIsCounted /\ WholeOrNothing
=============================================================================
