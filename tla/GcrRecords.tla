----------------------------- MODULE GcrRecords -----------------------------
(***************************************************************************)
(* The sectors a group-coded recording states (flux/c1541/sectors.rs): the *)
(* framed runs of each location, in the order they pass, are read as       *)
(* header blocks and the data blocks that follow them; the payloads of the *)
(* records that read go to private storage, appended in key order; and a   *)
(* sector is answered from every record that states its address.           *)
(*                                                                         *)
(* A location is a circle cut at the write splice.  A run is what framing  *)
(* resolved from one landmark to the next; its bytes are told apart by     *)
(* whether the block they make is whole, resolved and agrees with its own  *)
(* checksum.                                                               *)
(***************************************************************************)
EXTENDS Integers, Sequences, SequencesExt, FiniteSetsExt

CONSTANTS
  Recordings,   \* sequences of locations, a location a sequence of runs
  Addresses     \* a track and a sector

VARIABLES
  recording,    \* a sequence of locations
  place,        \* the location being read and the next run of it
  pending,      \* the header no block has followed yet, as a set of at most one
  leading,      \* the data block that opens the location, likewise
  records,      \* of this location: [header |-> run, data |-> set of at most one]
  claims,       \* [address |-> .., readable |-> .., key |-> ..]
  stored,       \* the payloads appended, [key |-> .., payload |-> ..]
  phase,        \* "reading", "sectors" or "refused"
  answer        \* to the last sector asked for

vars == <<recording, place, pending, leading, records, claims, stored, phase, answer>>

NoAnswer == [of |-> "none"]

Init ==
  /\ recording \in Recordings
  /\ place = [location |-> 1, run |-> 1]
  /\ pending = {} /\ leading = {} /\ records = <<>>
  /\ claims = <<>> /\ stored = <<>>
  /\ phase = "reading"
  /\ answer = NoAnswer

Runs == recording[place.location]

-----------------------------------------------------------------------------
(* Runs into records *)

Pair(header, data) == [header |-> header, data |-> data]

TakeHeader(run) ==
  /\ run.opens = "header"
  /\ records' = records \o [k \in 1 .. Cardinality(pending) |->
                              Pair(CHOOSE h \in pending : TRUE, {})]
  /\ pending' = {run}
  /\ UNCHANGED leading

TakeData(run) ==
  /\ run.opens = "data"
  /\ IF pending # {}
     THEN /\ records' = Append(records, Pair(CHOOSE h \in pending : TRUE, {run}))
          /\ pending' = {} /\ UNCHANGED leading
     ELSE /\ leading' = IF leading = {} /\ records = <<>> THEN {run} ELSE leading
          /\ UNCHANGED <<pending, records>>

\* A run that opens with neither mark holds no record.
PassRun(run) == run.opens = "neither" /\ UNCHANGED <<pending, leading, records>>

TakeRun ==
  /\ phase = "reading" /\ place.run <= Len(Runs)
  /\ LET run == Runs[place.run] IN TakeHeader(run) \/ TakeData(run) \/ PassRun(run)
  /\ place' = [place EXCEPT !.run = @ + 1]
  /\ UNCHANGED <<recording, claims, stored, phase, answer>>

-----------------------------------------------------------------------------
(* A location's records into claims *)

\* The header first, then that there is data, then the data.
Reads(record) ==
  /\ record.header.sound
  /\ \E data \in record.data : data.sound

\* What of the header did not resolve is stated as zero.
StatedAddress(record) == record.header.address

\* Only what reads has a payload, and its number is its place among those.
PayloadKey(all, k) ==
  [location |-> place.location,
   ordinal  |-> Cardinality({j \in 1 .. k - 1 : Reads(all[j])})]

ClaimOf(all, k) ==
  [address  |-> StatedAddress(all[k]),
   readable |-> Reads(all[k]),
   key      |-> IF Reads(all[k]) THEN {PayloadKey(all, k)} ELSE {}]

Sorts(key, last) ==
  \/ key.location > last.location
  \/ key.location = last.location /\ key.ordinal > last.ordinal

InKeyOrder(payloads) ==
  \A n \in 2 .. Len(payloads) : Sorts(payloads[n].key, payloads[n - 1].key)

\* Mutant of CloseLocation: the circle is not closed.
CloseLocationOpen ==
  LET all    == records \o [k \in 1 .. Cardinality(pending) |->
                              Pair(CHOOSE h \in pending : TRUE, {})]
      stated == claims \o [k \in DOMAIN all |-> ClaimOf(all, k)]
      read   == SelectSeq([k \in DOMAIN all |-> k], LAMBDA k : Reads(all[k]))
      kept   == stored \o [n \in DOMAIN read |->
                  [key     |-> PayloadKey(all, read[n]),
                   payload |-> (CHOOSE d \in all[read[n]].data : TRUE).payload]]
      last   == place.location = Len(recording)
  IN  /\ phase = "reading" /\ place.run > Len(Runs)
      /\ claims' = stated
      /\ stored' = kept
      /\ place' = [location |-> place.location + 1, run |-> 1]
      /\ pending' = {} /\ leading' = {} /\ records' = <<>>
      /\ phase' = IF ~InKeyOrder(kept) \/ (last /\ stated = <<>>) THEN "refused"
                  ELSE IF last THEN "sectors" ELSE "reading"
      /\ UNCHANGED <<recording, answer>>

\* The circle closes: a header at the end is followed by the data block that
\* opened the location.
CloseLocation ==
  LET all    == records \o [k \in 1 .. Cardinality(pending) |->
                              Pair(CHOOSE h \in pending : TRUE, leading)]
      stated == claims \o [k \in DOMAIN all |-> ClaimOf(all, k)]
      read   == SelectSeq([k \in DOMAIN all |-> k], LAMBDA k : Reads(all[k]))
      kept   == stored \o [n \in DOMAIN read |->
                  [key     |-> PayloadKey(all, read[n]),
                   payload |-> (CHOOSE d \in all[read[n]].data : TRUE).payload]]
      last   == place.location = Len(recording)
  IN  /\ phase = "reading" /\ place.run > Len(Runs)
      /\ claims' = stated
      /\ stored' = kept
      /\ place' = [location |-> place.location + 1, run |-> 1]
      /\ pending' = {} /\ leading' = {} /\ records' = <<>>
      /\ phase' = IF ~InKeyOrder(kept) \/ (last /\ stated = <<>>) THEN "refused"
                  ELSE IF last THEN "sectors" ELSE "reading"
      /\ UNCHANGED <<recording, answer>>

-----------------------------------------------------------------------------
(* Sectors by the address the recording states *)

PayloadOf(claim) ==
  {stored[n].payload : n \in {m \in DOMAIN stored : stored[m].key \in claim.key}}

ReadSector(address) ==
  LET stating  == {k \in DOMAIN claims : claims[k].address = address}
      readable == {k \in stating : claims[k].readable}
      payloads == {PayloadOf(claims[k]) : k \in readable}
  IN  /\ phase = "sectors"
      /\ answer' = [of    |-> address,
                    gives |-> IF stating = {} THEN "no_such_address"
                              ELSE IF readable = {} THEN "not_readable"
                              ELSE IF Cardinality(payloads) > 1 THEN "disagrees"
                              ELSE "payload",
                    bytes |-> IF Cardinality(payloads) = 1 THEN UNION payloads ELSE {}]
      /\ UNCHANGED <<recording, place, pending, leading, records, claims, stored, phase>>

Next == TakeRun \/ CloseLocation \/ \E address \in Addresses : ReadSector(address)

-----------------------------------------------------------------------------
(* Properties *)

\* What a location states around the circle, whichever run it is cut before:
\* each header with the block that follows it, past runs that are neither.
Blocks(runs) == SelectSeq(runs, LAMBDA run : run.opens # "neither")
Following(blocks, k) == blocks[(k % Len(blocks)) + 1]

OnCircle(runs) ==
  LET blocks == Blocks(runs)
  IN  {Pair(blocks[k], {d \in {Following(blocks, k)} : d.opens = "data"}) :
         k \in {j \in DOMAIN blocks : blocks[j].opens = "header"}}

StatedOn == UNION {OnCircle(recording[l]) : l \in DOMAIN recording}

\* A sector is answered as the circles state it: the origin is the write
\* splice and no boundary of the recording (sectors.rs:644-646), a header is
\* never given the data of another, and bytes are served only where every
\* record of the address that reads holds them (sectors.rs:401-410).
SectorsAreTheCircles ==
  answer # NoAnswer =>
    LET stating == {r \in StatedOn : r.header.address = answer.of}
        bytes   == {d.payload : d \in UNION {r.data : r \in {s \in stating : Reads(s)}}}
    IN  /\ (answer.gives = "no_such_address") = (stating = {})
        /\ (answer.gives = "not_readable") = (stating # {} /\ bytes = {})
        /\ (answer.gives = "disagrees") = (Cardinality(bytes) > 1)
        /\ answer.gives = "payload" => answer.bytes = bytes
=============================================================================
