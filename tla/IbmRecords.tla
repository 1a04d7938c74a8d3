----------------------------- MODULE IbmRecords -----------------------------
(***************************************************************************)
(* The records an FM or MFM recording states and the linear extent they    *)
(* compose (flux/ibm/sectors.rs, flux/ibm/geometry.rs).  Fields are framed *)
(* by runs of marks; an id field and the data field after it make a claim; *)
(* the claims state a geometry, and a read of the extent goes through the  *)
(* record each byte lies in.                                               *)
(*                                                                         *)
(* A unit is 128 bytes: size code c states 2^c units.                      *)
(***************************************************************************)
EXTENDS Integers, Sequences, SequencesExt, FiniteSetsExt

CONSTANTS
  Recordings,   \* sequences of locations, a location a sequence of runs of marks
  Marks,        \* how many marks open a field: three in MFM, one in FM
  MaxCode,      \* a field is read as long as this size code states and no longer (7)
  Width,        \* the width the geometry's length wraps at (25: 32 bits of bytes)
  CodeLimit,    \* the first size code that cannot be shifted by at all (32)
  MaxRead       \* the longest read asked of the extent

VARIABLES
  recording,
  located,      \* how many locations have been read
  claims,       \* what they state, in order
  geometry,     \* of the extent, once composed
  call          \* the read in progress or the last one

vars == <<recording, located, claims, geometry, call>>

NoGeometry == [state |-> "none"]
Refused    == [state |-> "refused"]
NoCall     == [state |-> "idle"]

Init ==
  /\ recording \in Recordings
  /\ located = 0
  /\ claims = <<>>
  /\ geometry = NoGeometry
  /\ call = NoCall

-----------------------------------------------------------------------------
(* Recognition *)

\* A short run opens nothing; in MFM the byte after three marks is the kind,
\* which in a longer run is one more mark; a kind that did not frame is none.
FieldsOf(location) ==
  LET framed == SelectSeq(location, LAMBDA r : r.marks >= Marks /\ r.kind # "unread")
  IN  [k \in DOMAIN framed |->
         IF Marks > 1 /\ framed[k].marks > Marks THEN [framed[k] EXCEPT !.kind = "gap"]
                                                 ELSE framed[k]]

FieldUnits(code) == 2 ^ Min({code, MaxCode})

\* The data field that follows the k-th field, if what follows is one and it
\* is long enough to hold what the id states.
DataAfter(fields, k) ==
  {f \in {fields[j] : j \in {k + 1} \cap DOMAIN fields} :
     /\ f.kind \in {"data", "deleted"}
     /\ Len(f.units) >= FieldUnits(fields[k].code)}

\* The check follows the bytes the id states, so a longer field fails it.
ClaimAt(fields, k) ==
  LET id    == fields[k]
      units == FieldUnits(id.code)
      data  == DataAfter(fields, k)
  IN  [address  |-> id.address,
       code     |-> id.code,
       readable |-> id.agrees /\ \E f \in data : f.agrees /\ Len(f.units) = units,
       payload  |-> IF data = {} THEN <<>>
                    ELSE SubSeq((CHOOSE f \in data : TRUE).units, 1, units)]

ClaimsOf(location) ==
  LET fields == FieldsOf(location)
      ids    == SelectSeq([k \in DOMAIN fields |-> k],
                          LAMBDA k : fields[k].kind = "id" /\ fields[k].whole)
  IN  [n \in DOMAIN ids |-> ClaimAt(fields, ids[n])]

Recognize ==
  /\ located < Len(recording)
  /\ claims' = claims \o ClaimsOf(recording[located + 1])
  /\ located' = located + 1
  /\ UNCHANGED <<recording, geometry, call>>

-----------------------------------------------------------------------------
(* The geometry the claims state *)

Cylinder(c) == c.address[1]
Side(c)     == c.address[2]
Sector(c)   == c.address[3]

SectorUnits(code) == (2 ^ code) % (2 ^ Width)

Stated == Range(claims)
Span   == Min({Sector(c) : c \in Stated}) .. Max({Sector(c) : c \in Stated})

OneSize    == \A c \in Stated : c.code = claims[1].code
Contiguous == \A s \in Span : \E c \in Stated : Sector(c) = s

GeometryOf ==
  IF claims # <<>> /\ OneSize /\ claims[1].code < CodeLimit /\ Contiguous
  THEN [state     |-> "composed",
        cylinders |-> Max({Cylinder(c) : c \in Stated}) + 1,
        heads     |-> Max({Side(c) : c \in Stated}) + 1,
        sectors   |-> Max(Span) - Min(Span) + 1,
        first     |-> Min(Span),
        units     |-> SectorUnits(claims[1].code)]
  ELSE Refused

Compose ==
  /\ located = Len(recording) /\ geometry = NoGeometry
  /\ geometry' = GeometryOf
  /\ UNCHANGED <<recording, located, claims, call>>

LengthOf(g) == g.cylinders * g.heads * g.sectors * g.units

\* Sectors within a track, heads within a cylinder, cylinders.
OffsetOf(g, address) ==
  ((address[1] * g.heads + address[2]) * g.sectors + (address[3] - g.first)) * g.units

\* Mutant of RecordAt: sectors are numbered from 0.
RecordAtFromZero(g, offset) ==
  LET block       == offset \div g.units
      perCylinder == g.heads * g.sectors
      rest        == block % perCylinder
  IN  [address |-> <<block \div perCylinder, rest \div g.sectors, rest % g.sectors>>,
       within  |-> offset % g.units]

RecordAt(g, offset) ==
  LET block       == offset \div g.units
      perCylinder == g.heads * g.sectors
      rest        == block % perCylinder
  IN  [address |-> <<block \div perCylinder, rest \div g.sectors,
                     g.first + (rest % g.sectors)>>,
       within  |-> offset % g.units]

-----------------------------------------------------------------------------
(* Reads of the extent *)

Ask ==
  /\ geometry.state = "composed" /\ call.state # "reading"
  /\ \E offset \in 0 .. LengthOf(geometry), length \in 1 .. MaxRead :
       call' = [state |-> "reading", offset |-> offset, length |-> length, filled |-> <<>>]
  /\ UNCHANGED <<recording, located, claims, geometry>>

\* The record of an address is the first that states it.
FirstAt(address) ==
  LET stating == {k \in DOMAIN claims : claims[k].address = address}
  IN  IF stating = {} THEN {} ELSE {claims[Min(stating)]}

Answered(state) == call' = [call EXCEPT !.state = state]

\* One turn of the loop: the bytes of one record.  A record shorter than the
\* geometry says gives none at its end and stops the program past it.
Advance ==
  LET reached == call.offset + Len(call.filled)
      place   == RecordAt(geometry, reached)
      found   == {c \in FirstAt(place.address) : c.readable}
  IN  /\ call.state = "reading"
      /\ IF Len(call.filled) = call.length THEN Answered("read")
         ELSE IF reached >= LengthOf(geometry) \/ found = {} THEN Answered("refused")
         ELSE \E c \in found :
                LET left == Len(c.payload) - place.within
                    take == Min({left, call.length - Len(call.filled)})
                IN  IF left < 0 THEN Answered("panicked")
                    ELSE call' = [call EXCEPT !.filled =
                           @ \o SubSeq(c.payload, place.within + 1, place.within + take)]
      /\ UNCHANGED <<recording, located, claims, geometry>>

Next == Recognize \/ Compose \/ Ask \/ Advance

RecordsSpec == Init /\ [][Next]_vars /\ WF_vars(Advance)

-----------------------------------------------------------------------------
(* Properties *)

\* A byte a read answers with is a byte some record holds, at the place the
\* address that record states for itself puts it: no ordering but the
\* geometry's serves a file's contents where they are (geometry.rs:20-24).
ExtentServesRecords ==
  call.state = "read" =>
    \A i \in 1 .. call.length : \E c \in Stated :
      LET w == call.offset + i - 1 - OffsetOf(geometry, c.address)
      IN  c.readable /\ w \in 0 .. Len(c.payload) - 1 /\ c.payload[w + 1] = call.filled[i]

\* A read that touches a hole is refused and any other is answered
\* (geometry.rs:26-27): whichever it is, the call returns.
ReadsAreAnswered == call.state = "reading" ~> call.state \in {"read", "refused"}
=============================================================================
