------------------------------- MODULE CSurface -------------------------------
(***************************************************************************)
(* The C surface (crates/remanence-ffi): what a caller holds, what the     *)
(* session holds for it, and who drops what.                               *)
(*                                                                         *)
(* A session owns its views, at most one for a medium and one for a        *)
(* device.  The caller owns every other handle.  A handle names its        *)
(* provider - a medium by its identity, a record layer by address - and    *)
(* every verb resolves the name again.  A loaded file stays claimed by     *)
(* whatever still reads it: a medium, a discovery, a source.               *)
(*                                                                         *)
(* What a call copies out (a listing, bytes, a report) has no provider and *)
(* is not kept here.  The caller keeps the surface's rules: it uses no     *)
(* handle it freed or handed over, no view after its medium or device is   *)
(* released, and frees a record layer after everything composed over it.   *)
(***************************************************************************)
EXTENDS Integers, Sequences, FiniteSets

CONSTANTS
  Files,         \* the artifacts
  Paths,         \* those the caller only names; the others it opened
  Family,        \* what each one is: image, archive, flux
  Types,         \* the types a caller adds a device of
  Attachments,   \* where a device may be
  MaxIds,        \* bound: media ever pooled
  MaxHeld        \* bound: handles held, beside one record layer, and devices fitted at once

VARIABLES
  session,       \* open or freed
  pool,          \* the media it holds: identity -> medium
  minted,        \* the last identity issued
  bays,          \* the devices: attachment -> type and medium
  media,         \* the medium views, in the order minted
  devices,       \* the device views
  handles,       \* what the caller holds: number -> handle
  files,         \* whose each artifact is
  claims,        \* how many share its claim
  outs,          \* the caller's error outs
  answer         \* what the last call answered

vars == <<session, pool, minted, bays, media, devices, handles, files, claims, outs, answer>>

None    == "none"
Numbers == 1 .. MaxHeld + 1

-----------------------------------------------------------------------------
(* The error outs *)

Plain == [category |-> "io", rule |-> None]
Ruled == [category |-> "invalid-image", rule |-> "a-rule"]

\* Mutant of Stored: the rule out is left as it was found.
StoredOver(e) == [outs EXCEPT !.category = e.category, !.message = e.category]

\* The category, the message, and the rule where there is one.
Stored(e) == [category |-> e.category, message |-> e.category, rule |-> e.rule]
Cleared   == [outs EXCEPT !.message = None, !.rule = None]

Said(outcome, error, from, of) ==
  [outcome |-> outcome, error |-> error, from |-> from, of |-> of]

Succeeds      == outs' = Cleared /\ answer' = Said("ok", Plain, {}, {})
Fails(e)      == outs' = Stored(e) /\ answer' = Said("refused", e, {}, {})

\* A null handle, and the like: refused with nothing stored.
FailsSilently == outs' = Cleared /\ answer' = Said("silent", Plain, {}, {})

\* What a handle or a view minted over "of" answered for "from".
Answers(from, of) == outs' = Cleared /\ answer' = Said("ok", Plain, from, of)

\* Readers have no error outs: what they cannot answer is null, false or 0.
Reads(from, of) == UNCHANGED outs /\ answer' = Said("ok", Plain, from, of)
ReadsNothing    == UNCHANGED outs /\ answer' = Said("default", Plain, {}, {})

-----------------------------------------------------------------------------
(* Claims *)

OneEach(fs) == [f \in Files |-> IF f \in fs THEN 1 ELSE 0]

\* The last to share a claim closes its artifact; one that was only named can
\* be opened again.
Drop(shares) ==
  /\ claims' = [f \in Files |-> claims[f] - shares[f]]
  /\ files'  = [f \in Files |-> CASE shares[f] = 0 \/ claims[f] > shares[f] -> files[f]
                                  [] f \in Paths -> "shut"
                                  [] OTHER       -> "closed"]

Share(fs) == claims' = [f \in Files |-> claims[f] + OneEach(fs)[f]] /\ UNCHANGED files

\* file_from_raw: the handle is the library's from here, and the claim its own.
Adopt(fs) ==
  /\ claims' = [f \in Files |-> claims[f] + OneEach(fs)[f]]
  /\ files'  = [f \in Files |-> IF f \in fs THEN "library" ELSE files[f]]

ClaimsStand == UNCHANGED <<files, claims>>

-----------------------------------------------------------------------------
(* The session's media and its views *)

Medium(fs, family, type) == [of |-> fs, family |-> family, type |-> type]
Without(f, k) == [x \in DOMAIN f \ {k} |-> f[x]]
With(f, k, v) == [x \in DOMAIN f \cup {k} |-> IF x = k THEN v ELSE f[x]]

Held(id)  == id \in DOMAIN pool
Nobody    == Medium({}, "released", None)

\* Mutant of Resolved: the pool is asked by place.
ResolvedByPlace(id) ==
  LET at(n) == Cardinality({j \in DOMAIN pool : j <= n}) IN
  IF \E n \in DOMAIN pool : at(n) = id THEN pool[CHOOSE n \in DOMAIN pool : at(n) = id] ELSE Nobody

\* What an identity names now.
Resolved(id) == IF Held(id) THEN pool[id] ELSE Nobody

\* The strings a view keeps of its medium, taken again.
Refresh(view, holds) == [view EXCEPT !.type = holds[view.id].type]

MediumView(id, holds) ==
  media' = IF \E at \in DOMAIN media : media[at].id = id
             THEN [at \in DOMAIN media |->
                     IF media[at].id = id THEN Refresh(media[at], holds) ELSE media[at]]
             ELSE Append(media, [id |-> id, of |-> holds[id].of, type |-> holds[id].type])

\* The medium is pooled under the next identity, and its view handed out.
Pools(medium) ==
  /\ minted < MaxIds /\ minted' = minted + 1
  /\ pool' = With(pool, minted', medium)
  /\ MediumView(minted', pool')
  /\ Succeeds

PoolStands == UNCHANGED <<pool, minted, media>>
Quiet      == UNCHANGED <<session, bays, devices>>

-----------------------------------------------------------------------------
(* The caller's handles *)

Free        == {n \in Numbers : n \notin DOMAIN handles}
Lowest      == CHOOSE n \in Free : \A m \in Free : n <= m
Of(kinds)   == {n \in DOMAIN handles : handles[n].kind \in kinds}
Layer       == {"c1541", "ibm"}
Room        == Cardinality(DOMAIN handles \ Of(Layer)) + Cardinality(DOMAIN bays) < MaxHeld
RoomFor(h)  == IF h.kind \in Layer THEN Of(Layer) = {} ELSE Room
Hands(h)    == RoomFor(h) /\ handles' = With(handles, Lowest, h)
Gives(n)    == handles' = Without(handles, n)
Claiming    == {"discovery", "source", "list"}

\* "at" is the medium it is reached through, "over" the record layer, "of"
\* what it was minted over.
Handle(kind, at, over, of) == [kind |-> kind, at |-> at, over |-> over, of |-> of]

\* A partition, a space, a file: the layer it borrows, else its medium.
Reached(h) ==
  IF h.over # 0
    THEN Medium(handles[h.over].of, handles[h.over].kind, None)
    ELSE Resolved(h.at)

\* A stream's own backing, else the medium it is a view of.
Backed(h) == IF h.at = 0 THEN Medium(h.of, "flux", None) ELSE Resolved(h.at)

-----------------------------------------------------------------------------
(* Loading *)

\* A null session, a kind nobody declares, coordinates that address nothing.
NewMedia ==
  /\ session = "open"
  /\ \/ Fails(Plain) /\ PoolStands
     \/ Pools(Medium({}, "authored", None))
  /\ Quiet /\ ClaimsStand /\ UNCHANGED handles

\* What a load of these artifacts can come to: the medium, or a refusal.
Loaded(fs, family) ==
  {Medium(fs, family, CASE family = "archive" -> "arc" [] family = "flux" -> "1541" [] OTHER -> "hdd")}

\* Adopted, and then loaded or closed.
AdoptsAndLoads(fs, family) ==
  \/ /\ Adopt(fs) /\ \E m \in Loaded(fs, family) : Pools(m)
  \/ /\ files' = [f \in Files |-> IF f \in fs THEN "closed" ELSE files[f]]
     /\ Fails(Plain) /\ PoolStands /\ UNCHANGED claims

\* A null session or format, a format nobody declares, a source that is not
\* an open handle: each is refused while the handle is still the caller's.
LoadMedia(f) ==
  /\ session = "open" /\ files[f] = "caller"
  /\ \/ Fails(Plain) /\ PoolStands /\ ClaimsStand
     \/ AdoptsAndLoads({f}, Family[f])
  /\ Quiet /\ UNCHANGED handles

\* Every member is checked before any is adopted.
LoadMediaCollection(fs) ==
  /\ session = "open" /\ \A f \in fs : files[f] = "caller"
  /\ \/ Fails(Plain) /\ PoolStands /\ ClaimsStand
     \/ AdoptsAndLoads(fs, "flux")
  /\ Quiet /\ UNCHANGED handles

\* Mutant of Consumes: the handle is taken after the arguments are read.
ConsumesLate(n, family) ==
  LET h == handles[n] IN
  \/ /\ Fails(Plain) /\ PoolStands /\ ClaimsStand
     /\ Gives(n)
  \/ /\ \E m \in Loaded(h.of, family) : Pools(m)
     /\ ClaimsStand /\ Gives(n)

\* The handle is taken before the session is looked at, and its claim goes to
\* the medium, or is dropped.
Consumes(n, family) ==
  LET h == handles[n] IN
  \/ Fails(Plain) /\ PoolStands /\ Drop(OneEach(h.of)) /\ Gives(n)
  \/ /\ \E m \in Loaded(h.of, family) : Pools(m)
     /\ ClaimsStand /\ Gives(n)

LoadMediaSource(n) ==
  /\ session = "open" /\ n \in Of({"source"})
  /\ Consumes(n, "image") /\ Quiet

LoadMediaSources(n) ==
  /\ session = "open" /\ n \in Of({"list"})
  /\ Consumes(n, "flux") /\ Quiet

\* What the discovery settled, or the type the caller names.
LoadDiscovery(n) ==
  /\ session = "open" /\ n \in Of({"discovery"})
  /\ \E f \in handles[n].of : \E family \in {Family[f], "image"} : Consumes(n, family)
  /\ Quiet

LoadDiscoveryAs(n) ==
  /\ session = "open" /\ n \in Of({"discovery"})
  /\ Consumes(n, "image") /\ Quiet

\* Absence is an answer; the outs are untouched.
SessionMedium(id) ==
  /\ session = "open"
  /\ IF Held(id) THEN MediumView(id, pool) /\ Reads(pool[id].of, pool[id].of)
     ELSE UNCHANGED media /\ ReadsNothing
  /\ UNCHANGED <<pool, minted, handles>> /\ Quiet /\ ClaimsStand

\* media_count, media_id: the pool in the order it was loaded, 0 past its end.
MediaId(index) ==
  /\ session = "open"
  /\ IF index < Cardinality(DOMAIN pool) THEN Reads({}, {}) ELSE ReadsNothing
  /\ UNCHANGED handles /\ PoolStands /\ Quiet /\ ClaimsStand

Severed(id) == [at \in DOMAIN bays |-> IF bays[at].medium = id THEN [bays[at] EXCEPT !.medium = 0]
                                       ELSE bays[at]]

\* The medium leaves the pool with its link, its claim and its view.
ReleaseMedia(id) ==
  /\ session = "open"
  /\ IF ~Held(id) THEN Fails(Plain) /\ UNCHANGED <<pool, bays, media>> /\ ClaimsStand
     ELSE /\ pool' = Without(pool, id) /\ bays' = Severed(id)
          /\ Drop(OneEach(pool[id].of))
          /\ media' = SelectSeq(media, LAMBDA view : view.id # id)
          /\ Succeeds
  /\ UNCHANGED <<session, minted, devices, handles>>

\* Everything the session owns goes with it; the caller's handles stay the
\* caller's to free.
SessionFree ==
  /\ session = "open" /\ session' = "freed"
  /\ pool' = [id \in {} |-> Nobody] /\ bays' = [at \in {} |-> None]
  /\ media' = <<>> /\ devices' = <<>>
  /\ Drop([f \in Files |-> Cardinality({id \in DOMAIN pool : f \in pool[id].of})])
  /\ UNCHANGED <<minted, handles, outs, answer>>

-----------------------------------------------------------------------------
(* Devices *)

FitOf(type, id) == [type |-> type, medium |-> id]
Fitted(at)    == at \in DOMAIN bays

DeviceView(at, holds) ==
  devices' = IF \E v \in DOMAIN devices : devices[v].at = at THEN devices
             ELSE Append(devices, [at |-> at, type |-> holds[at].type])

\* A type nobody declares, a slot that is taken: refused.
AddDevice(at, type) ==
  /\ session = "open"
  /\ \/ Fails(Plain) /\ UNCHANGED <<bays, devices>>
     \/ /\ Room /\ ~Fitted(at) /\ bays' = With(bays, at, FitOf(type, 0))
        /\ DeviceView(at, bays') /\ Succeeds
  /\ UNCHANGED <<session, handles>> /\ PoolStands /\ ClaimsStand

\* A device of the type a path's format records, and the medium in it: pooled
\* without a view until one is asked for.
AddDeviceFor(at, path) ==
  /\ session = "open"
  /\ \/ Fails(Plain) /\ UNCHANGED <<bays, devices, pool, minted>> /\ ClaimsStand
     \/ /\ Room /\ ~Fitted(at) /\ files[path] = "shut" /\ minted < MaxIds
        /\ Adopt({path}) /\ minted' = minted + 1
        /\ \E m \in Loaded({path}, Family[path]) :
             pool' = With(pool, minted', m) /\ bays' = With(bays, at, FitOf(m.type, minted'))
        /\ DeviceView(at, bays') /\ Succeeds
  /\ UNCHANGED <<session, handles, media>>

\* Mutant of ReleaseDevice: the view stays.
ReleaseDeviceOnly(at) ==
  /\ session = "open"
  /\ IF ~Fitted(at) THEN Fails(Plain) /\ UNCHANGED <<bays, devices>>
     ELSE bays' = Without(bays, at) /\ Succeeds /\ UNCHANGED devices
  /\ UNCHANGED <<session, handles>> /\ PoolStands /\ ClaimsStand

ReleaseDevice(at) ==
  /\ session = "open"
  /\ IF ~Fitted(at) THEN Fails(Plain) /\ UNCHANGED <<bays, devices>>
     ELSE /\ bays' = Without(bays, at) /\ Succeeds
          /\ devices' = SelectSeq(devices, LAMBDA view : view.at # at)
  /\ UNCHANGED <<session, handles>> /\ PoolStands /\ ClaimsStand

\* An attachment nobody can parse and an empty one are absence alike.
SessionDevice(at) ==
  /\ session = "open"
  /\ IF Fitted(at) THEN DeviceView(at, bays) /\ Reads({}, {})
     ELSE UNCHANGED devices /\ ReadsNothing
  /\ UNCHANGED <<session, bays, handles>> /\ PoolStands /\ ClaimsStand

\* On a view, which the attachment resolves again.
Insert(view, id) ==
  /\ LET at == view.at IN
     IF /\ Held(id) /\ Fitted(at) /\ bays[at].medium = 0 /\ pool[id].type = bays[at].type
        /\ \A other \in DOMAIN bays : bays[other].medium # id
     THEN bays' = [bays EXCEPT ![at].medium = id] /\ Succeeds
     ELSE Fails(Plain) /\ UNCHANGED bays
  /\ UNCHANGED <<session, handles, devices>> /\ PoolStands /\ ClaimsStand

Eject(view) ==
  /\ IF Fitted(view.at) /\ bays[view.at].medium # 0
     THEN bays' = [bays EXCEPT ![view.at].medium = 0] /\ Succeeds
     ELSE Fails(Plain) /\ UNCHANGED bays
  /\ UNCHANGED <<session, handles, devices>> /\ PoolStands /\ ClaimsStand

\* The medium a device holds, as the session's own view of it.
DeviceMedium(view) ==
  /\ LET id == IF Fitted(view.at) THEN bays[view.at].medium ELSE 0 IN
     IF Held(id) THEN MediumView(id, pool) /\ Reads(pool[id].of, pool[id].of)
     ELSE UNCHANGED media /\ ReadsNothing
  /\ UNCHANGED <<pool, minted, handles>> /\ Quiet /\ ClaimsStand

-----------------------------------------------------------------------------
(* A medium's verbs, on a view *)

Untouched == UNCHANGED handles /\ PoolStands /\ Quiet /\ ClaimsStand

\* Read, write, commit: a refusal of the medium's own is a refusal here.
MediumVerb(view) ==
  /\ LET m == Resolved(view.id) IN
     IF m = Nobody THEN Fails(Plain)
     ELSE Answers(m.of, view.of) \/ \E e \in {Plain, Ruled} : Fails(e)
  /\ Untouched

\* A reader of the medium as it is now, and one of a string the view keeps.
MediumReader(view) ==
  /\ LET m == Resolved(view.id) IN IF m = Nobody THEN ReadsNothing ELSE Reads(m.of, view.of)
  /\ Untouched

\* commit(NULL), a partition's, a space's or a file's verb on NULL, a volume's
\* transfer into a null buffer.
NullCall == session = "open" /\ FailsSilently /\ Untouched

\* Everything else on NULL: a medium's transfers, a layer's, a stream's.
RefusedNullCall == session = "open" /\ Fails(Plain) /\ Untouched

\* The record of a partition, copied; where the pool holds none, absence.
MediumPartition(view) ==
  /\ LET m == Resolved(view.id) IN
     \/ m # Nobody /\ Hands(Handle("partition", view.id, 0, view.of)) /\ Reads(m.of, view.of)
     \/ UNCHANGED handles /\ ReadsNothing
  /\ PoolStands /\ Quiet /\ ClaimsStand

-----------------------------------------------------------------------------
(* Partitions, spaces and files *)

\* with_partition, with_space: a verb that resolves its handle again, and is
\* refused where that comes to nothing.
Through(n, then) ==
  LET h == handles[n]  m == Reached(h) IN
  \/ m # Nobody /\ Answers(m.of, h.of) /\ then
  \/ (\E e \in IF m = Nobody THEN {Plain} ELSE {Plain, Ruled} : Fails(e)) /\ UNCHANGED handles

\* The handle a verb mints carries its parent's provider.
Beneath(n, kind) == Handle(kind, handles[n].at, handles[n].over, handles[n].of)

CheckType(n) ==
  /\ n \in Of({"partition"}) /\ session = "open"
  /\ Through(n, UNCHANGED handles) /\ PoolStands /\ Quiet /\ ClaimsStand

\* A layout recorded onto a blank binds its device, and the medium's view says
\* so from then on.
RecordAs(n) ==
  /\ n \in Of({"partition"}) /\ session = "open"
  /\ LET h == handles[n]  m == Reached(h) IN
     IF m.family = "authored" /\ m.type = None /\ Held(h.at)
     THEN \/ /\ pool' = [pool EXCEPT ![h.at].type = "hdd"]
             /\ MediumView(h.at, pool')
             /\ Answers(m.of, h.of)
          \/ Fails(Ruled) /\ UNCHANGED <<pool, media>>
     ELSE Fails(Plain) /\ UNCHANGED <<pool, media>>
  /\ UNCHANGED <<minted, handles>> /\ Quiet /\ ClaimsStand

\* What each door can answer, by what the partition is over: an archive
\* composes no addressed extent, and a recording declares its reading.
Doors(family) ==
  CASE family = "image"    -> {"volume", "filesystem", "filesystem_as"}
    [] family = "authored" -> {"volume"}
    [] family = "archive"  -> {"filesystem", "filesystem_as"}
    [] OTHER               -> {"filesystem_as"}

\* A door that composes nothing answers null with nothing stored.  The
\* addressable door onto an FM or MFM layer does not return (StorageSpaces).
PartitionSpace(n, door) ==
  /\ n \in Of({"partition"}) /\ session = "open"
  /\ door = "volume" => Reached(handles[n]).family # "ibm"
  /\ LET family == Reached(handles[n]).family IN
     IF door \notin Doors(family) /\ family # "released" /\ door # "filesystem_as"
     THEN FailsSilently /\ UNCHANGED handles
     ELSE Through(n, door \in Doors(family) /\ Hands(Beneath(n, "space")))
  /\ PoolStands /\ Quiet /\ ClaimsStand

\* Read or write a space, its label, its evidence, a path of it.
SpaceVerb(n) ==
  /\ n \in Of({"space"}) /\ session = "open"
  /\ Through(n, UNCHANGED handles) /\ PoolStands /\ Quiet /\ ClaimsStand

GetFile(n) ==
  /\ n \in Of({"space"}) /\ session = "open"
  /\ Through(n, Hands(Beneath(n, "file"))) /\ PoolStands /\ Quiet /\ ClaimsStand

\* Bytes, read_at, write_at: the file is looked up again by its path.
FileVerb(n) ==
  /\ n \in Of({"file"}) /\ session = "open"
  /\ Through(n, UNCHANGED handles) /\ PoolStands /\ Quiet /\ ClaimsStand

\* An archive's file taken out of it shares the archive's claim.
TakesOut(n, kind) ==
  LET h == handles[n]  m == Reached(h) IN
  /\ \/ /\ m.family = "archive"
        /\ Hands(Handle(kind, 0, 0, m.of)) /\ Share(m.of) /\ Answers(m.of, h.of)
     \/ Fails(Plain) /\ UNCHANGED handles /\ ClaimsStand
  /\ PoolStands /\ Quiet

FileSource(n)         == n \in Of({"file"}) /\ session = "open" /\ TakesOut(n, "source")
SpaceFiles(n)         == n \in Of({"space"}) /\ session = "open" /\ TakesOut(n, "list")
FilesystemDiscover(n) == n \in Of({"space"}) /\ session = "open" /\ TakesOut(n, "discovery")

-----------------------------------------------------------------------------
(* Streams and record layers *)

\* The pooled medium's own stream, reached through the medium for as long as
\* it is held.
MediumStream(view, kind) ==
  /\ LET m == Resolved(view.id) IN
     \/ m.family = "flux" /\ Hands(Handle(kind, view.id, 0, view.of)) /\ Answers(m.of, view.of)
     \/ Fails(Plain) /\ UNCHANGED handles
  /\ PoolStands /\ Quiet /\ ClaimsStand

\* A stream of the caller's own, or a record layer, made of what another
\* stream says and keeping nothing of it.
Materialize(n, kinds, makes) ==
  /\ n \in Of(kinds) /\ session = "open"
  /\ LET h == handles[n]  m == Backed(h) IN
     \/ m # Nobody /\ Hands(Handle(makes, 0, 0, h.of)) /\ Answers(m.of, h.of)
     \/ Fails(Plain) /\ UNCHANGED handles
  /\ PoolStands /\ Quiet /\ ClaimsStand

MaterializeBytestream(n)  == Materialize(n, {"bitstream"}, "bytestream")
RecognizeSectors(n)       == Materialize(n, {"bytestream"}, "c1541")
RecognizeIbmSectors(n)    == Materialize(n, {"bytestream"}, "ibm")

\* A string taken when the stream was handed out, and a count asked of it.
StreamReader(n) ==
  /\ n \in Of({"bitstream", "bytestream"}) /\ session = "open"
  /\ LET m == Backed(handles[n]) IN
     IF m = Nobody THEN ReadsNothing ELSE Reads(m.of, handles[n].of)
  /\ Untouched

\* The payload is copied where the buffer is exactly its length.
LayerRead(n, exact) ==
  /\ n \in Of(Layer) /\ session = "open"
  /\ IF exact THEN Answers(handles[n].of, handles[n].of) ELSE Fails(Plain)
  /\ Untouched

\* The partition borrows the layer.  A c1541 layer always has one; an FM or
\* MFM one where its records compose an image.
LayerPartition(n) ==
  /\ n \in Of(Layer) /\ session = "open"
  /\ \/ Hands(Handle("partition", 0, n, handles[n].of)) /\ Answers(handles[n].of, handles[n].of)
     \/ handles[n].kind = "ibm" /\ Fails(Ruled) /\ UNCHANGED handles
  /\ PoolStands /\ Quiet /\ ClaimsStand

-----------------------------------------------------------------------------
(* Discovering, and freeing *)

\* The library opens the path itself, under a claim of its own.
DiscoverMedia(path) ==
  /\ \/ /\ files[path] = "shut" /\ Hands(Handle("discovery", 0, 0, {path})) /\ Adopt({path}) /\ Succeeds
     \/ Fails(Plain) /\ UNCHANGED handles /\ ClaimsStand
  /\ PoolStands /\ Quiet

FreeDiscovery(n) ==
  /\ n \in Of(Claiming) /\ Gives(n) /\ Drop(OneEach(handles[n].of))
  /\ UNCHANGED <<outs, answer>> /\ PoolStands /\ Quiet

\* The rule a caller of the layer keeps: it goes after what borrows it.
FreeHandle(n) ==
  /\ n \in Of({"partition", "space", "file", "bitstream", "bytestream"} \cup Layer)
  /\ \A m \in DOMAIN handles : handles[m].over # n
  /\ Gives(n) /\ ClaimsStand
  /\ UNCHANGED <<outs, answer>> /\ PoolStands /\ Quiet

-----------------------------------------------------------------------------

SurfaceInit ==
  /\ session = "open" /\ pool = [id \in {} |-> Nobody] /\ minted = 0
  /\ bays = [at \in {} |-> None] /\ media = <<>> /\ devices = <<>>
  /\ handles = [n \in {} |-> Nobody]
  /\ files = [f \in Files |-> IF f \in Paths THEN "shut" ELSE "caller"]
  /\ claims = [f \in Files |-> 0]
  /\ outs = [category |-> None, message |-> None, rule |-> None]
  /\ answer = Said("default", Plain, {}, {})

Session ==
  \/ NewMedia \/ SessionFree \/ NullCall \/ RefusedNullCall
  \/ \E f \in Files \ Paths : LoadMedia(f)
  \/ \E fs \in SUBSET (Files \ Paths) : fs # {} /\ LoadMediaCollection(fs)
  \/ \E id \in 1 .. MaxIds : SessionMedium(id) \/ ReleaseMedia(id) \/ MediaId(id)

Devices ==
  \/ \E at \in Attachments :
       \/ \E type \in Types : AddDevice(at, type)
       \/ \E path \in Paths : AddDeviceFor(at, path)
       \/ ReleaseDevice(at) \/ SessionDevice(at)
  \/ \E v \in DOMAIN devices :
       \/ \E id \in 1 .. MaxIds : Insert(devices[v], id)
       \/ Eject(devices[v]) \/ DeviceMedium(devices[v])

Views ==
  \E v \in DOMAIN media :
    \/ MediumVerb(media[v]) \/ MediumReader(media[v]) \/ MediumPartition(media[v])
    \/ \E kind \in {"bitstream", "bytestream"} : MediumStream(media[v], kind)

Callers ==
  \/ \E path \in Paths : DiscoverMedia(path)
  \/ \E n \in DOMAIN handles :
       \/ LoadMediaSource(n) \/ LoadMediaSources(n) \/ LoadDiscovery(n) \/ LoadDiscoveryAs(n)
       \/ CheckType(n) \/ RecordAs(n)
       \/ \E door \in {"volume", "filesystem", "filesystem_as"} : PartitionSpace(n, door)
       \/ SpaceVerb(n) \/ GetFile(n) \/ SpaceFiles(n) \/ FilesystemDiscover(n)
       \/ FileVerb(n) \/ FileSource(n)
       \/ MaterializeBytestream(n) \/ RecognizeSectors(n) \/ RecognizeIbmSectors(n)
       \/ StreamReader(n) \/ LayerPartition(n)
       \/ \E exact \in BOOLEAN : LayerRead(n, exact)
       \/ FreeDiscovery(n) \/ FreeHandle(n)

SurfaceNext == Session \/ Devices \/ Views \/ Callers

Surface == SurfaceInit /\ [][SurfaceNext]_vars

-----------------------------------------------------------------------------
(* Properties *)

\* An artifact is the library's for exactly as long as a medium or a handle
\* rides its claim, and each of them holds one share of it: a load refused at
\* any point has dropped what it took, and one refused before it took anything
\* leaves the artifact the caller's.
ClaimsAreOwned ==
  \A f \in Files :
    /\ claims[f] = Cardinality({id \in DOMAIN pool : f \in pool[id].of})
                 + Cardinality({n \in Of(Claiming) : f \in handles[n].of})
    /\ files[f] = "library" <=> claims[f] > 0

\* A view is the one view of a medium the pool holds, or of a device that is
\* fitted, and what it keeps of it is what it is.
ViewsAreTrue ==
  /\ \A v \in DOMAIN media :
       /\ Held(media[v].id) /\ media[v].type = pool[media[v].id].type
       /\ \A w \in DOMAIN media : media[w].id = media[v].id => w = v
  /\ \A v \in DOMAIN devices :
       /\ Fitted(devices[v].at) /\ devices[v].type = bays[devices[v].at].type
       /\ \A w \in DOMAIN devices : devices[w].at = devices[v].at => w = v

\* A handle that borrows a layer borrows one that is there, and is of it.
NothingDangles ==
  \A n \in DOMAIN handles :
    LET over == handles[n].over IN
    over # 0 => over \in Of(Layer) /\ handles[over].of = handles[n].of

SurfaceIsTrue == ClaimsAreOwned /\ ViewsAreTrue /\ NothingDangles

\* "a later load can never make it point at a stranger" (session.rs:44), and
\* "every space and file resolved through it stops answering" once a medium is
\* released (session.rs:693): a call answers for what its handle was minted
\* over or not at all.  The outs say what this call was refused for, with its
\* rule where it has one, and nothing of an earlier call.
SurfaceKeepsToItself ==
  [][answer' # answer \/ outs' # outs =>
       /\ answer'.outcome = "ok" => answer'.from = answer'.of
       /\ answer'.outcome = "refused" =>
            outs' = [category |-> answer'.error.category, message |-> answer'.error.category,
                     rule |-> answer'.error.rule]
       /\ answer'.outcome = "silent" => outs'.message = None /\ outs'.rule = None]_vars
=============================================================================
