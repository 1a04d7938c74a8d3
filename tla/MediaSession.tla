---------------------------- MODULE MediaSession ----------------------------
(***************************************************************************)
(* The session: a set of devices, which are configuration, and a pool of   *)
(* media, which are state, with links between the two (model/pools.rs,     *)
(* model/storage_device.rs, model/media.rs), and the claims media hold on  *)
(* the files they were loaded from (model/discovery.rs, archive/mod.rs).   *)
(*                                                                         *)
(* Every call has the session to itself, so an action is a whole call.  A  *)
(* call that refuses changes nothing and is left out, but where it has     *)
(* taken something from its caller or has to take steps back.  What a      *)
(* medium holds is CommitJournal's and SessionCache's; here it only        *)
(* matters whether it is altered and whether its file has changed.         *)
(***************************************************************************)
EXTENDS Integers, FiniteSets

CONSTANTS
  Slots,          \* device types, and the archive receiver
  ArchiveSlot,
  Bay,            \* the bay each slot fills
  Images, Archives, \* files by name
  Records,        \* the device types each file's format records
  Layouts,        \* the device types published layouts are recorded for
  ArchiveModes,   \* what archive files can be opened for
  NoSlot, NoMedium, NoLink, NoFile, Nothing,
  MaxIds,         \* bound: media issued in a session
  Places          \* bound: the slots of each bay

Files   == Images \cup Archives
Modes   == {"read", "write"}
Ids     == 0 .. MaxIds - 1
Kinds   == {"blank", "chs"}

ASSUME SlotsAssumption ==
  /\ ArchiveSlot \in Slots /\ NoSlot \notin Slots
  /\ Layouts \subseteq Slots \ {ArchiveSlot}
  /\ Records \in [Files -> SUBSET (Slots \ {ArchiveSlot})]
ASSUME NamesAssumption ==
  /\ Images \cap Archives = {} /\ NoFile \notin Files
  /\ ArchiveModes \subseteq Modes
ASSUME BoundsAssumption ==
  /\ MaxIds \in Nat
  /\ \A p \in Places : p = <<p[1], p[2]>> /\ p[2] \in Nat
ASSUME MarksAssumption == NoMedium \notin Nat /\ NoLink \notin Places

VARIABLES
  devices,  \* the device set
  pool,     \* the media, by identity
  next,     \* the next identity to issue
  hand,     \* a discovery, or a file of a namespace, that the caller holds
  bytes,    \* whether each file has changed, and changed again
  told      \* history: the devices and media its calls have answered with

vars == <<devices, pool, next, hand, bytes, told>>

-----------------------------------------------------------------------------

Source == [origin : {"image", "archive", "stored", "coded"} \cup Kinds,
           file   : Files \cup {NoFile},
           claim  : Modes,   \* the lock its claim holds on the file
           mode   : Modes,   \* the effective access
           slot   : Slots \cup {NoSlot}]
Medium == [src : Source, link : Places \cup {NoLink}, altered : BOOLEAN]
Device == [slot : Slots, index : Nat, medium : Ids \cup {NoMedium}]

Attachment(d) == <<Bay[d.slot], d.index>>

TypeOK ==
  /\ \A d \in devices : d \in Device /\ Attachment(d) \in Places
  /\ next \in 0 .. MaxIds
  /\ DOMAIN pool \subseteq 0 .. next - 1
  /\ \A i \in DOMAIN pool : pool[i] \in Medium
  /\ hand \in Source \cup {Nothing}
  /\ bytes \in [Files -> {0, 1}]
  /\ told.devices \subseteq Places /\ told.media \subseteq Ids /\ told.issued \subseteq Ids

Init ==
  /\ devices = {} /\ pool = [i \in {} |-> Nothing] /\ next = 0
  /\ hand = Nothing
  /\ bytes = [f \in Files |-> 0]
  /\ told = [devices |-> {}, media |-> {}, issued |-> {}]

Tells(ds, ms) ==
  told' = [devices |-> ds, media |-> ms, issued |-> told.issued \cup ms]

-----------------------------------------------------------------------------
(* Discovery: a claim and a reading, held by the caller *)

\* A format that records one device type asserts it; several assert none.
Asserted(f) ==
  IF \E s \in Slots : Records[f] = {s} THEN CHOOSE s \in Slots : Records[f] = {s} ELSE NoSlot

\* A claim lives as long as anything that rides it: an image's own, and an
\* archive's, shared with every file taken out of it.
Riders(f) == {i \in DOMAIN pool : pool[i].src.file = f}
InHand(f) == hand # Nothing /\ hand.file = f

\* Mutant of CanOpen: what the caller has not loaded yet holds no claim.
CanOpenUnheld(f, m) == \A i \in Riders(f) : m = "read" /\ pool[i].src.claim = "read"

\* A claim for reading admits others for reading, and nothing else.
CanOpen(f, m) ==
  /\ \A i \in Riders(f) : m = "read" /\ pool[i].src.claim = "read"
  /\ InHand(f) => m = "read" /\ hand.claim = "read"

\* What discover_media can answer: an image under the declared intent, with
\* less access where the evidence is short; an archive, which refuses a
\* write intent, under an exclusive lock and whatever the file affords.
Found(f, intent) ==
  IF f \in Images
    THEN {[origin |-> "image", file |-> f, claim |-> intent, mode |-> m, slot |-> Asserted(f)] :
            m \in IF CanOpen(f, intent) THEN {"read", intent} ELSE {}}
    ELSE {[origin |-> "archive", file |-> f, claim |-> "write", mode |-> m, slot |-> ArchiveSlot] :
            m \in IF CanOpen(f, "write") /\ intent = "read" THEN ArchiveModes ELSE {}}

Discover(f, intent) ==
  /\ hand = Nothing
  /\ hand' \in Found(f, intent)
  /\ UNCHANGED <<devices, pool, next, bytes, told>>

\* A file of an archive's namespace: its span of the archive where it is
\* stored, a private decoding where it is coded; the claim, and the mode,
\* are the archive's.
TakeEntry(id, origin) ==
  /\ hand = Nothing
  /\ id \in DOMAIN pool /\ pool[id].src.origin = "archive"
  /\ \E m \in {"read", pool[id].src.mode} :
       hand' = [pool[id].src EXCEPT !.origin = origin, !.mode = m, !.slot = Asserted(pool[id].src.file)]
  /\ UNCHANGED <<devices, pool, next, bytes, told>>

Drop ==
  /\ hand # Nothing
  /\ hand' = Nothing
  /\ UNCHANGED <<devices, pool, next, bytes, told>>

-----------------------------------------------------------------------------
(* The pool *)

Pooled(src, link) ==
  [i \in DOMAIN pool \cup {next} |->
     IF i = next THEN [src |-> src, link |-> link, altered |-> FALSE] ELSE pool[i]]

\* Mutant of Admit: the identity issued is not counted.
AdmitUncounted(src) ==
  /\ next < MaxIds
  /\ pool' = Pooled(src, NoLink) /\ next' = next
  /\ Tells(told.devices, told.media \cup {next})

Admit(src) ==
  /\ next < MaxIds
  /\ pool' = Pooled(src, NoLink) /\ next' = next + 1
  /\ Tells(told.devices, told.media \cup {next})

\* The load consumes the discovery, whether or not it is refused: a reading
\* that asserts no device is, and one whose leading structure cannot be read.
Load(src) ==
  /\ hand' = Nothing
  /\ \/ src.slot # NoSlot /\ Admit(src)
     \/ UNCHANGED <<pool, next, told>>
  /\ UNCHANGED <<devices, bytes>>

LoadDiscovery == hand # Nothing /\ Load(hand)

\* The caller declares the device, one the format records.
LoadDiscoveryAs(s) ==
  /\ hand # Nothing
  /\ hand.origin # "archive" /\ s \in Records[hand.file]
  /\ Load([hand EXCEPT !.slot = s])

NewMedia(kind) ==
  /\ Admit([origin |-> kind, file |-> NoFile, claim |-> "read", mode |-> "write", slot |-> NoSlot])
  /\ UNCHANGED <<devices, hand, bytes>>

\* A layout is recorded onto a blank article, once, and binds its device.
RecordAs(id, s) ==
  /\ id \in DOMAIN pool /\ pool[id].src.origin = "blank" /\ pool[id].src.slot = NoSlot
  /\ s \in Layouts
  /\ pool' = [pool EXCEPT ![id].src.slot = s]
  /\ UNCHANGED <<devices, next, hand, bytes, told>>

-----------------------------------------------------------------------------
(* The device set *)

Clear(ds, a) == {IF Attachment(d) = a THEN [d EXCEPT !.medium = NoMedium] ELSE d : d \in ds}
Discard(ds, a) == {d \in ds : Attachment(d) # a}

Taken(s, i) == \E d \in devices : Attachment(d) = <<Bay[s], i>>

\* It counts by bay.
LowestFree(s) ==
  CHOOSE i \in 0 .. Cardinality(devices) :
    /\ ~\E d \in devices : Attachment(d) = <<Bay[s], i>>
    /\ \A j \in 0 .. i - 1 : \E d \in devices : Attachment(d) = <<Bay[s], j>>

Fresh(s, i) == [slot |-> s, index |-> i, medium |-> NoMedium]

AddDeviceAt(s, i) ==
  /\ <<Bay[s], i>> \in Places /\ ~Taken(s, i)
  /\ devices' = devices \cup {Fresh(s, i)}
  /\ Tells(told.devices \cup {Attachment(Fresh(s, i))}, told.media)
  /\ UNCHANGED <<pool, next, hand, bytes>>

AddDevice(s) == AddDeviceAt(s, LowestFree(s))

\* Mutant of Fits: whatever the bay takes.
FitsBay(d, src) == src.slot # NoSlot /\ Bay[src.slot] = Bay[d.slot]

Fits(d, src) == src.slot # NoSlot /\ src.slot = d.slot

Insert(d, id) ==
  /\ d.medium = NoMedium
  /\ id \in DOMAIN pool /\ pool[id].link = NoLink
  /\ Fits(d, pool[id].src)
  /\ pool' = [pool EXCEPT ![id].link = Attachment(d)]
  /\ devices' = (devices \ {d}) \cup {[d EXCEPT !.medium = id]}
  /\ UNCHANGED <<next, hand, bytes, told>>

Unlinked(id) == IF id \in DOMAIN pool THEN [pool EXCEPT ![id].link = NoLink] ELSE pool

Eject(d) ==
  /\ d.medium # NoMedium
  /\ pool' = Unlinked(d.medium)
  /\ devices' = Clear(devices, Attachment(d))
  /\ UNCHANGED <<next, hand, bytes, told>>

\* It ejects first.
ReleaseDevice(d) ==
  /\ pool' = Unlinked(d.medium)
  /\ devices' = Discard(devices, Attachment(d))
  /\ Tells(told.devices \ {Attachment(d)}, told.media)
  /\ UNCHANGED <<next, hand, bytes>>

\* Mutants of ReleaseMedia: the device keeps its link; the last identity is
\* issued again.
ReleaseMediaOnly(id) ==
  /\ id \in DOMAIN pool
  /\ pool' = [i \in DOMAIN pool \ {id} |-> pool[i]]
  /\ Tells(told.devices, told.media \ {id})
  /\ UNCHANGED <<devices, next, hand, bytes>>
ReleaseMediaReissues(id) ==
  /\ id \in DOMAIN pool
  /\ devices' = IF pool[id].link = NoLink THEN devices ELSE Clear(devices, pool[id].link)
  /\ pool' = [i \in DOMAIN pool \ {id} |-> pool[i]]
  /\ next' = IF id = next - 1 THEN id ELSE next
  /\ Tells(told.devices, told.media \ {id})
  /\ UNCHANGED <<hand, bytes>>

\* It severs the medium's link, and what was altered goes with the medium.
ReleaseMedia(id) ==
  /\ id \in DOMAIN pool
  /\ devices' = IF pool[id].link = NoLink THEN devices ELSE Clear(devices, pool[id].link)
  /\ pool' = [i \in DOMAIN pool \ {id} |-> pool[i]]
  /\ Tells(told.devices, told.media \ {id})
  /\ UNCHANGED <<next, hand, bytes>>

\* Mutant of AddFor: what was added stays when the load fails.
AddForKeeps(src, reads) ==
  LET d == Fresh(src.slot, LowestFree(src.slot)) IN
  /\ src.slot # NoSlot /\ Attachment(d) \in Places /\ next < MaxIds
  /\ IF reads
       THEN /\ devices' = devices \cup {[d EXCEPT !.medium = next]}
            /\ pool' = Pooled(src, Attachment(d)) /\ next' = next + 1
            /\ Tells(told.devices \cup {Attachment(d)}, told.media \cup {next})
       ELSE devices' = devices \cup {d} /\ UNCHANGED <<pool, next, told>>
  /\ UNCHANGED <<hand, bytes>>

\* Adds a device of the type the format records, pools the medium and
\* inserts it; where the content cannot be read, or the insert is refused,
\* neither device nor medium stays behind.
AddFor(src, reads) ==
  LET d      == Fresh(src.slot, LowestFree(src.slot))
      placed == devices \cup {d}
  IN /\ src.slot # NoSlot /\ Attachment(d) \in Places /\ ~Taken(d.slot, d.index) /\ next < MaxIds
     /\ next' = IF reads THEN next + 1 ELSE next
     /\ IF reads /\ Fits(d, src)
          THEN /\ devices' = (placed \ {d}) \cup {[d EXCEPT !.medium = next]}
               /\ pool' = Pooled(src, Attachment(d))
               /\ Tells(told.devices \cup {Attachment(d)}, told.media \cup {next})
          ELSE devices' = Discard(placed, Attachment(d)) /\ UNCHANGED <<pool, told>>
     /\ UNCHANGED <<hand, bytes>>

AddDeviceFor(f, intent) == \E src \in Found(f, intent), reads \in BOOLEAN : AddFor(src, reads)

-----------------------------------------------------------------------------
(* Content *)

\* An archive is never written, and a blank has no content before a layout.
Write(id) ==
  /\ id \in DOMAIN pool /\ pool[id].src.mode = "write" /\ pool[id].src.origin # "archive"
  /\ pool[id].src.origin = "blank" => pool[id].src.slot # NoSlot
  /\ pool' = [pool EXCEPT ![id].altered = TRUE]
  /\ UNCHANGED <<devices, next, hand, bytes, told>>

\* Where a medium's bytes are that others can see.
InFile(src) == src.origin \in {"image", "archive", "stored"}

\* The commit lands in the file the medium's bytes are in.
Commit(id) ==
  /\ id \in DOMAIN pool /\ pool[id].altered
  /\ pool' = [pool EXCEPT ![id].altered = FALSE]
  /\ bytes' = IF InFile(pool[id].src) THEN [bytes EXCEPT ![pool[id].src.file] = 1 - @] ELSE bytes
  /\ UNCHANGED <<devices, next, hand, told>>

Rollback(id) ==
  /\ id \in DOMAIN pool
  /\ pool' = [pool EXCEPT ![id].altered = FALSE]
  /\ UNCHANGED <<devices, next, hand, bytes, told>>

-----------------------------------------------------------------------------

Discovery ==
  \/ \E f \in Files, m \in Modes : Discover(f, m)
  \/ \E id \in Ids, o \in {"stored", "coded"} : TakeEntry(id, o)
  \/ Drop

Media ==
  \/ LoadDiscovery
  \/ \E s \in Slots : LoadDiscoveryAs(s)
  \/ \E k \in Kinds : NewMedia(k)
  \/ \E id \in Ids : ReleaseMedia(id) \/ Write(id) \/ Commit(id) \/ Rollback(id)
  \/ \E id \in Ids, s \in Slots : RecordAs(id, s)

Configuration ==
  \/ \E s \in Slots : AddDevice(s)
  \/ \E s \in Slots, p \in Places : AddDeviceAt(s, p[2])
  \/ \E f \in Files, m \in Modes : AddDeviceFor(f, m)
  \/ \E d \in devices : Eject(d) \/ ReleaseDevice(d)
  \/ \E d \in devices, id \in Ids : Insert(d, id)

Next == Discovery \/ Media \/ Configuration

Spec == Init /\ [][Next]_vars

-----------------------------------------------------------------------------
(* Properties *)

\* A link is known at both ends: a device holds a pooled medium that says it
\* is there, and a linked medium is in the one device at that place
\* (storage_device.rs:242-243, "one disk is in one drive").
LinksAgree ==
  /\ \A d \in devices : d.medium # NoMedium =>
       d.medium \in DOMAIN pool /\ pool[d.medium].link = Attachment(d)
  /\ \A i \in DOMAIN pool : pool[i].link # NoLink =>
       \E d \in devices : Attachment(d) = pool[i].link /\ d.medium = i
  /\ \A d, e \in devices : Attachment(d) = Attachment(e) => d = e

\* A medium in a device is a recording of that device's type for as long as
\* it is there: nothing rebinds the recording under the drive
\* (storage_device.rs:230-236).
SeatedWhereRecorded ==
  \A d \in devices : d.medium # NoMedium => pool[d.medium].src.slot = d.slot

\* What the session holds is what its caller was told of: a convenience that
\* fails half way leaves neither a slot nor a medium behind
\* (pools.rs:433-437).
NothingLeftBehind ==
  /\ {Attachment(d) : d \in devices} = told.devices
  /\ DOMAIN pool = told.media

\* An identity kept past a release names nothing, never another medium
\* (media.rs:683-688).
IdentityIsForLife ==
  [][\A i \in told.issued : i \notin DOMAIN pool => i \notin DOMAIN pool']_vars

\* The bytes a medium or a discovery stands on move only when a medium over
\* them commits its own writes, and then under nobody else.
BytesMoveByOwnCommit ==
  [][\A f \in Files : bytes'[f] # bytes[f] =>
       ~InHand(f) /\ \E i \in DOMAIN pool : Riders(f) = {i} /\ pool[i].altered]_vars

\* An archive's file is read and not written, whatever it was opened for
\* (recognition.rs:149, "An archive entry is read-only and never commits").
ArchivesStandStill == [][\A f \in Archives : bytes'[f] = bytes[f]]_vars
=============================================================================
