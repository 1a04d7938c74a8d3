------------------------------- MODULE Handles -------------------------------
(***************************************************************************)
(* The Python bindings' handles (crates/remanence-py/src/lib.rs).          *)
(*                                                                         *)
(* A handle owns nothing: it shares the session and keeps a name - a       *)
(* medium's identity, a slot's attachment - that every verb resolves       *)
(* again under the session's lock.  A Discovery owns what it found until a *)
(* load takes it.  Every verb runs under the interpreter's lock, so a call *)
(* is one action; what is hard is the long life of a name.                 *)
(*                                                                         *)
(* Each medium and each device is given a life, a number no other has had, *)
(* which the code does not keep: it says which one a name stood for.       *)
(***************************************************************************)
EXTENDS Integers, FiniteSets

CONSTANTS
  Attachments,   \* where a device may be attached, in slot-fill order: 0 .. n
  NoMedium,      \* an empty slot
  MaxLives,      \* bound: media and devices ever made
  MaxFound,      \* bound: discoveries
  MaxSessions    \* bound: sessions a Session object has held

VARIABLES
  pool,          \* the media in the pool: identity -> life
  next,          \* the next identity the pool issues
  devices,       \* the devices: attachment -> its life and its medium
  found,         \* the discoveries: held or taken
  handles,       \* the Medium and StorageDevice objects the host keeps
  session,       \* which session the Session object holds
  lives,         \* lives given so far
  loaded         \* which discovery each life was loaded from

handleVars == <<pool, next, devices, found, handles, session, lives, loaded>>

MediumHandle(id, life) == [kind |-> "medium", name |-> id, life |-> life, session |-> session]
DeviceHandle(at, life) == [kind |-> "device", name |-> at, life |-> life, session |-> session]

Held(d)   == d \in DOMAIN found /\ found[d] = "held"
Present(at) == at \in DOMAIN devices

\* What a handle's name resolves to now: a life, or 0 for the refusal.
Resolve(h) ==
  CASE h.kind = "medium" /\ h.name \in DOMAIN pool    -> pool[h.name]
    [] h.kind = "device" /\ h.name \in DOMAIN devices -> devices[h.name].life
    [] OTHER -> 0

Without(f, k) == [x \in DOMAIN f \ {k} |-> f[x]]
With(f, k, v) == [x \in DOMAIN f \cup {k} |-> IF x = k THEN v ELSE f[x]]

-----------------------------------------------------------------------------
(* Discovering and loading *)

DiscoverMedia ==
  /\ Cardinality(DOMAIN found) < MaxFound
  /\ found' = With(found, Cardinality(DOMAIN found) + 1, "held")
  /\ UNCHANGED <<pool, next, devices, handles, session, lives, loaded>>

Take(d) == found' = [found EXCEPT ![d] = "taken"]

\* Mutant of Admit: the identity is counted from what the pool holds.
AdmitCounted(life) ==
  /\ pool' = With(pool, next, life)
  /\ next' = Cardinality(DOMAIN pool) + 2

\* The pool issues an identity and takes the medium.
Admit(life) ==
  /\ pool' = With(pool, next, life)
  /\ next' = next + 1

\* A medium of a life of its own is in the pool, and the host has its handle.
Loads(from) ==
  /\ lives < MaxLives /\ lives' = lives + 1
  /\ Admit(lives')
  /\ loaded' = [loaded EXCEPT ![lives'] = from]
  /\ handles' = handles \cup {MediumHandle(next, lives')}

Refused == UNCHANGED <<pool, next, lives, loaded, handles>>

\* The discovery is taken before the session is asked, so that a refused load
\* has consumed it too.  A taken one is refused by name and changes nothing.
LoadDiscovery(d) ==
  /\ Held(d) /\ Take(d)
  /\ Loads(d) \/ Refused
  /\ UNCHANGED <<devices, session>>

\* load_media, new_media: a medium no discovery led to.
LoadMedia == Loads(0) /\ UNCHANGED <<devices, found, session>>

\* The device is the lowest free slot's and the medium loaded is in it.
AddDeviceFor ==
  LET free == Attachments \ DOMAIN devices
      at   == CHOOSE s \in free : \A t \in free : s <= t
  IN  /\ free # {}
      /\ lives + 2 <= MaxLives /\ lives' = lives + 2
      /\ Admit(lives + 1)
      /\ loaded' = [loaded EXCEPT ![lives + 1] = 0]
      /\ devices' = With(devices, at, [life |-> lives + 2, medium |-> next])
      /\ handles' = handles \cup {DeviceHandle(at, lives + 2)}
      /\ UNCHANGED <<found, session>>

-----------------------------------------------------------------------------
(* Asking for a handle *)

Medium(id) ==
  /\ id \in DOMAIN pool
  /\ handles' = handles \cup {MediumHandle(id, pool[id])}
  /\ UNCHANGED <<pool, next, devices, found, session, lives, loaded>>

Device(at) ==
  /\ Present(at)
  /\ handles' = handles \cup {DeviceHandle(at, devices[at].life)}
  /\ UNCHANGED <<pool, next, devices, found, session, lives, loaded>>

\* StorageDevice.medium, on a handle that resolves.
MediumIn(h) ==
  /\ h.kind = "device" /\ Present(h.name)
  /\ devices[h.name].medium # NoMedium
  /\ LET id == devices[h.name].medium
     IN  handles' = handles \cup {MediumHandle(id, pool[id])}
  /\ UNCHANGED <<pool, next, devices, found, session, lives, loaded>>

-----------------------------------------------------------------------------
(* Linking, releasing and leaving *)

Insert(h, id) ==
  /\ h.kind = "device" /\ Present(h.name) /\ id \in DOMAIN pool
  /\ devices[h.name].medium = NoMedium
  /\ \A at \in DOMAIN devices : devices[at].medium # id
  /\ devices' = [devices EXCEPT ![h.name].medium = id]
  /\ UNCHANGED <<pool, next, found, handles, session, lives, loaded>>

Eject(h) ==
  /\ h.kind = "device" /\ Present(h.name) /\ devices[h.name].medium # NoMedium
  /\ devices' = [devices EXCEPT ![h.name].medium = NoMedium]
  /\ UNCHANGED <<pool, next, found, handles, session, lives, loaded>>

ReleaseMedia(id) ==
  /\ id \in DOMAIN pool
  /\ pool' = Without(pool, id)
  /\ devices' = [at \in DOMAIN devices |->
                   IF devices[at].medium = id
                   THEN [devices[at] EXCEPT !.medium = NoMedium] ELSE devices[at]]
  /\ UNCHANGED <<next, found, handles, session, lives, loaded>>

\* The medium in the slot stays in the pool.
ReleaseDevice(at) ==
  /\ Present(at)
  /\ devices' = Without(devices, at)
  /\ UNCHANGED <<pool, next, found, handles, session, lives, loaded>>

\* __exit__: the Session object holds a new session, under the same handles.
Exit ==
  /\ session < MaxSessions /\ session' = session + 1
  /\ pool' = [x \in {} |-> 0] /\ devices' = [x \in {} |-> 0] /\ next' = 0
  /\ UNCHANGED <<found, handles, lives, loaded>>

-----------------------------------------------------------------------------

Init ==
  /\ pool = [x \in {} |-> 0] /\ next = 0 /\ devices = [x \in {} |-> 0]
  /\ found = [x \in {} |-> "held"] /\ handles = {} /\ session = 1 /\ lives = 0
  /\ loaded = [l \in 1 .. MaxLives |-> 0]

Next ==
  \/ DiscoverMedia \/ LoadMedia \/ AddDeviceFor \/ Exit
  \/ \E d \in 1 .. MaxFound : LoadDiscovery(d)
  \/ \E id \in DOMAIN pool : Medium(id) \/ ReleaseMedia(id)
  \/ \E at \in Attachments : Device(at) \/ ReleaseDevice(at)
  \/ \E h \in handles : MediumIn(h) \/ Eject(h) \/ \E id \in DOMAIN pool : Insert(h, id)

Spec == Init /\ [][Next]_handleVars

-----------------------------------------------------------------------------
(* Properties *)

\* "An identity kept past a release resolves to absence rather than to a
\* stranger" (media.rs:684-687), for as long as the Session object holds the
\* session that issued it; a discovery makes one medium however often it is
\* loaded; and a slot names a medium that is in the pool.
NoStrangers ==
  /\ \A h \in handles :
       h.kind = "medium" /\ h.session = session => Resolve(h) \in {0, h.life}
  /\ \A k, l \in 1 .. lives : loaded[k] # 0 /\ loaded[k] = loaded[l] => k = l
  /\ \A at \in DOMAIN devices : devices[at].medium \in DOMAIN pool \cup {NoMedium}

\* "The device is re-resolved on each borrow, so a removed one refuses"
\* (lib.rs:1609), and so for a medium: whatever a handle answers, it answers
\* for the one it was given for.
RemovedOneRefuses == \A h \in handles : Resolve(h) \in {0, h.life}

-----------------------------------------------------------------------------
(* The inductive invariant behind NoStrangers *)

\* An identity of the pool is one that was issued.
PoolOK ==
  /\ next \in Nat
  /\ \A id \in DOMAIN pool : id \in Nat /\ id < next

\* The discoveries are numbered from one, without a gap.
FoundOK == \E n \in Nat : DOMAIN found = 1 .. n

\* A life came from a discovery that is taken, and no two from the same one.
LoadedOK ==
  /\ lives \in Nat /\ lives <= MaxLives
  /\ loaded = [l \in 1 .. MaxLives |-> loaded[l]]
  /\ \A k \in 1 .. MaxLives :
       loaded[k] # 0 => k <= lives /\ loaded[k] \in DOMAIN found /\ found[loaded[k]] = "taken"
  /\ \A k, l \in 1 .. MaxLives : loaded[k] # 0 /\ loaded[k] = loaded[l] => k = l

\* What a medium's handle of this session names was issued by it, and is the
\* medium the handle was given for or no medium at all.
NamesItsOwn(h) ==
  /\ h.name \in Nat /\ h.name < next
  /\ h.name \in DOMAIN pool => pool[h.name] = h.life

\* No handle is of a session to come.
HandlesOK ==
  /\ session \in Nat
  /\ \A h \in handles :
       /\ h.kind \in {"medium", "device"}
       /\ h.session \in Nat /\ h.session <= session
       /\ h.kind = "medium" /\ h.session = session => NamesItsOwn(h)

\* A slot names a medium of the pool.
SlotsOK == \A at \in DOMAIN devices : devices[at].medium \in DOMAIN pool \cup {NoMedium}

IInv == PoolOK /\ FoundOK /\ LoadedOK /\ HandlesOK /\ SlotsOK
=============================================================================
