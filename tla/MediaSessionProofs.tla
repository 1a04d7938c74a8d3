------------------------- MODULE MediaSessionProofs -------------------------
(***************************************************************************)
(* Proofs about MediaSession: for every set of device types, bays, files   *)
(* and places, and any number of media.                                    *)
(***************************************************************************)
EXTENDS MediaSession, TLAPS

-----------------------------------------------------------------------------
(* What the operators return *)

LEMMA AssertedType ==
  ASSUME NEW f
  PROVE  Asserted(f) \in Slots \cup {NoSlot}
BY DEF Asserted

LEMMA FoundType ==
  ASSUME NEW f \in Files, NEW intent \in Modes, NEW src \in Found(f, intent)
  PROVE  src \in Source /\ src.file = f
<1>1. Asserted(f) \in Slots \cup {NoSlot} BY AssertedType
<1>2. CASE f \in Images BY <1>1, <1>2 DEF Found, Source, Modes
<1>3. CASE f \notin Images
  BY <1>3, SlotsAssumption, NamesAssumption DEF Found, Source, Modes
<1>4. QED BY <1>2, <1>3

LEMMA PooledIs ==
  ASSUME TypeOK, next < MaxIds, NEW src \in Source, NEW link \in Places \cup {NoLink}
  PROVE  /\ DOMAIN Pooled(src, link) = DOMAIN pool \cup {next}
         /\ next \notin DOMAIN pool
         /\ Pooled(src, link)[next] = [src |-> src, link |-> link, altered |-> FALSE]
         /\ \A i \in DOMAIN pool : Pooled(src, link)[i] = pool[i]
         /\ \A i \in DOMAIN pool \cup {next} : Pooled(src, link)[i] \in Medium
         /\ next \in Ids /\ next + 1 \in 0 .. MaxIds
         /\ DOMAIN pool \cup {next} \subseteq 0 .. next
BY BoundsAssumption DEF TypeOK, Pooled, Medium, Ids

LEMMA AddDeviceIsAt ==
  ASSUME NEW s \in Slots, AddDevice(s)
  PROVE  \E i \in Nat : AddDeviceAt(s, i)
<1>1. LowestFree(s) \in Nat
  BY BoundsAssumption DEF AddDevice, AddDeviceAt
<1>2. QED BY <1>1 DEF AddDevice

LEMMA AddDeviceAtIndex ==
  ASSUME NEW s \in Slots, NEW p \in Places
  PROVE  p[2] \in Nat
BY BoundsAssumption

-----------------------------------------------------------------------------
(* Type correctness *)

LEMMA TypeInit == Init => TypeOK
BY BoundsAssumption DEF Init, TypeOK, Ids

LEMMA AdmitType ==
  ASSUME TypeOK, NEW src \in Source, Admit(src), UNCHANGED <<devices, bytes>>,
         hand' \in Source \cup {Nothing}
  PROVE  TypeOK'
<1>1. next < MaxIds /\ next' = next + 1 /\ pool' = Pooled(src, NoLink)
  BY DEF Admit
<1>2. NoLink \in Places \cup {NoLink} OBVIOUS
<1>3. /\ DOMAIN pool' \subseteq 0 .. next
      /\ \A i \in DOMAIN pool' : pool'[i] \in Medium
      /\ next \in Ids /\ next + 1 \in 0 .. MaxIds
  BY <1>1, <1>2, PooledIs
<1>4. told'.devices \subseteq Places /\ told'.media \subseteq Ids /\ told'.issued \subseteq Ids
  BY <1>3 DEF Admit, Tells, TypeOK
<1>5. \A d \in devices' : d \in Device /\ Attachment(d) \in Places
  BY DEF TypeOK
<1>6. DOMAIN pool' \subseteq 0 .. next' - 1 /\ next' \in 0 .. MaxIds
  BY <1>1, <1>3 DEF Ids
<1>7. QED BY <1>3, <1>4, <1>5, <1>6 DEF TypeOK, Attachment

LEMMA LoadType ==
  ASSUME TypeOK, NEW src \in Source, Load(src)
  PROVE  TypeOK'
<1>1. CASE Admit(src) BY <1>1, AdmitType DEF Load
<1>2. CASE UNCHANGED <<pool, next, told>>
  BY <1>2 DEF TypeOK, Load, Attachment, Device
<1>3. QED BY <1>1, <1>2 DEF Load

LEMMA TypeStep == TypeOK /\ [Next]_vars => TypeOK'
<1> SUFFICES ASSUME TypeOK, [Next]_vars PROVE TypeOK'
  OBVIOUS
<1> USE DEF TypeOK
<1>1. ASSUME NEW f \in Files, NEW m \in Modes, Discover(f, m) PROVE TypeOK'
  BY <1>1, FoundType DEF Discover, Attachment, Device
<1>2. ASSUME NEW id \in Ids, NEW o \in {"stored", "coded"}, TakeEntry(id, o) PROVE TypeOK'
  <2>1. pool[id].src \in Source BY <1>2 DEF TakeEntry, Medium
  <2>2. PICK m \in {"read", pool[id].src.mode} :
          hand' = [pool[id].src EXCEPT !.origin = o, !.mode = m, !.slot = Asserted(pool[id].src.file)]
    BY <1>2 DEF TakeEntry
  <2>3. Asserted(pool[id].src.file) \in Slots \cup {NoSlot} BY AssertedType
  <2>4. hand' \in Source BY <2>1, <2>2, <2>3 DEF Source, Modes
  <2>5. QED BY <1>2, <2>4 DEF TakeEntry, Attachment, Device
<1>3. ASSUME Drop PROVE TypeOK'
  BY <1>3 DEF Drop, Attachment, Device
<1>4. ASSUME LoadDiscovery PROVE TypeOK'
  BY <1>4, LoadType DEF LoadDiscovery
<1>5. ASSUME NEW s \in Slots, LoadDiscoveryAs(s) PROVE TypeOK'
  <2>1. [hand EXCEPT !.slot = s] \in Source BY <1>5 DEF LoadDiscoveryAs, Source
  <2>2. QED BY <1>5, <2>1, LoadType DEF LoadDiscoveryAs
<1>6. ASSUME NEW k \in Kinds, NewMedia(k) PROVE TypeOK'
  <2> DEFINE src == [origin |-> k, file |-> NoFile, claim |-> "read", mode |-> "write", slot |-> NoSlot]
  <2>1. src \in Source BY DEF Source, Modes
  <2>2. Admit(src) /\ UNCHANGED <<devices, hand, bytes>> BY <1>6 DEF NewMedia
  <2> HIDE DEF src
  <2>3. QED BY <2>1, <2>2, AdmitType
<1>7. ASSUME NEW id \in Ids, ReleaseMedia(id) PROVE TypeOK'
  BY <1>7 DEF ReleaseMedia, Clear, Tells, Attachment, Device
<1>8. ASSUME NEW id \in Ids, Write(id) PROVE TypeOK'
  BY <1>8 DEF Write, Medium, Attachment, Device
<1>9. ASSUME NEW id \in Ids, Commit(id) PROVE TypeOK'
  <2>1. bytes' \in [Files -> {0, 1}]
    <3>1. \A f \in Files : 1 - bytes[f] \in {0, 1} OBVIOUS
    <3>2. QED BY <1>9, <3>1 DEF Commit
  <2>2. DOMAIN pool' = DOMAIN pool /\ \A i \in DOMAIN pool : pool'[i] \in Medium
    BY <1>9 DEF Commit, Medium
  <2>3. QED BY <1>9, <2>1, <2>2 DEF Commit, Attachment, Device
<1>10. ASSUME NEW id \in Ids, Rollback(id) PROVE TypeOK'
  BY <1>10 DEF Rollback, Medium, Attachment, Device
<1>11. ASSUME NEW id \in Ids, NEW s \in Slots, RecordAs(id, s) PROVE TypeOK'
  BY <1>11 DEF RecordAs, Medium, Source, Attachment, Device
<1>12. ASSUME NEW s \in Slots, NEW i \in Nat, AddDeviceAt(s, i) PROVE TypeOK'
  BY <1>12 DEF AddDeviceAt, Fresh, Tells, Attachment, Device
<1>13. ASSUME NEW f \in Files, NEW m \in Modes, AddDeviceFor(f, m) PROVE TypeOK'
  <2>1. PICK src \in Found(f, m), reads \in BOOLEAN : AddFor(src, reads)
    BY <1>13 DEF AddDeviceFor
  <2> DEFINE d == Fresh(src.slot, LowestFree(src.slot))
  <2>2. src \in Source BY FoundType
  <2>3. d \in Device /\ Attachment(d) \in Places /\ d.medium = NoMedium /\ next < MaxIds
    BY <2>1, <2>2, BoundsAssumption DEF AddFor, Fresh, Attachment, Device, Source
  <2>4. [d EXCEPT !.medium = next] \in Device /\ Attachment([d EXCEPT !.medium = next]) = Attachment(d)
    BY <2>2, <2>3, PooledIs DEF Attachment, Device
  <2> HIDE DEF d
  <2>5. UNCHANGED <<hand, bytes>> /\ (next' = next \/ next' = next + 1) /\ next' \in 0 .. MaxIds
    BY <2>1, <2>3, BoundsAssumption DEF AddFor, d
  <2>6. CASE reads /\ Fits(d, src)
    <3>1. /\ devices' = ((devices \cup {d}) \ {d}) \cup {[d EXCEPT !.medium = next]}
          /\ pool' = Pooled(src, Attachment(d)) /\ next' = next + 1
          /\ Tells(told.devices \cup {Attachment(d)}, told.media \cup {next})
      BY <2>1, <2>6 DEF AddFor, d
    <3>2. /\ DOMAIN pool' \subseteq 0 .. next
          /\ \A i \in DOMAIN pool' : pool'[i] \in Medium
          /\ next \in Ids
      BY <2>2, <2>3, <3>1, PooledIs
    <3>3. told'.devices \subseteq Places /\ told'.media \subseteq Ids /\ told'.issued \subseteq Ids
      BY <2>3, <3>1, <3>2 DEF Tells
    <3>4. \A e \in devices' : e \in Device /\ Attachment(e) \in Places
      BY <2>3, <2>4, <3>1
    <3>5. DOMAIN pool' \subseteq 0 .. next' - 1 BY <3>1, <3>2 DEF Ids
    <3>6. QED BY <2>5, <3>2, <3>3, <3>4, <3>5 DEF Attachment
  <2>7. CASE ~(reads /\ Fits(d, src))
    <3>1. devices' = Discard(devices \cup {d}, Attachment(d)) /\ UNCHANGED <<pool, told>>
      BY <2>1, <2>7 DEF AddFor, d
    <3>2. \A e \in devices' : e \in Device /\ Attachment(e) \in Places
      BY <2>3, <3>1 DEF Discard
    <3>3. DOMAIN pool' \subseteq 0 .. next' - 1 BY <2>5, <3>1
    <3>4. QED BY <2>5, <3>1, <3>2, <3>3 DEF Attachment
  <2>8. QED BY <2>6, <2>7
<1>14. ASSUME NEW d \in devices, Eject(d) PROVE TypeOK'
  BY <1>14 DEF Eject, Unlinked, Clear, Medium, Attachment, Device
<1>15. ASSUME NEW d \in devices, ReleaseDevice(d) PROVE TypeOK'
  BY <1>15 DEF ReleaseDevice, Unlinked, Discard, Tells, Medium, Attachment, Device
<1>16. ASSUME NEW d \in devices, NEW id \in Ids, Insert(d, id) PROVE TypeOK'
  BY <1>16 DEF Insert, Medium, Attachment, Device
<1>17. ASSUME UNCHANGED vars PROVE TypeOK'
  BY <1>17 DEF vars, Attachment, Device
<1> USE DEF Next
<1>18. QED
  BY <1>1, <1>2, <1>3, <1>4, <1>5, <1>6, <1>7, <1>8, <1>9, <1>10, <1>11, <1>12, <1>13, <1>14,
     <1>15, <1>16, <1>17, AddDeviceIsAt, AddDeviceAtIndex DEF Next, Discovery, Media, Configuration

\* TypeOK holds of every session.
THEOREM TypeCorrect == Spec => []TypeOK
<1>1. Init => TypeOK BY TypeInit
<1>2. TypeOK /\ [Next]_vars => TypeOK' BY TypeStep
<1>3. QED BY <1>1, <1>2, PTL DEF Spec

-----------------------------------------------------------------------------
(* The links *)

Links == LinksAgree /\ SeatedWhereRecorded

\* Nothing moves, and only a medium with no recording gets one.
LEMMA LinksStand ==
  ASSUME TypeOK, Links, devices' = devices, DOMAIN pool' = DOMAIN pool,
         \A i \in DOMAIN pool :
           /\ pool'[i].link = pool[i].link
           /\ pool[i].src.slot # NoSlot => pool'[i].src.slot = pool[i].src.slot
  PROVE  Links'
<1>1. LinksAgree' BY DEF Links, LinksAgree, Attachment
<1>2. SeatedWhereRecorded'
  BY SlotsAssumption DEF Links, SeatedWhereRecorded, LinksAgree, TypeOK, Device
<1>3. QED BY <1>1, <1>2 DEF Links

LEMMA LinksAdmit ==
  ASSUME TypeOK, Links, NEW src \in Source, Admit(src), devices' = devices
  PROVE  Links'
<1>1. next < MaxIds /\ pool' = Pooled(src, NoLink) BY DEF Admit
<1>2. NoLink \in Places \cup {NoLink} OBVIOUS
<1>3. /\ DOMAIN pool' = DOMAIN pool \cup {next}
      /\ next \notin DOMAIN pool
      /\ pool'[next] = [src |-> src, link |-> NoLink, altered |-> FALSE]
      /\ \A i \in DOMAIN pool : pool'[i] = pool[i]
  BY <1>1, <1>2, PooledIs
<1>4. LinksAgree' BY <1>3 DEF Links, LinksAgree, Attachment
<1>5. SeatedWhereRecorded' BY <1>3 DEF Links, LinksAgree, SeatedWhereRecorded
<1>6. QED BY <1>4, <1>5 DEF Links

LEMMA ClearIs ==
  ASSUME TypeOK, NEW a, NEW e \in Clear(devices, a)
  PROVE  \E d \in devices :
           /\ Attachment(e) = Attachment(d) /\ e.slot = d.slot
           /\ e = IF Attachment(d) = a THEN [d EXCEPT !.medium = NoMedium] ELSE d
           /\ e.medium = IF Attachment(d) = a THEN NoMedium ELSE d.medium
BY DEF TypeOK, Clear, Attachment, Device

\* Severing both ends of the link at a place.
LEMMA LinksCut ==
  ASSUME TypeOK, Links, NEW a, devices' = Clear(devices, a),
         DOMAIN pool' \subseteq DOMAIN pool,
         \A i \in DOMAIN pool' :
           /\ pool'[i].src = pool[i].src
           /\ pool'[i].link = IF pool[i].link = a THEN NoLink ELSE pool[i].link,
         \A i \in DOMAIN pool : pool[i].link # a => i \in DOMAIN pool'
  PROVE  Links'
<1>1. ASSUME NEW e \in devices', e.medium # NoMedium
      PROVE  /\ e.medium \in DOMAIN pool' /\ pool'[e.medium].link = Attachment(e)
             /\ pool'[e.medium].src.slot = e.slot
  <2>1. PICK d \in devices : Attachment(e) = Attachment(d) /\ e = d /\ Attachment(d) # a
    BY <1>1, ClearIs
  <2>2. pool[d.medium].link = Attachment(d) /\ d.medium \in DOMAIN pool
    BY <1>1, <2>1 DEF Links, LinksAgree
  <2>3. pool[d.medium].src.slot = d.slot BY <1>1, <2>1 DEF Links, SeatedWhereRecorded
  <2>4. QED BY <2>1, <2>2, <2>3
<1>2. ASSUME NEW i \in DOMAIN pool', pool'[i].link # NoLink
      PROVE  \E d \in devices' : Attachment(d) = pool'[i].link /\ d.medium = i
  <2>1. pool[i].link # a /\ pool'[i].link = pool[i].link BY <1>2
  <2>2. PICK d \in devices : Attachment(d) = pool[i].link /\ d.medium = i
    BY <1>2, <2>1 DEF Links, LinksAgree
  <2>3. d \in devices' BY <2>1, <2>2 DEF Clear
  <2>4. QED BY <2>1, <2>2, <2>3
<1>3. ASSUME NEW d \in devices', NEW e \in devices', Attachment(d) = Attachment(e)
      PROVE  d = e
  BY <1>3, ClearIs DEF Links, LinksAgree
<1>4. LinksAgree' BY <1>1, <1>2, <1>3 DEF LinksAgree, Attachment
<1>5. SeatedWhereRecorded' BY <1>1 DEF SeatedWhereRecorded
<1>6. QED BY <1>4, <1>5 DEF Links

\* A device's place is in its medium's link, or in none.
LEMMA UnlinkedIs ==
  ASSUME TypeOK, Links, NEW d \in devices
  PROVE  /\ DOMAIN Unlinked(d.medium) = DOMAIN pool
         /\ \A i \in DOMAIN pool :
              /\ Unlinked(d.medium)[i].src = pool[i].src
              /\ Unlinked(d.medium)[i].link = IF pool[i].link = Attachment(d) THEN NoLink ELSE pool[i].link
<1>1. \A i \in DOMAIN pool : pool[i].link = Attachment(d) => d.medium = i
  BY MarksAssumption DEF TypeOK, Links, LinksAgree
<1>2. d.medium \in DOMAIN pool => pool[d.medium].link = Attachment(d)
  BY MarksAssumption DEF TypeOK, Links, LinksAgree
<1>3. QED BY <1>1, <1>2 DEF Unlinked, TypeOK, Medium

LEMMA LinksInit == Init => Links
BY DEF Init, Links, LinksAgree, SeatedWhereRecorded

LEMMA LinksStep == TypeOK /\ Links /\ [Next]_vars => Links'
<1> SUFFICES ASSUME TypeOK, Links, [Next]_vars PROVE Links'
  OBVIOUS
<1>1. ASSUME NEW f \in Files, NEW m \in Modes, Discover(f, m) PROVE Links'
  BY <1>1, LinksStand DEF Discover
<1>2. ASSUME NEW id \in Ids, NEW o \in {"stored", "coded"}, TakeEntry(id, o) PROVE Links'
  BY <1>2, LinksStand DEF TakeEntry
<1>3. ASSUME Drop PROVE Links'
  BY <1>3, LinksStand DEF Drop
<1>4. ASSUME NEW src \in Source, Load(src) PROVE Links'
  BY <1>4, LinksStand, LinksAdmit DEF Load
<1>5. LoadDiscovery => Links'
  BY <1>4 DEF LoadDiscovery, TypeOK
<1>6. ASSUME NEW s \in Slots, LoadDiscoveryAs(s) PROVE Links'
  <2>1. [hand EXCEPT !.slot = s] \in Source BY <1>6 DEF LoadDiscoveryAs, Source, TypeOK
  <2>2. QED BY <1>4, <1>6, <2>1 DEF LoadDiscoveryAs
<1>7. ASSUME NEW k \in Kinds, NewMedia(k) PROVE Links'
  <2> DEFINE src == [origin |-> k, file |-> NoFile, claim |-> "read", mode |-> "write", slot |-> NoSlot]
  <2>1. src \in Source BY DEF Source, Modes
  <2>2. Admit(src) /\ devices' = devices BY <1>7 DEF NewMedia
  <2> HIDE DEF src
  <2>3. QED BY <2>1, <2>2, LinksAdmit
<1>8. ASSUME NEW id \in Ids, ReleaseMedia(id) PROVE Links'
  <2>1. DOMAIN pool' = DOMAIN pool \ {id} /\ \A i \in DOMAIN pool' : pool'[i] = pool[i]
    BY <1>8 DEF ReleaseMedia
  <2>2. CASE pool[id].link = NoLink
    <3>1. \A d \in devices : d.medium # id
      BY <1>8, <2>2, MarksAssumption DEF ReleaseMedia, Links, LinksAgree, TypeOK, Ids
    <3>2. QED
      BY <1>8, <2>1, <2>2, <3>1 DEF ReleaseMedia, Links, LinksAgree, SeatedWhereRecorded, Attachment
  <2>3. CASE pool[id].link # NoLink
    <3> DEFINE a == pool[id].link
    <3>1. \A i \in DOMAIN pool : pool[i].link = a => i = id
      BY <1>8, <2>3 DEF ReleaseMedia, Links, LinksAgree
    <3>2. devices' = Clear(devices, a) BY <1>8, <2>3 DEF ReleaseMedia
    <3>3. pool[id].link = a OBVIOUS
    <3> HIDE DEF a
    <3>4. \A i \in DOMAIN pool' :
            /\ pool'[i].src = pool[i].src
            /\ pool'[i].link = IF pool[i].link = a THEN NoLink ELSE pool[i].link
      BY <2>1, <3>1
    <3>5. \A i \in DOMAIN pool : pool[i].link # a => i \in DOMAIN pool'
      BY <2>1, <3>3
    <3>6. DOMAIN pool' \subseteq DOMAIN pool BY <2>1
    <3>7. QED BY <3>2, <3>4, <3>5, <3>6, LinksCut
  <2>4. QED BY <2>2, <2>3
<1>9. ASSUME NEW id \in Ids, Write(id) PROVE Links'
  BY <1>9, LinksStand DEF Write, TypeOK, Medium, Source
<1>10. ASSUME NEW id \in Ids, Commit(id) PROVE Links'
  BY <1>10, LinksStand DEF Commit, TypeOK, Medium, Source
<1>11. ASSUME NEW id \in Ids, Rollback(id) PROVE Links'
  BY <1>11, LinksStand DEF Rollback, TypeOK, Medium, Source
<1>12. ASSUME NEW id \in Ids, NEW s \in Slots, RecordAs(id, s) PROVE Links'
  BY <1>12, LinksStand DEF RecordAs, TypeOK, Medium, Source
<1>13. ASSUME NEW s \in Slots, NEW i \in Nat, AddDeviceAt(s, i) PROVE Links'
  BY <1>13, MarksAssumption
     DEF AddDeviceAt, Fresh, Taken, Links, LinksAgree, SeatedWhereRecorded, Attachment
<1>14. ASSUME NEW f \in Files, NEW m \in Modes, AddDeviceFor(f, m) PROVE Links'
  <2>1. PICK src \in Found(f, m), reads \in BOOLEAN : AddFor(src, reads)
    BY <1>14 DEF AddDeviceFor
  <2> DEFINE d == Fresh(src.slot, LowestFree(src.slot))
             e == [d EXCEPT !.medium = next]
  <2>2. src \in Source BY FoundType
  <2>3. /\ Attachment(d) \in Places /\ d.medium = NoMedium /\ next < MaxIds
        /\ e.medium = next /\ e.slot = src.slot /\ Attachment(e) = Attachment(d)
        /\ \A c \in devices : Attachment(c) # Attachment(d)
    BY <2>1, BoundsAssumption DEF AddFor, Taken, Fresh, Attachment
  <2>4. CASE reads /\ Fits(d, src)
    <3>1. pool' = Pooled(src, Attachment(d)) /\ devices' = ((devices \cup {d}) \ {d}) \cup {e}
      BY <2>1, <2>4 DEF AddFor
    <3> HIDE DEF d, e
    <3>2. /\ DOMAIN pool' = DOMAIN pool \cup {next} /\ next \notin DOMAIN pool
          /\ pool'[next] = [src |-> src, link |-> Attachment(d), altered |-> FALSE]
          /\ \A i \in DOMAIN pool : pool'[i] = pool[i]
      BY <2>2, <2>3, <3>1, PooledIs
    <3>3. devices' = devices \cup {e} BY <2>3, <3>1
    <3>4. LinksAgree' BY <2>3, <3>2, <3>3 DEF Links, LinksAgree, Attachment
    <3>5. SeatedWhereRecorded' BY <2>3, <3>2, <3>3 DEF Links, LinksAgree, SeatedWhereRecorded
    <3>6. QED BY <3>4, <3>5 DEF Links
  <2>5. CASE ~(reads /\ Fits(d, src))
    <3>1. pool' = pool /\ devices' = Discard(devices \cup {d}, Attachment(d))
      BY <2>1, <2>5 DEF AddFor
    <3> HIDE DEF d, e
    <3>2. devices' = devices BY <2>3, <3>1 DEF Discard
    <3>3. QED BY <3>1, <3>2, LinksStand
  <2>6. QED BY <2>4, <2>5
<1>15. ASSUME NEW d \in devices, Eject(d) PROVE Links'
  <2>1. pool' = Unlinked(d.medium) /\ devices' = Clear(devices, Attachment(d))
    BY <1>15 DEF Eject
  <2>2. QED BY <2>1, UnlinkedIs, LinksCut
<1>16. ASSUME NEW d \in devices, ReleaseDevice(d) PROVE Links'
  <2>1. pool' = Unlinked(d.medium) /\ devices' = Discard(devices, Attachment(d))
    BY <1>16 DEF ReleaseDevice
  <2>2. devices' = {e \in devices : Attachment(e) # Attachment(d)} BY <2>1 DEF Discard
  <2>3. LinksAgree'
    BY <2>1, <2>2, UnlinkedIs DEF Links, LinksAgree, Attachment
  <2>4. SeatedWhereRecorded'
    BY <2>1, <2>2, UnlinkedIs DEF Links, LinksAgree, SeatedWhereRecorded
  <2>5. QED BY <2>3, <2>4 DEF Links
<1>17. ASSUME NEW d \in devices, NEW id \in Ids, Insert(d, id) PROVE Links'
  <2> DEFINE e == [d EXCEPT !.medium = id]
  <2>1. /\ e.medium = id /\ e.slot = d.slot /\ Attachment(e) = Attachment(d)
        /\ d.medium = NoMedium /\ d \in Device /\ Attachment(d) \in Places
    BY <1>17 DEF Insert, TypeOK, Device, Attachment
  <2>2. /\ id \in DOMAIN pool /\ pool[id].link = NoLink /\ pool[id].src.slot = d.slot
        /\ devices' = (devices \ {d}) \cup {e}
    BY <1>17 DEF Insert, Fits
  <2>3. /\ DOMAIN pool' = DOMAIN pool /\ pool'[id].link = Attachment(d)
        /\ \A i \in DOMAIN pool : pool'[i].src = pool[i].src /\ (i # id => pool'[i].link = pool[i].link)
    BY <1>17, <2>2 DEF Insert, TypeOK, Medium
  <2> HIDE DEF e
  <2>4. \A c \in devices : c.medium # NoMedium => c.medium # id
    BY <2>1, <2>2, MarksAssumption DEF Links, LinksAgree, TypeOK
  <2>5. LinksAgree'
    <3>1. \A c \in devices' : c.medium # NoMedium =>
            c.medium \in DOMAIN pool' /\ pool'[c.medium].link = Attachment(c)
      BY <2>1, <2>2, <2>3, <2>4 DEF Links, LinksAgree
    <3>2. ASSUME NEW i \in DOMAIN pool', pool'[i].link # NoLink
          PROVE  \E c \in devices' : Attachment(c) = pool'[i].link /\ c.medium = i
      <4>1. CASE i = id BY <4>1, <2>1, <2>2, <2>3
      <4>2. CASE i # id
        <5>1. PICK c \in devices : Attachment(c) = pool[i].link /\ c.medium = i
          BY <3>2, <4>2, <2>3 DEF Links, LinksAgree
        <5>2. c # d BY <5>1, <2>1, <2>3, MarksAssumption DEF TypeOK
        <5>3. QED BY <5>1, <5>2, <4>2, <2>2, <2>3
      <4>3. QED BY <4>1, <4>2
    <3>3. \A b, c \in devices' : Attachment(b) = Attachment(c) => b = c
      BY <2>1, <2>2 DEF Links, LinksAgree
    <3>4. QED BY <3>1, <3>2, <3>3 DEF LinksAgree, Attachment
  <2>6. SeatedWhereRecorded'
    BY <2>1, <2>2, <2>3, <2>4 DEF Links, LinksAgree, SeatedWhereRecorded
  <2>7. QED BY <2>5, <2>6 DEF Links
<1>18. ASSUME UNCHANGED vars PROVE Links'
  BY <1>18, LinksStand DEF vars
<1>19. QED
  BY <1>1, <1>2, <1>3, <1>5, <1>6, <1>7, <1>8, <1>9, <1>10, <1>11, <1>12, <1>13, <1>14, <1>15,
     <1>16, <1>17, <1>18, AddDeviceIsAt, AddDeviceAtIndex DEF Next, Discovery, Media, Configuration

LEMMA LinksHold == Spec => [](TypeOK /\ Links)
<1>1. Init => TypeOK /\ Links BY TypeInit, LinksInit
<1>2. TypeOK /\ Links /\ [Next]_vars => (TypeOK /\ Links)' BY TypeStep, LinksStep
<1>3. QED BY <1>1, <1>2, PTL DEF Spec

\* A link is known at both ends (storage_device.rs:242-243): no sequence of
\* inserts, ejects and releases leaves a device with a medium that does not
\* say it is there, or a medium in a device that does not hold it.
THEOREM LinksCorrect == Spec => []LinksAgree
<1>1. TypeOK /\ Links => LinksAgree BY DEF Links
<1>2. QED BY <1>1, LinksHold, PTL

\* Nothing rebinds a recording while its medium is seated
\* (storage_device.rs:230-236).
THEOREM SeatedCorrect == Spec => []SeatedWhereRecorded
<1>1. TypeOK /\ Links => SeatedWhereRecorded BY DEF Links
<1>2. QED BY <1>1, LinksHold, PTL

-----------------------------------------------------------------------------
(* What the session's caller was told of *)

Accounted ==
  /\ \A d \in devices : Attachment(d) \in told.devices
  /\ \A a \in told.devices : \E d \in devices : Attachment(d) = a
  /\ DOMAIN pool = told.media
  /\ \A i \in told.issued : i < next

\* Identities are issued in order.
IssuedInOrder == DOMAIN pool' \subseteq DOMAIN pool \cup {next}

LEMMA AccountedAdmit ==
  ASSUME TypeOK, Accounted, NEW src \in Source, Admit(src), devices' = devices
  PROVE  Accounted' /\ IssuedInOrder
<1>1. /\ next < MaxIds /\ pool' = Pooled(src, NoLink) /\ next' = next + 1
      /\ told' = [devices |-> told.devices, media |-> told.media \cup {next},
                  issued |-> told.issued \cup (told.media \cup {next})]
  BY DEF Admit, Tells
<1>2. NoLink \in Places \cup {NoLink} OBVIOUS
<1>3. DOMAIN pool' = DOMAIN pool \cup {next} BY <1>1, <1>2, PooledIs
<1>4. \A i \in told'.issued : i < next'
  BY <1>1, BoundsAssumption DEF TypeOK, Accounted, Ids
<1>5. QED BY <1>1, <1>3, <1>4 DEF Accounted, IssuedInOrder, Attachment

LEMMA AccountedStand ==
  ASSUME Accounted, UNCHANGED <<devices, next, told>>, DOMAIN pool' = DOMAIN pool
  PROVE  Accounted' /\ IssuedInOrder
BY DEF Accounted, IssuedInOrder, Attachment

\* Emptying a device moves none.
LEMMA ClearPlaces ==
  ASSUME TypeOK, Accounted, NEW a, devices' = Clear(devices, a)
  PROVE  /\ \A d \in devices' : Attachment(d) \in told.devices
         /\ \A b \in told.devices : \E d \in devices' : Attachment(d) = b
<1>1. ASSUME NEW d \in devices', Attachment(d) \notin told.devices PROVE FALSE
  BY <1>1, ClearIs DEF Accounted
<1>2. ASSUME NEW d \in devices PROVE \E e \in devices' : Attachment(e) = Attachment(d)
  <2> DEFINE e == IF Attachment(d) = a THEN [d EXCEPT !.medium = NoMedium] ELSE d
  <2>1. Attachment(e) = Attachment(d) BY DEF TypeOK, Device, Attachment
  <2>2. e \in devices' BY DEF Clear
  <2>3. QED BY <2>1, <2>2
<1>3. QED BY <1>1, <1>2 DEF Accounted

LEMMA AccountedInit == Init => Accounted
BY DEF Init, Accounted

LEMMA AccountedStep == TypeOK /\ Accounted /\ [Next]_vars => Accounted' /\ IssuedInOrder
<1> SUFFICES ASSUME TypeOK, Accounted, [Next]_vars PROVE Accounted' /\ IssuedInOrder
  OBVIOUS
<1> DEFINE Goal == Accounted' /\ IssuedInOrder
<1>1. ASSUME NEW f \in Files, NEW m \in Modes, Discover(f, m) PROVE Goal
  BY <1>1, AccountedStand DEF Discover
<1>2. ASSUME NEW id \in Ids, NEW o \in {"stored", "coded"}, TakeEntry(id, o) PROVE Goal
  BY <1>2, AccountedStand DEF TakeEntry
<1>3. Drop => Goal
  BY AccountedStand DEF Drop
<1>4. ASSUME NEW src \in Source, Load(src) PROVE Goal
  BY <1>4, AccountedStand, AccountedAdmit DEF Load
<1>5. LoadDiscovery => Goal
  BY <1>4 DEF LoadDiscovery, TypeOK
<1>6. ASSUME NEW s \in Slots, LoadDiscoveryAs(s) PROVE Goal
  <2>1. [hand EXCEPT !.slot = s] \in Source BY <1>6 DEF LoadDiscoveryAs, Source, TypeOK
  <2>2. QED BY <1>4, <1>6, <2>1 DEF LoadDiscoveryAs
<1>7. ASSUME NEW k \in Kinds, NewMedia(k) PROVE Goal
  <2> DEFINE src == [origin |-> k, file |-> NoFile, claim |-> "read", mode |-> "write", slot |-> NoSlot]
  <2>1. src \in Source BY DEF Source, Modes
  <2>2. Admit(src) /\ devices' = devices BY <1>7 DEF NewMedia
  <2> HIDE DEF src
  <2>3. QED BY <2>1, <2>2, AccountedAdmit
<1>8. ASSUME NEW id \in Ids, ReleaseMedia(id) PROVE Goal
  <2>1. /\ id \in DOMAIN pool /\ DOMAIN pool' = DOMAIN pool \ {id} /\ next' = next
        /\ told' = [devices |-> told.devices, media |-> told.media \ {id},
                    issued |-> told.issued \cup (told.media \ {id})]
    BY <1>8 DEF ReleaseMedia, Tells
  <2>2. devices' = devices \/ \E a : devices' = Clear(devices, a)
    BY <1>8 DEF ReleaseMedia
  <2>3. /\ \A d \in devices' : Attachment(d) \in told.devices
        /\ \A a \in told.devices : \E d \in devices' : Attachment(d) = a
    <3>1. CASE devices' = devices BY <3>1 DEF Accounted
    <3>2. ASSUME NEW a, devices' = Clear(devices, a)
          PROVE  /\ \A d \in devices' : Attachment(d) \in told.devices
                 /\ \A b \in told.devices : \E d \in devices' : Attachment(d) = b
      BY <3>2, ClearPlaces
    <3>3. QED BY <2>2, <3>1, <3>2
  <2>4. \A i \in told'.issued : i < next' BY <2>1 DEF Accounted, TypeOK
  <2>5. QED BY <2>1, <2>3, <2>4 DEF Accounted, IssuedInOrder, Attachment
<1>9. ASSUME NEW id \in Ids, Write(id) \/ Commit(id) \/ Rollback(id) PROVE Goal
  BY <1>9, AccountedStand DEF Write, Commit, Rollback
<1>10. ASSUME NEW id \in Ids, NEW s \in Slots, RecordAs(id, s) PROVE Goal
  BY <1>10, AccountedStand DEF RecordAs
<1>11. ASSUME NEW s \in Slots, NEW i \in Nat, AddDeviceAt(s, i) PROVE Goal
  <2> DEFINE d == Fresh(s, i)
  <2>1. /\ devices' = devices \cup {d} /\ UNCHANGED <<pool, next>>
        /\ told' = [devices |-> told.devices \cup {Attachment(d)}, media |-> told.media,
                    issued |-> told.issued \cup told.media]
    BY <1>11 DEF AddDeviceAt, Tells
  <2> HIDE DEF d
  <2>2. \A j \in told'.issued : j < next' BY <2>1 DEF Accounted, TypeOK
  <2>3. QED BY <2>1, <2>2 DEF Accounted, IssuedInOrder, Attachment
<1>12. ASSUME NEW f \in Files, NEW m \in Modes, AddDeviceFor(f, m) PROVE Goal
  <2>1. PICK src \in Found(f, m), reads \in BOOLEAN : AddFor(src, reads)
    BY <1>12 DEF AddDeviceFor
  <2> DEFINE d == Fresh(src.slot, LowestFree(src.slot))
             e == [d EXCEPT !.medium = next]
  <2>2. src \in Source BY FoundType
  <2>3. /\ Attachment(d) \in Places /\ next < MaxIds
        /\ next' \in {next, next + 1} /\ Attachment(e) = Attachment(d)
        /\ \A c \in devices : Attachment(c) # Attachment(d)
    BY <2>1 DEF AddFor, Taken, Fresh, Attachment
  <2>4. CASE reads /\ Fits(d, src)
    <3>1. /\ pool' = Pooled(src, Attachment(d)) /\ next' = next + 1
          /\ devices' = ((devices \cup {d}) \ {d}) \cup {e}
          /\ told' = [devices |-> told.devices \cup {Attachment(d)}, media |-> told.media \cup {next},
                      issued |-> told.issued \cup (told.media \cup {next})]
      BY <2>1, <2>4 DEF AddFor, Tells
    <3> HIDE DEF d, e
    <3>2. DOMAIN pool' = DOMAIN pool \cup {next} BY <2>2, <2>3, <3>1, PooledIs
    <3>3. devices' = devices \cup {e} BY <2>3, <3>1
    <3>4. \A j \in told'.issued : j < next'
      BY <3>1, BoundsAssumption DEF Accounted, TypeOK, Ids
    <3>5. QED BY <2>3, <3>1, <3>2, <3>3, <3>4 DEF Accounted, IssuedInOrder, Attachment
  <2>5. CASE ~(reads /\ Fits(d, src))
    <3>1. UNCHANGED <<pool, told>> /\ devices' = Discard(devices \cup {d}, Attachment(d))
      BY <2>1, <2>5 DEF AddFor
    <3> HIDE DEF d, e
    <3>2. devices' = devices BY <2>3, <3>1 DEF Discard
    <3>3. \A j \in told'.issued : j < next'
      BY <2>3, <3>1, BoundsAssumption DEF Accounted, TypeOK, Ids
    <3>4. QED BY <3>1, <3>2, <3>3 DEF Accounted, IssuedInOrder, Attachment
  <2>6. QED BY <2>4, <2>5
<1>13. ASSUME NEW d \in devices, Eject(d) PROVE Goal
  <2>1. DOMAIN pool' = DOMAIN pool /\ UNCHANGED <<next, told>> /\ devices' = Clear(devices, Attachment(d))
    BY <1>13 DEF Eject, Unlinked
  <2>2. /\ \A c \in devices' : Attachment(c) \in told.devices
        /\ \A a \in told.devices : \E c \in devices' : Attachment(c) = a
    BY <2>1, ClearPlaces
  <2>3. QED BY <2>1, <2>2 DEF Accounted, IssuedInOrder, Attachment
<1>14. ASSUME NEW d \in devices, ReleaseDevice(d) PROVE Goal
  <2>1. /\ DOMAIN pool' = DOMAIN pool /\ next' = next
        /\ devices' = {c \in devices : Attachment(c) # Attachment(d)}
        /\ told' = [devices |-> told.devices \ {Attachment(d)}, media |-> told.media,
                    issued |-> told.issued \cup told.media]
    BY <1>14 DEF ReleaseDevice, Unlinked, Discard, Tells
  <2>2. \A j \in told'.issued : j < next' BY <2>1 DEF Accounted, TypeOK
  <2>3. QED BY <2>1, <2>2 DEF Accounted, IssuedInOrder, Attachment
<1>15. ASSUME NEW d \in devices, NEW id \in Ids, Insert(d, id) PROVE Goal
  <2> DEFINE e == [d EXCEPT !.medium = id]
  <2>1. /\ DOMAIN pool' = DOMAIN pool /\ UNCHANGED <<next, told>>
        /\ devices' = (devices \ {d}) \cup {e} /\ Attachment(e) = Attachment(d)
    BY <1>15 DEF Insert, Attachment, Device, TypeOK
  <2> HIDE DEF e
  <2>2. QED BY <2>1 DEF Accounted, IssuedInOrder, Attachment
<1>16. UNCHANGED vars => Goal
  BY AccountedStand DEF vars
<1>17. QED
  BY <1>1, <1>2, <1>3, <1>5, <1>6, <1>7, <1>8, <1>9, <1>10, <1>11, <1>12, <1>13, <1>14, <1>15,
     <1>16, AddDeviceIsAt, AddDeviceAtIndex DEF Next, Discovery, Media, Configuration

\* A convenience that fails half way leaves neither a slot nor a medium
\* behind (pools.rs:433-437).
THEOREM NothingLeftBehindTheorem == Spec => []NothingLeftBehind
<1>1. Init => TypeOK /\ Accounted BY TypeInit, AccountedInit
<1>2. TypeOK /\ Accounted /\ [Next]_vars => (TypeOK /\ Accounted)' BY TypeStep, AccountedStep
<1>3. TypeOK /\ Accounted => NothingLeftBehind BY DEF Accounted, NothingLeftBehind
<1>4. QED BY <1>1, <1>2, <1>3, PTL DEF Spec

\* An identity kept past a release never comes to name another medium
\* (media.rs:683-688).
THEOREM IdentityTheorem == Spec => IdentityIsForLife
<1>1. Init => TypeOK /\ Accounted BY TypeInit, AccountedInit
<1>2. TypeOK /\ Accounted /\ [Next]_vars => (TypeOK /\ Accounted)' BY TypeStep, AccountedStep
<1>3. TypeOK /\ Accounted /\ [Next]_vars =>
        [\A i \in told.issued : i \notin DOMAIN pool => i \notin DOMAIN pool']_vars
  BY AccountedStep DEF Accounted, IssuedInOrder, TypeOK
<1>4. QED BY <1>1, <1>2, <1>3, PTL DEF Spec, IdentityIsForLife

-----------------------------------------------------------------------------
(* The claims, where archive files afford no writing *)

\* Effective access never exceeds the claim's lock.
Standing(src) ==
  /\ src.origin = "image" => src.file \in Images /\ (src.mode = "write" => src.claim = "write")
  /\ src.origin \in {"archive", "stored", "coded"} => src.file \in Archives /\ src.mode = "read"
  /\ src.origin \in Kinds => src.file = NoFile

Apart(s, t) == s.file = t.file /\ s.file \in Images => s.claim = "read" /\ t.claim = "read"

Claims ==
  /\ \A i \in DOMAIN pool : Standing(pool[i].src)
  /\ \A i \in DOMAIN pool : pool[i].altered => pool[i].src.mode = "write"
  /\ \A i, j \in DOMAIN pool : i # j => Apart(pool[i].src, pool[j].src)
  /\ hand # Nothing => Standing(hand) /\ \A i \in DOMAIN pool : Apart(hand, pool[i].src)

LEMMA FoundStands ==
  ASSUME ArchiveModes = {"read"}, NEW f \in Files, NEW m \in Modes, NEW src \in Found(f, m)
  PROVE  /\ Standing(src)
         /\ \A i \in DOMAIN pool : Apart(src, pool[i].src)
         /\ hand # Nothing => Apart(hand, src)
<1>1. CASE f \in Images
  <2>1. PICK a \in {"read", m} :
          src = [origin |-> "image", file |-> f, claim |-> m, mode |-> a, slot |-> Asserted(f)]
    BY <1>1 DEF Found
  <2>2. CanOpen(f, m) BY <1>1 DEF Found
  <2>3. Standing(src) BY <1>1, <2>1 DEF Standing, Kinds, Modes
  <2>4. \A i \in DOMAIN pool : Apart(src, pool[i].src)
    BY <2>1, <2>2 DEF Apart, CanOpen, Riders
  <2>5. hand # Nothing => Apart(hand, src)
    BY <2>1, <2>2 DEF Apart, CanOpen, InHand
  <2>6. QED BY <2>3, <2>4, <2>5
<1>2. CASE f \notin Images
  <2>1. src = [origin |-> "archive", file |-> f, claim |-> "write", mode |-> "read", slot |-> ArchiveSlot]
    BY <1>2 DEF Found
  <2>2. QED BY <1>2, <2>1 DEF Standing, Apart, Files, Kinds
<1>3. QED BY <1>1, <1>2

\* Recordings, links and what is altered may change; the claims do not.
LEMMA ClaimsStand ==
  ASSUME Claims, hand' = hand, DOMAIN pool' \subseteq DOMAIN pool,
         \A i \in DOMAIN pool' :
           /\ pool'[i].altered => (pool[i].altered \/ pool[i].src.mode = "write")
           /\ pool'[i].src.origin = pool[i].src.origin /\ pool'[i].src.file = pool[i].src.file
           /\ pool'[i].src.claim = pool[i].src.claim /\ pool'[i].src.mode = pool[i].src.mode
  PROVE  Claims'
BY DEF Claims, Standing, Apart

LEMMA ClaimsPooled ==
  ASSUME TypeOK, Claims, next < MaxIds, NEW src \in Source, NEW link \in Places \cup {NoLink},
         pool' = Pooled(src, link), Standing(src),
         \A i \in DOMAIN pool : Apart(src, pool[i].src),
         hand' = Nothing \/ (hand' = hand /\ (hand # Nothing => Apart(hand, src)))
  PROVE  Claims'
<1>1. /\ DOMAIN pool' = DOMAIN pool \cup {next} /\ next \notin DOMAIN pool
      /\ pool'[next] = [src |-> src, link |-> link, altered |-> FALSE]
      /\ \A i \in DOMAIN pool : pool'[i] = pool[i]
  BY PooledIs
<1>2. \A i \in DOMAIN pool' : Standing(pool'[i].src) BY <1>1 DEF Claims
<1>3. \A i \in DOMAIN pool' : pool'[i].altered => pool'[i].src.mode = "write" BY <1>1 DEF Claims
<1>4. \A i, j \in DOMAIN pool' : i # j => Apart(pool'[i].src, pool'[j].src)
  <2>1. \A i \in DOMAIN pool : Apart(pool[i].src, src) BY DEF Apart
  <2>2. QED BY <1>1, <2>1 DEF Claims
<1>5. hand' # Nothing => Standing(hand') /\ \A i \in DOMAIN pool' : Apart(hand', pool'[i].src)
  BY <1>1 DEF Claims
<1>6. QED BY <1>2, <1>3, <1>4, <1>5 DEF Claims, Standing, Apart

LEMMA ClaimsLoad ==
  ASSUME TypeOK, Claims, hand # Nothing, NEW s \in Slots \cup {NoSlot}, hand \in Source,
         Load([hand EXCEPT !.slot = s])
  PROVE  Claims'
<1> DEFINE src == [hand EXCEPT !.slot = s]
<1>1. src \in Source /\ Standing(src) /\ \A i \in DOMAIN pool : Apart(src, pool[i].src)
  BY DEF Source, Claims, Standing, Apart
<1> HIDE DEF src
<1>2. Load(src) BY DEF src
<1>3. CASE Admit(src)
  <2>1. next < MaxIds /\ pool' = Pooled(src, NoLink) /\ hand' = Nothing
    BY <1>2, <1>3 DEF Admit, Load
  <2>2. NoLink \in Places \cup {NoLink} OBVIOUS
  <2>3. hand' = Nothing \/ (hand' = hand /\ (hand # Nothing => Apart(hand, src))) BY <2>1
  <2>4. Standing(src) /\ src \in Source /\ \A i \in DOMAIN pool : Apart(src, pool[i].src) BY <1>1
  <2>5. QED BY <2>1, <2>2, <2>3, <2>4, ClaimsPooled
<1>4. CASE pool' = pool
  BY <1>2, <1>4 DEF Load, Claims, Standing, Apart
<1>5. QED BY <1>2, <1>3, <1>4 DEF Load

LEMMA ClaimsInit == Init => Claims
BY DEF Init, Claims

LEMMA ClaimsStep ==
  ASSUME ArchiveModes = {"read"}
  PROVE  TypeOK /\ Claims /\ [Next]_vars => Claims'
<1> SUFFICES ASSUME TypeOK, Claims, [Next]_vars PROVE Claims'
  OBVIOUS
<1>1. ASSUME NEW f \in Files, NEW m \in Modes, Discover(f, m) PROVE Claims'
  BY <1>1, FoundStands DEF Discover, Claims, Standing, Apart
<1>2. ASSUME NEW id \in Ids, NEW o \in {"stored", "coded"}, TakeEntry(id, o) PROVE Claims'
  <2> DEFINE archive == pool[id].src
  <2>1. /\ id \in DOMAIN pool /\ archive.origin = "archive" /\ archive \in Source
        /\ Standing(archive) /\ archive.file \notin Images
    BY <1>2, NamesAssumption DEF TakeEntry, Claims, TypeOK, Medium, Standing
  <2>2. PICK m \in {"read", archive.mode} :
          hand' = [archive EXCEPT !.origin = o, !.mode = m, !.slot = Asserted(archive.file)]
    BY <1>2 DEF TakeEntry
  <2>3. pool' = pool BY <1>2 DEF TakeEntry
  <2> HIDE DEF archive
  <2>4. /\ hand'.origin = o /\ hand'.file = archive.file /\ hand'.mode = "read"
    BY <2>1, <2>2 DEF Source, Standing
  <2>5. Standing(hand') BY <2>1, <2>4 DEF Standing, Kinds
  <2>6. \A i \in DOMAIN pool : Apart(hand', pool[i].src) BY <2>1, <2>4 DEF Apart
  <2>7. QED BY <2>3, <2>5, <2>6 DEF Claims, Standing, Apart
<1>3. Drop => Claims'
  BY DEF Drop, Claims, Standing, Apart
<1>4. LoadDiscovery => Claims'
  <2> SUFFICES ASSUME LoadDiscovery PROVE Claims' OBVIOUS
  <2>1. hand # Nothing /\ hand \in Source /\ Load(hand) BY DEF LoadDiscovery, TypeOK
  <2>2. hand.slot \in Slots \cup {NoSlot} /\ [hand EXCEPT !.slot = hand.slot] = hand
    BY <2>1 DEF Source
  <2>3. QED BY <2>1, <2>2, ClaimsLoad
<1>5. ASSUME NEW s \in Slots, LoadDiscoveryAs(s) PROVE Claims'
  BY <1>5, ClaimsLoad DEF LoadDiscoveryAs, TypeOK
<1>6. ASSUME NEW k \in Kinds, NewMedia(k) PROVE Claims'
  <2> DEFINE src == [origin |-> k, file |-> NoFile, claim |-> "read", mode |-> "write", slot |-> NoSlot]
  <2>1. src \in Source /\ Standing(src) BY DEF Source, Modes, Standing, Kinds
  <2>2. \A t : Apart(src, t) /\ Apart(t, src) BY NamesAssumption DEF Apart, Files
  <2>3. next < MaxIds /\ pool' = Pooled(src, NoLink) /\ hand' = hand BY <1>6 DEF NewMedia, Admit
  <2>4. NoLink \in Places \cup {NoLink} OBVIOUS
  <2> HIDE DEF src
  <2>5. QED BY <2>1, <2>2, <2>3, <2>4, ClaimsPooled
<1>7. ASSUME NEW id \in Ids, ReleaseMedia(id) PROVE Claims'
  BY <1>7, ClaimsStand DEF ReleaseMedia
<1>8. ASSUME NEW id \in Ids, Write(id) PROVE Claims'
  BY <1>8, ClaimsStand DEF Write, TypeOK, Medium
<1>9. ASSUME NEW id \in Ids, Commit(id) PROVE Claims'
  BY <1>9, ClaimsStand DEF Commit, TypeOK, Medium
<1>10. ASSUME NEW id \in Ids, Rollback(id) PROVE Claims'
  BY <1>10, ClaimsStand DEF Rollback, TypeOK, Medium
<1>11. ASSUME NEW id \in Ids, NEW s \in Slots, RecordAs(id, s) PROVE Claims'
  BY <1>11, ClaimsStand DEF RecordAs, TypeOK, Medium, Source
<1>12. ASSUME NEW s \in Slots, NEW i \in Nat, AddDeviceAt(s, i) PROVE Claims'
  BY <1>12, ClaimsStand DEF AddDeviceAt
<1>13. ASSUME NEW f \in Files, NEW m \in Modes, AddDeviceFor(f, m) PROVE Claims'
  <2>1. PICK src \in Found(f, m), reads \in BOOLEAN : AddFor(src, reads)
    BY <1>13 DEF AddDeviceFor
  <2> DEFINE d == Fresh(src.slot, LowestFree(src.slot))
  <2>2. src \in Source BY FoundType
  <2>3. next < MaxIds /\ hand' = hand /\ Attachment(d) \in Places \cup {NoLink} BY <2>1 DEF AddFor
  <2>4. pool' = pool \/ pool' = Pooled(src, Attachment(d)) BY <2>1 DEF AddFor
  <2> HIDE DEF d
  <2>5. CASE pool' = pool BY <2>3, <2>5, ClaimsStand
  <2>6. CASE pool' = Pooled(src, Attachment(d))
    BY <2>2, <2>3, <2>6, FoundStands, ClaimsPooled
  <2>7. QED BY <2>4, <2>5, <2>6
<1>14. ASSUME NEW d \in devices, Eject(d) PROVE Claims'
  BY <1>14, ClaimsStand DEF Eject, Unlinked, TypeOK, Medium
<1>15. ASSUME NEW d \in devices, ReleaseDevice(d) PROVE Claims'
  BY <1>15, ClaimsStand DEF ReleaseDevice, Unlinked, TypeOK, Medium
<1>16. ASSUME NEW d \in devices, NEW id \in Ids, Insert(d, id) PROVE Claims'
  BY <1>16, ClaimsStand DEF Insert, TypeOK, Medium
<1>17. UNCHANGED vars => Claims'
  BY ClaimsStand DEF vars
<1>18. QED
  BY <1>1, <1>2, <1>3, <1>4, <1>5, <1>6, <1>7, <1>8, <1>9, <1>10, <1>11, <1>12, <1>13, <1>14,
     <1>15, <1>16, <1>17, AddDeviceIsAt, AddDeviceAtIndex DEF Next, Discovery, Media, Configuration

\* Only a commit moves a file's bytes.
LEMMA BytesStand == [Next]_vars => bytes' = bytes \/ \E id \in Ids : Commit(id)
<1> SUFFICES ASSUME [Next]_vars, \A id \in Ids : ~Commit(id) PROVE bytes' = bytes
  OBVIOUS
<1>1. Discovery => bytes' = bytes BY DEF Discovery, Discover, TakeEntry, Drop
<1>2. Media => bytes' = bytes
  BY DEF Media, LoadDiscovery, LoadDiscoveryAs, Load, NewMedia, ReleaseMedia, Write, Rollback, RecordAs
<1>3. Configuration => bytes' = bytes
  BY DEF Configuration, AddDevice, AddDeviceAt, AddDeviceFor, AddFor, Eject, ReleaseDevice, Insert
<1>4. QED BY <1>1, <1>2, <1>3 DEF Next, vars

LEMMA CommitIsOwn ==
  ASSUME TypeOK, Claims, NEW id \in Ids, Commit(id), NEW f \in Files, bytes'[f] # bytes[f]
  PROVE  ~InHand(f) /\ Riders(f) = {id} /\ pool[id].altered
<1>1. /\ id \in DOMAIN pool /\ pool[id].altered
      /\ InFile(pool[id].src) /\ pool[id].src.file = f
  BY DEF Commit, TypeOK
<1>2. pool[id].src.origin = "image" /\ f \in Images /\ pool[id].src.claim = "write"
  BY <1>1 DEF Claims, Standing, InFile
<1>3. ~InHand(f) BY <1>1, <1>2 DEF Claims, Apart, InHand
<1>4. \A i \in DOMAIN pool : pool[i].src.file = f => i = id
  BY <1>1, <1>2 DEF Claims, Apart
<1>5. QED BY <1>1, <1>3, <1>4 DEF Riders

\* Where archive files afford no writing, the bytes a medium or a discovery
\* stands on move only when the one medium over them commits what it altered.
THEOREM BytesTheorem ==
  ASSUME ArchiveModes = {"read"}
  PROVE  Spec => BytesMoveByOwnCommit
<1>1. Init => TypeOK /\ Claims BY TypeInit, ClaimsInit
<1>2. TypeOK /\ Claims /\ [Next]_vars => (TypeOK /\ Claims)' BY TypeStep, ClaimsStep
<1>3. TypeOK /\ Claims /\ [Next]_vars =>
        [\A f \in Files : bytes'[f] # bytes[f] =>
           ~InHand(f) /\ \E i \in DOMAIN pool : Riders(f) = {i} /\ pool[i].altered]_vars
  <2> SUFFICES ASSUME TypeOK, Claims, [Next]_vars, NEW f \in Files, bytes'[f] # bytes[f]
               PROVE  ~InHand(f) /\ \E i \in DOMAIN pool : Riders(f) = {i} /\ pool[i].altered
    OBVIOUS
  <2>1. PICK id \in Ids : Commit(id) BY BytesStand
  <2>2. id \in DOMAIN pool BY <2>1 DEF Commit
  <2>3. QED BY <2>1, <2>2, CommitIsOwn
<1>4. QED BY <1>1, <1>2, <1>3, PTL DEF Spec, BytesMoveByOwnCommit
=============================================================================
