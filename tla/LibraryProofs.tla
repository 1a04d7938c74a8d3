--------------------------- MODULE LibraryProofs ---------------------------
(***************************************************************************)
(* The proofs of five components of the library that keep no state of      *)
(* each other's: the handles of the bindings (Handles), the partition      *)
(* table's walk (PartitionTable), the raw plane (RawPlane), the coverage   *)
(* account (Coverage) and FAT volumes (FatVolume).  Each part proves its   *)
(* module's IInv, TableIInv, PlaneIInv, CoverIInv or FatIInv, the          *)
(* inductive invariant stated there, and from it the safety property.      *)
(***************************************************************************)
EXTENDS Handles, PartitionTable, RawPlane, Coverage, FatVolume, FiniteSetTheorems,
        SequenceTheorems, WellFoundedInduction, TLAPS

-----------------------------------------------------------------------------
(* The handles of the bindings *)

\* The identity a load is given names no medium, and no handle of this session
\* has it: the handles there are go on naming what they named.
LEMMA AdmitFacts ==
  ASSUME NEW life, PoolOK, HandlesOK, SlotsOK, Admit(life), session' = session
  PROVE  /\ PoolOK'
         /\ next' = next + 1 /\ pool'[next] = life
         /\ DOMAIN pool' = DOMAIN pool \cup {next}
         /\ \A h \in handles : h.kind = "medium" /\ h.session = session => NamesItsOwn(h)'
<1>1. next \notin DOMAIN pool
  BY DEF PoolOK
<1>2. DOMAIN pool' = DOMAIN pool \cup {next}
  BY DEF Admit, With
<1>3. pool'[next] = life /\ \A id \in DOMAIN pool : pool'[id] = pool[id]
  BY <1>1 DEF Admit, With
<1>4. PoolOK' /\ next' = next + 1
  BY <1>2 DEF PoolOK, Admit
<1>5. ASSUME NEW h \in handles, h.kind = "medium", h.session = session
      PROVE  NamesItsOwn(h)'
  <2>1. NamesItsOwn(h)
    BY <1>5 DEF HandlesOK
  <2>2. h.name # next
    BY <2>1 DEF NamesItsOwn, PoolOK
  <2> QED
    BY <1>2, <1>3, <1>4, <2>1, <2>2 DEF NamesItsOwn, PoolOK
<1> QED
  BY <1>2, <1>3, <1>4, <1>5

\* A handle given out now for a medium of the pool names its own.
LEMMA GivenOut ==
  ASSUME PoolOK, HandlesOK, NEW id \in DOMAIN pool,
         handles' = handles \cup {MediumHandle(id, pool[id])},
         UNCHANGED <<pool, next, session>>
  PROVE  HandlesOK'
BY DEF PoolOK, HandlesOK, NamesItsOwn, MediumHandle

\* The discovery a found one is numbered by is no discovery yet.
LEMMA NextFound ==
  ASSUME FoundOK
  PROVE  \E n \in Nat : DOMAIN found = 1 .. n /\ Cardinality(DOMAIN found) = n
<1> PICK n \in Nat : DOMAIN found = 1 .. n
  BY DEF FoundOK
<1>1. Cardinality(1 .. n) = n
  BY FS_Interval
<1> QED
  BY <1>1

\* A load gives a medium a life no discovery was loaded into, from a
\* discovery nothing was loaded from, or from none.
LEMMA LoadsFacts ==
  ASSUME MaxLives \in Nat, PoolOK, LoadedOK, HandlesOK, SlotsOK, NEW from, Loads(from),
         from # 0 => /\ from \in DOMAIN found'
                     /\ found'[from] = "taken"
                     /\ \A k \in 1 .. MaxLives : loaded[k] # from,
         \A d \in DOMAIN found : found[d] = "taken" => d \in DOMAIN found' /\ found'[d] = "taken",
         UNCHANGED <<session, devices>>
  PROVE  PoolOK' /\ LoadedOK' /\ HandlesOK' /\ SlotsOK'
<1>1. Admit(lives')
  BY DEF Loads
<1>2. /\ PoolOK' /\ next' = next + 1 /\ pool'[next] = lives'
      /\ DOMAIN pool' = DOMAIN pool \cup {next}
      /\ \A h \in handles : h.kind = "medium" /\ h.session = session => NamesItsOwn(h)'
  BY <1>1, AdmitFacts
<1>3. HandlesOK'
  BY <1>2 DEF HandlesOK, NamesItsOwn, PoolOK, Loads, MediumHandle
<1>4. SlotsOK'
  BY <1>2 DEF SlotsOK
<1>5. lives' = lives + 1 /\ lives' \in 1 .. MaxLives
  BY DEF Loads, LoadedOK
<1>6. loaded' = [loaded EXCEPT ![lives'] = from]
  BY DEF Loads
<1>7. \A k \in 1 .. MaxLives : loaded'[k] = IF k = lives' THEN from ELSE loaded[k]
  BY <1>5, <1>6 DEF LoadedOK
<1>8. loaded' = [l \in 1 .. MaxLives |-> loaded'[l]]
  BY <1>5, <1>6 DEF LoadedOK
<1>9. LoadedOK'
  BY <1>5, <1>7, <1>8 DEF LoadedOK
<1> QED
  BY <1>2, <1>3, <1>4, <1>9

\* Every action keeps the invariant.
LEMMA StepHandles ==
  ASSUME MaxLives \in Nat, IInv, Next
  PROVE  IInv'
<1> USE DEF IInv
<1>1. CASE DiscoverMedia
  <2> PICK n \in Nat : DOMAIN found = 1 .. n /\ Cardinality(DOMAIN found) = n
    BY NextFound
  <2>1. found' = With(found, n + 1, "held")
    BY <1>1 DEF DiscoverMedia
  <2>2. DOMAIN found' = 1 .. n + 1 /\ \A d \in DOMAIN found : found'[d] = found[d]
    BY <2>1 DEF With
  <2>3. FoundOK'
    BY <2>2 DEF FoundOK
  <2>4. LoadedOK'
    BY <1>1, <2>2 DEF LoadedOK, DiscoverMedia
  <2> QED
    BY <1>1, <2>3, <2>4 DEF DiscoverMedia, PoolOK, HandlesOK, NamesItsOwn, SlotsOK
<1>2. CASE LoadMedia
  <2>1. Loads(0) /\ UNCHANGED <<devices, found, session>>
    BY <1>2 DEF LoadMedia
  <2>2. PoolOK' /\ LoadedOK' /\ HandlesOK' /\ SlotsOK'
    BY <2>1, LoadsFacts
  <2> QED
    BY <2>1, <2>2 DEF FoundOK
<1>3. CASE AddDeviceFor
  <2> DEFINE free == Attachments \ DOMAIN devices
             at   == CHOOSE s \in free : \A t \in free : s <= t
  <2>1. /\ lives + 2 <= MaxLives /\ lives' = lives + 2
        /\ Admit(lives + 1)
        /\ loaded' = [loaded EXCEPT ![lives + 1] = 0]
        /\ devices' = With(devices, at, [life |-> lives + 2, medium |-> next])
        /\ handles' = handles \cup {DeviceHandle(at, lives + 2)}
        /\ UNCHANGED <<found, session>>
    BY <1>3 DEF AddDeviceFor
  <2> HIDE DEF at
  <2>2. /\ PoolOK' /\ DOMAIN pool' = DOMAIN pool \cup {next}
        /\ \A h \in handles : h.kind = "medium" /\ h.session = session => NamesItsOwn(h)'
    BY <2>1, AdmitFacts
  <2>3. HandlesOK'
    BY <2>1, <2>2 DEF HandlesOK, DeviceHandle
  <2>4. SlotsOK'
    BY <2>1, <2>2 DEF SlotsOK, With
  <2>5. LoadedOK'
    <3>1. \A k \in 1 .. MaxLives : loaded'[k] = IF k = lives + 1 THEN 0 ELSE loaded[k]
      BY <2>1 DEF LoadedOK
    <3>2. loaded' = [l \in 1 .. MaxLives |-> loaded'[l]]
      BY <2>1 DEF LoadedOK
    <3> QED
      BY <2>1, <3>1, <3>2 DEF LoadedOK
  <2> QED
    BY <2>1, <2>2, <2>3, <2>4, <2>5 DEF FoundOK
<1>4. CASE Exit
  <2>1. session' = session + 1 /\ pool' = [x \in {} |-> 0] /\ devices' = [x \in {} |-> 0]
        /\ next' = 0 /\ UNCHANGED <<found, handles, lives, loaded>>
    BY <1>4 DEF Exit
  <2>2. HandlesOK'
    BY <2>1 DEF HandlesOK
  <2> QED
    BY <2>1, <2>2 DEF PoolOK, FoundOK, LoadedOK, SlotsOK
<1>5. CASE \E d \in 1 .. MaxFound : LoadDiscovery(d)
  <2> PICK d \in 1 .. MaxFound : LoadDiscovery(d)
    BY <1>5
  <2>1. Held(d) /\ Take(d) /\ (Loads(d) \/ Refused) /\ UNCHANGED <<devices, session>>
    BY DEF LoadDiscovery
  <2>2. /\ DOMAIN found' = DOMAIN found /\ d \in DOMAIN found /\ found[d] = "held"
        /\ \A e \in DOMAIN found : found'[e] = IF e = d THEN "taken" ELSE found[e]
    BY <2>1 DEF Take, Held
  <2>3. FoundOK'
    BY <2>2 DEF FoundOK
  <2>4. \A k \in 1 .. MaxLives : loaded[k] # 0 => loaded[k] # d
    BY <2>2 DEF LoadedOK
  <2>5. \A k \in 1 .. MaxLives : d # 0 => loaded[k] # d
    BY <2>4
  <2>6. CASE Loads(d)
    BY <2>1, <2>2, <2>3, <2>5, <2>6, LoadsFacts
  <2>7. CASE Refused
    <3>1. LoadedOK'
      BY <2>2, <2>7 DEF Refused, LoadedOK
    <3> QED
      BY <2>1, <2>3, <2>7, <3>1 DEF Refused, PoolOK, HandlesOK, NamesItsOwn, SlotsOK
  <2> QED
    BY <2>1, <2>6, <2>7
<1>6. CASE \E id \in DOMAIN pool : Medium(id)
  <2> PICK id \in DOMAIN pool : Medium(id)
    BY <1>6
  <2>1. /\ handles' = handles \cup {MediumHandle(id, pool[id])}
        /\ UNCHANGED <<pool, next, devices, found, session, lives, loaded>>
    BY DEF Medium
  <2>2. HandlesOK'
    BY <2>1, GivenOut
  <2> QED
    BY <2>1, <2>2 DEF PoolOK, FoundOK, LoadedOK, SlotsOK
<1>7. CASE \E id \in DOMAIN pool : ReleaseMedia(id)
  <2> PICK id \in DOMAIN pool : ReleaseMedia(id)
    BY <1>7
  <2>1. /\ pool' = Without(pool, id)
        /\ devices' = [at \in DOMAIN devices |->
                         IF devices[at].medium = id
                         THEN [devices[at] EXCEPT !.medium = NoMedium] ELSE devices[at]]
        /\ UNCHANGED <<next, found, handles, session, lives, loaded>>
    BY DEF ReleaseMedia
  <2>2. DOMAIN pool' = DOMAIN pool \ {id} /\ \A m \in DOMAIN pool \ {id} : pool'[m] = pool[m]
    BY <2>1 DEF Without
  <2>3. HandlesOK'
    BY <2>1, <2>2 DEF HandlesOK, NamesItsOwn
  <2>4. SlotsOK'
    <3> SUFFICES ASSUME NEW at \in DOMAIN devices
                 PROVE  devices'[at].medium \in DOMAIN pool' \cup {NoMedium}
      BY <2>1 DEF SlotsOK
    <3>1. CASE devices[at].medium = id
      <4>1. devices'[at] = [devices[at] EXCEPT !.medium = NoMedium]
        BY <2>1, <3>1
      <4> QED
        BY <4>1
    <3>2. CASE devices[at].medium # id
      BY <2>1, <2>2, <3>2 DEF SlotsOK
    <3> QED
      BY <3>1, <3>2
  <2> QED
    BY <2>1, <2>2, <2>3, <2>4 DEF PoolOK, FoundOK, LoadedOK
<1>8. CASE \E at \in Attachments : Device(at)
  BY <1>8 DEF Device, DeviceHandle, HandlesOK, NamesItsOwn, PoolOK, FoundOK, LoadedOK, SlotsOK
<1>9. CASE \E at \in Attachments : ReleaseDevice(at)
  BY <1>9 DEF ReleaseDevice, Without, HandlesOK, NamesItsOwn, PoolOK, FoundOK, LoadedOK, SlotsOK
<1>10. CASE \E h \in handles : MediumIn(h)
  <2> PICK h \in handles : MediumIn(h)
    BY <1>10
  <2>1. /\ devices[h.name].medium \in DOMAIN pool
        /\ handles' = handles \cup {MediumHandle(devices[h.name].medium,
                                                 pool[devices[h.name].medium])}
        /\ UNCHANGED <<pool, next, devices, found, session, lives, loaded>>
    BY DEF MediumIn, Present, SlotsOK
  <2>2. HandlesOK'
    BY <2>1, GivenOut
  <2> QED
    BY <2>1, <2>2 DEF PoolOK, FoundOK, LoadedOK, SlotsOK
<1>11. CASE \E h \in handles : Eject(h)
  <2> PICK h \in handles : Eject(h)
    BY <1>11
  <2>1. /\ devices' = [devices EXCEPT ![h.name].medium = NoMedium]
        /\ UNCHANGED <<pool, next, found, handles, session, lives, loaded>>
    BY DEF Eject
  <2>2. SlotsOK'
    BY <2>1 DEF SlotsOK
  <2> QED
    BY <2>1, <2>2 DEF PoolOK, FoundOK, LoadedOK, HandlesOK, NamesItsOwn
<1>12. CASE \E h \in handles : \E id \in DOMAIN pool : Insert(h, id)
  <2> PICK h \in handles, id \in DOMAIN pool : Insert(h, id)
    BY <1>12
  <2>1. /\ devices' = [devices EXCEPT ![h.name].medium = id]
        /\ UNCHANGED <<pool, next, found, handles, session, lives, loaded>>
    BY DEF Insert
  <2>2. SlotsOK'
    BY <2>1 DEF SlotsOK
  <2> QED
    BY <2>1, <2>2 DEF PoolOK, FoundOK, LoadedOK, HandlesOK, NamesItsOwn
<1> QED
  BY <1>1, <1>2, <1>3, <1>4, <1>5, <1>6, <1>7, <1>8, <1>9, <1>10, <1>11, <1>12 DEF Next

\* However long a handle is kept and whatever is released meanwhile, within
\* its session it answers for the medium it was given for or refuses; no
\* discovery makes two media; and a slot names a medium of the pool.
THEOREM HandlesTheorem ==
  ASSUME MaxLives \in Nat
  PROVE  Spec => []NoStrangers
<1>1. Init => IInv
  <2> SUFFICES ASSUME Init PROVE IInv
    OBVIOUS
  <2>1. FoundOK
    <3>1. DOMAIN found = 1 .. 0
      BY DEF Init
    <3> QED
      BY <3>1 DEF FoundOK
  <2> QED
    BY <2>1 DEF Init, IInv, PoolOK, LoadedOK, HandlesOK, SlotsOK
<1>2. IInv /\ [Next]_handleVars => IInv'
  <2>1. CASE Next
    BY <2>1, StepHandles
  <2>2. CASE UNCHANGED handleVars
    BY <2>2 DEF handleVars, IInv, PoolOK, FoundOK, LoadedOK, HandlesOK, NamesItsOwn, SlotsOK
  <2> QED
    BY <2>1, <2>2
<1>3. IInv => NoStrangers
  <2> SUFFICES ASSUME IInv PROVE NoStrangers
    OBVIOUS
  <2>1. \A h \in handles :
          h.kind = "medium" /\ h.session = session => Resolve(h) \in {0, h.life}
    BY DEF IInv, HandlesOK, NamesItsOwn, Resolve
  <2>2. \A k, l \in 1 .. lives : loaded[k] # 0 /\ loaded[k] = loaded[l] => k = l
    BY DEF IInv, LoadedOK
  <2> QED
    BY <2>1, <2>2 DEF NoStrangers, IInv, SlotsOK
<1> QED
  BY <1>1, <1>2, <1>3, PTL DEF Spec

-----------------------------------------------------------------------------
(* Least elements, by which what a loop computes is proved to exist *)

\* A nonempty set of natural numbers has a least one.
LEMMA LeastNat ==
  ASSUME NEW T \in SUBSET Nat, T # {}
  PROVE  \E m \in T : \A n \in T : m <= n
<1> DEFINE Less == {ss \in Nat \X Nat : ss[1] < ss[2]}
<1>1. IsWellFoundedOn(Less, Nat) BY NatLessThanWellFounded, Zenon DEF OpToRel
<1> HIDE DEF Less
<1>2. PICK m \in T : \A n \in T : ~(<<n, m>> \in Less)
  BY <1>1, WFMin, Zenon
<1>3. \A n \in T : ~(n < m)
  <2>1. SUFFICES ASSUME NEW n \in T, n < m PROVE FALSE OBVIOUS
  <2>2. <<n, m>> \in Less BY <2>1 DEF Less
  <2>3. QED BY <1>2, <2>2
<1>4. m \in Nat /\ \A n \in T : n \in Nat OBVIOUS
<1>5. QED BY <1>3, <1>4

-----------------------------------------------------------------------------
(* The partition table *)

\* The loop over the slots, as a function of how far it has come.
Kept(s, f, m) ==
  f = [n \in 0 .. m |->
         IF n = 0 THEN <<>>
         ELSE IF s[n].type = Empty THEN f[n - 1] ELSE Append(f[n - 1], s[n])]

\* The loop over a table's slots comes to a result however many slots there are.
LEMMA KeptExists ==
  ASSUME NEW s
  PROVE  \A m \in Nat : \E f : Kept(s, f, m)
<1> DEFINE T == {m \in Nat : ~\E f : Kept(s, f, m)}
<1>1. SUFFICES ASSUME T # {} PROVE FALSE
  OBVIOUS
<1>2. PICK m \in T : \A n \in T : m <= n
  BY <1>1, LeastNat
<1>3. m \in Nat /\ ~\E f : Kept(s, f, m)
  BY <1>2
<1>4. CASE m = 0
  <2>1. Kept(s, [n \in 0 .. 0 |-> <<>>], 0)
    BY DEF Kept
  <2> QED BY <2>1, <1>3, <1>4
<1>5. CASE m # 0
  <2>1. m - 1 \in Nat /\ m - 1 \notin T
    BY <1>2, <1>3, <1>5
  <2>2. PICK f : Kept(s, f, m - 1)
    BY <2>1
  <2> DEFINE g == [n \in 0 .. m |->
                     IF n < m THEN f[n]
                     ELSE IF s[m].type = Empty THEN f[m - 1] ELSE Append(f[m - 1], s[m])]
  <2>3. \A n \in 0 .. m - 1 :
          f[n] = IF n = 0 THEN <<>>
                 ELSE IF s[n].type = Empty THEN f[n - 1] ELSE Append(f[n - 1], s[n])
    BY <2>2, Zenon DEF Kept
  <2>4. \A n \in 0 .. m :
          g[n] = IF n = 0 THEN <<>>
                 ELSE IF s[n].type = Empty THEN g[n - 1] ELSE Append(g[n - 1], s[n])
    <3> TAKE n \in 0 .. m
    <3>1. CASE n = m
      <4>1. g[n] = IF s[n].type = Empty THEN f[n - 1] ELSE Append(f[n - 1], s[n])
        BY <3>1, <1>3
      <4>2. n # 0 /\ g[n - 1] = f[n - 1]
        BY <3>1, <1>3, <1>5
      <4> QED BY <4>1, <4>2
    <3>2. CASE n # m
      <4>1. n \in 0 .. m - 1 /\ g[n] = f[n]
        BY <3>2, <1>3
      <4>2. n # 0 => g[n - 1] = f[n - 1]
        BY <4>1, <1>3
      <4> QED BY <4>1, <4>2, <2>3
    <3> QED BY <3>1, <3>2
  <2>5. g = [n \in 0 .. m |->
               IF n = 0 THEN <<>>
               ELSE IF s[n].type = Empty THEN g[n - 1] ELSE Append(g[n - 1], s[n])]
    BY <2>4, Zenon
  <2>6. Kept(s, g, m)
    BY <2>5 DEF Kept
  <2> QED BY <2>6, <1>3
<1> QED BY <1>3, <1>4, <1>5

\* The slots the loop keeps are entries of the table.
LEMMA KeptType ==
  ASSUME NEW s \in Seq(Entries), NEW f, Kept(s, f, Len(s))
  PROVE  f[Len(s)] \in Seq(Entries)
<1> DEFINE T == {m \in 0 .. Len(s) : f[m] \notin Seq(Entries)}
<1>1. SUFFICES ASSUME T # {} PROVE FALSE
  OBVIOUS
<1>2. PICK m \in T : \A n \in T : m <= n
  <2>1. T \in SUBSET Nat
    OBVIOUS
  <2> QED BY <1>1, <2>1, LeastNat
<1>3. m \in 0 .. Len(s) /\ f[m] \notin Seq(Entries)
  BY <1>2
<1>4. f[m] = IF m = 0 THEN <<>>
             ELSE IF s[m].type = Empty THEN f[m - 1] ELSE Append(f[m - 1], s[m])
  <2>1. \A n \in 0 .. Len(s) :
          f[n] = IF n = 0 THEN <<>>
                 ELSE IF s[n].type = Empty THEN f[n - 1] ELSE Append(f[n - 1], s[n])
    BY Zenon DEF Kept
  <2> QED BY <1>3, <2>1, Zenon
<1>5. CASE m = 0
  BY <1>3, <1>4, <1>5
<1>6. CASE m # 0
  <2>1. m - 1 \in 0 .. Len(s) /\ m - 1 \notin T
    BY <1>2, <1>3, <1>6
  <2>2. f[m - 1] \in Seq(Entries)
    BY <2>1
  <2>3. s[m] \in Entries
    BY <1>3, <1>6
  <2> QED BY <1>3, <1>4, <1>6, <2>2, <2>3
<1> QED BY <1>5, <1>6

\* What sector 0 declares is a sequence of entries.
LEMMA DeclaredType ==
  ASSUME disk \in Disks
  PROVE  Declared \in Seq(Entries)
<1>1. Slots \in Seq(Entries)
  <2>1. disk \in Seq(Sectors)
    BY TableAssumption
  <2>2. CASE Leading = "table"
    <3>1. Readable(0)
      BY <2>2 DEF Leading
    <3>2. Sector(0) \in Sectors
      BY <2>1, <3>1 DEF Readable, Sector
    <3> QED BY <2>2, <3>2 DEF Slots, Sectors
  <2> QED BY <2>2 DEF Slots
<1> DEFINE f == CHOOSE f : Kept(Slots, f, Len(Slots))
<1>2. Declared = f[Len(Slots)]
  BY DEF Declared, Kept
<1>3. Kept(Slots, f, Len(Slots))
  <2>1. Len(Slots) \in Nat
    BY <1>1
  <2> QED BY <2>1, KeptExists
<1> HIDE DEF f
<1> QED BY <1>1, <1>2, <1>3, KeptType

\* The first extended slot is one, it starts the chain, and its row starts out
\* clean.
LEMMA FirstFact ==
  ASSUME Declared \in Seq(Entries), ExtendedAmong(Declared) # {}
  PROVE  /\ First \in 1 .. Len(Declared) /\ Declared[First].type = Extended
         /\ Base \in Nat /\ Primary(First).issue = "none"
<1> DEFINE E == ExtendedAmong(Declared)
<1>1. E \in SUBSET Nat
  BY DEF ExtendedAmong
<1>2. PICK m \in E : \A n \in E : m <= n
  BY <1>1, LeastNat
<1>3. First \in E
  BY <1>2 DEF First, FirstExtended
<1>4. First \in 1 .. Len(Declared) /\ Declared[First].type = Extended
  BY <1>3 DEF ExtendedAmong
<1>5. Base \in Nat
  <2>1. Declared[First] \in Entries
    BY <1>4
  <2> QED BY <2>1 DEF Base, Entries
<1>6. Primary(First).issue = "none"
  BY <1>4 DEF Primary, Row, First, Pinned, Extended, Data
<1> QED BY <1>4, <1>5, <1>6

\* A boot record that can be read has the two slots the chain uses.
LEMMA RecordFact ==
  ASSUME disk \in Disks, NEW at \in Nat, Readable(at)
  PROVE  /\ at \in 0 .. Len(disk) /\ Sector(at) \in Sectors
         /\ Sector(at).slots[1] \in Entries /\ Sector(at).slots[2] \in Entries
<1>1. disk \in Seq(Sectors)
  BY TableAssumption
<1>2. at + 1 \in DOMAIN disk /\ at \in 0 .. Len(disk)
  BY <1>1 DEF Readable
<1>3. Sector(at) \in Sectors
  BY <1>1, <1>2 DEF Sector
<1>4. Len(Sector(at).slots) >= 2
  BY <1>2, TableAssumption DEF Sector
<1>5. Sector(at).slots \in Seq(Entries)
  BY <1>3 DEF Sectors
<1> QED BY <1>2, <1>3, <1>4, <1>5

\* A boot record links to one other where its second slot is extended, and to
\* none where it is not.
LEMMA TargetsFact ==
  ASSUME disk \in Disks, NEW base \in Nat, NEW at \in Nat
  PROVE  /\ LinksOn(at) => /\ Links(at) = {Sector(at).slots[2]}
                           /\ Targets(base, at) = {base + Sector(at).slots[2].start}
                           /\ at \in 0 .. Len(disk)
         /\ ~LinksOn(at) => Targets(base, at) = {}
         /\ Targets(base, at) \subseteq Nat /\ IsFiniteSet(Targets(base, at))
<1>1. CASE LinksOn(at)
  <2>1. Links(at) = {Sector(at).slots[2]}
    BY <1>1 DEF LinksOn, Links
  <2>2. Targets(base, at) = {base + Sector(at).slots[2].start}
    BY <1>1, <2>1 DEF Targets, LinksOn
  <2>3. at \in 0 .. Len(disk) /\ Sector(at).slots[2] \in Entries
    BY <1>1, RecordFact DEF LinksOn
  <2>4. IsFiniteSet(Targets(base, at))
    BY <2>2, FS_Singleton
  <2> QED BY <1>1, <2>1, <2>2, <2>3, <2>4 DEF Entries
<1>2. CASE ~LinksOn(at)
  <2>1. Targets(base, at) = {}
    BY <1>2 DEF Targets, Links, LinksOn
  <2> QED BY <1>2, <2>1, FS_EmptySet
<1> QED BY <1>1, <1>2

\* The reach of a base is what its links lead to: finite, closed, and the least
\* such set.
LEMMA ReachFact ==
  ASSUME disk \in Disks, NEW base \in Nat
  PROVE  /\ Reach(base) \subseteq Nat /\ IsFiniteSet(Reach(base))
         /\ Closed(base, Reach(base))
         /\ \A S \in SUBSET Nat : Closed(base, S) => Reach(base) \subseteq S
<1>1. Len(disk) \in Nat
  BY TableAssumption
<1>2. Places(base) \subseteq Nat
  BY TargetsFact DEF Places
<1>3. \A at \in Nat : Targets(base, at) \subseteq Places(base)
  BY TargetsFact DEF Places
<1>4. IsFiniteSet(Places(base))
  <2> DEFINE All == {Targets(base, at) : at \in 0 .. Len(disk)}
  <2>1. IsFiniteSet(0 .. Len(disk))
    BY <1>1, FS_Interval
  <2>2. IsFiniteSet(All)
    <3> DEFINE f == [at \in 0 .. Len(disk) |-> Targets(base, at)]
    <3>1. f \in Surjection(0 .. Len(disk), All)
      BY DEF Surjection
    <3> QED BY <2>1, <3>1, FS_Surjection
  <2>3. \A T \in All : IsFiniteSet(T)
    <3>1. ASSUME NEW at \in 0 .. Len(disk) PROVE IsFiniteSet(Targets(base, at))
      <4>1. at \in Nat
        BY <1>1
      <4> QED BY <4>1, TargetsFact, Zenon
    <3> QED BY <3>1
  <2>4. IsFiniteSet(UNION All)
    BY <2>2, <2>3, FS_UNION
  <2> QED BY <2>4, FS_Singleton, FS_Union DEF Places
<1>5. Reach(base) \subseteq Places(base) /\ IsFiniteSet(Reach(base))
  BY <1>4, FS_Subset DEF Reach
<1>6. Closed(base, Reach(base))
  <2>1. base \in Reach(base)
    BY DEF Reach, Closed, Places
  <2>2. ASSUME NEW at \in Reach(base), NEW to \in Targets(base, at)
        PROVE  to \in Reach(base)
    <3>1. at \in Nat /\ to \in Places(base)
      BY <1>2, <1>3, <1>5
    <3>2. \A S \in SUBSET Places(base) : Closed(base, S) => to \in S
      BY <2>2 DEF Reach, Closed
    <3> QED BY <3>1, <3>2 DEF Reach
  <2> QED BY <2>1, <2>2 DEF Closed
<1>7. ASSUME NEW S \in SUBSET Nat, Closed(base, S)
      PROVE  Reach(base) \subseteq S
  <2>1. Closed(base, S \cap Places(base))
    BY <1>2, <1>3, <1>7 DEF Closed, Places
  <2>2. S \cap Places(base) \in SUBSET Places(base)
    OBVIOUS
  <2> QED BY <2>1, <2>2 DEF Reach
<1> QED BY <1>2, <1>5, <1>6, <1>7

\* What sector 0 declares and where the links lead is the disk's: no step of the
\* walk changes it.
LEMMA Still ==
  ASSUME UNCHANGED <<disk, scheme>>
  PROVE  /\ Declared' = Declared /\ First' = First /\ Base' = Base
         /\ ExtendedAmong(Declared)' = ExtendedAmong(Declared)
         /\ Reach(Base)' = Reach(Base)
         /\ \A at : LinksOn(at)' = LinksOn(at) /\ Links(at)' = Links(at)
                     /\ Sector(at)' = Sector(at) /\ Readable(at)' = Readable(at)
         /\ \A b, at : Targets(b, at)' = Targets(b, at)
         /\ \A at : Logical(at)' = Logical(at)
         /\ \A n : Primary(n)' = Primary(n)
         /\ Whole(Reach(Base))' <=> Whole(Reach(Base))
<1>1. \A at : Sector(at)' = Sector(at) /\ Readable(at)' = Readable(at)
  BY DEF Sector, Readable
<1>2. Leading' = Leading
  BY <1>1 DEF Leading
<1>3. Slots' = Slots
  BY <1>1, <1>2 DEF Slots
<1>4. Declared' = Declared
  BY <1>3, Zenon DEF Declared
<1>5. First' = First /\ Base' = Base /\ ExtendedAmong(Declared)' = ExtendedAmong(Declared)
  BY <1>4, Zenon DEF First, Base, FirstExtended, ExtendedAmong
<1>6. \A at : LinksOn(at)' = LinksOn(at) /\ Links(at)' = Links(at)
  BY <1>1 DEF LinksOn, Links
<1>7. \A b, at : Targets(b, at)' = Targets(b, at)
  BY <1>6, Zenon DEF Targets
<1>8. Reach(Base)' = Reach(Base)
  BY <1>5, <1>7 DEF Reach, Places, Closed
<1>9. \A at : Logical(at)' = Logical(at)
  BY <1>1 DEF Logical, Row
<1>10. \A n : Primary(n)' = Primary(n)
  BY <1>4, <1>5, Zenon DEF Primary, Row, First, FirstExtended, ExtendedAmong
<1>11. Whole(Reach(Base))' <=> Whole(Reach(Base))
  BY <1>6, <1>8, Zenon DEF Whole
<1> QED BY <1>1, <1>4, <1>5, <1>6, <1>7, <1>8, <1>9, <1>10, <1>11

\* The row of a slot of sector 0 says what the slot does.
LEMMA PrimaryFact ==
  ASSUME Declared \in Seq(Entries), NEW n \in 1 .. Len(Declared)
  PROVE  /\ Primary(n) \in Rows /\ Primary(n).kind = "primary"
         /\ Primary(n).type = Declared[n].type /\ Primary(n).ebr = 0
         /\ Primary(n).start = Declared[n].start
         /\ Declared[n].type = Data => Primary(n).issue = "none"
<1>1. Declared[n] \in Entries
  OBVIOUS
<1>2. Declared[n].type = Data => n \notin ExtendedAmong(Declared) /\ Data \in Pinned
  BY DEF ExtendedAmong, Data, Extended, Pinned
<1> QED BY <1>1, <1>2 DEF Primary, Row, Rows, Entries

\* The row of a chain's boot record says what its first slot does.
LEMMA LogicalFact ==
  ASSUME disk \in Disks, NEW at \in Nat, Readable(at)
  PROVE  /\ Logical(at) \in Rows /\ Logical(at).kind = "logical"
         /\ Logical(at).type = Sector(at).slots[1].type /\ Logical(at).ebr = at
         /\ Logical(at).start = at + Sector(at).slots[1].start
         /\ Sector(at).slots[1].type = Data => Logical(at).issue = "none"
<1>1. Sector(at).slots[1] \in Entries
  BY RecordFact
<1> QED BY <1>1 DEF Logical, Row, Rows, Entries, Data, Extended, Pinned

\* Every step of the reader keeps the types.
LEMMA TableTypeStep ==
  ASSUME TableTypeOK, [TableNext]_tableVars
  PROVE  TableTypeOK'
<1>1. CASE UNCHANGED tableVars
  BY <1>1 DEF tableVars, TableTypeOK
<1>2. CASE Discover
  <2>1. Declared \in Seq(Entries)
    BY DeclaredType DEF TableTypeOK
  <2>2. rows' \in Seq(Rows)
    <3>1. \A n \in 1 .. Len(Declared) : Primary(n) \in Rows
      BY <2>1, PrimaryFact
    <3>2. Len(Declared) \in Nat
      BY <2>1
    <3> HIDE DEF Rows
    <3> QED BY <1>2, <3>1, <3>2 DEF Discover
  <2>3. chain' \in [base : Nat, at : Nat, walking : BOOLEAN]
    <3>1. ExtendedAmong(Declared) # {} => Base \in Nat
      BY <2>1, FirstFact
    <3>2. chain' = IF ExtendedAmong(Declared) = {} THEN Ended
                   ELSE [base |-> Base, at |-> Base, walking |-> TRUE]
      BY <1>2 DEF Discover, Base, First
    <3> QED BY <3>1, <3>2 DEF Ended
  <2> QED BY <1>2, <2>2, <2>3 DEF Discover, TableTypeOK
<1>3. CASE Follow
  <2>1. disk' \in Disks /\ hops' \in Nat
    BY <1>3 DEF Follow, TableTypeOK
  <2>2. Ended \in [base : Nat, at : Nat, walking : BOOLEAN]
    BY DEF Ended
  <2>3. \A rs \in Seq(Rows) : [rs EXCEPT ![First].issue = "chain"] \in Seq(Rows)
    <3> TAKE rs \in Seq(Rows)
    <3> DEFINE f == [rs EXCEPT ![First].issue = "chain"]
    <3>1. SUFFICES f \in Seq(Rows)
      OBVIOUS
    <3>2. f = [n \in 1 .. Len(rs) |-> f[n]] /\ Len(rs) \in Nat
      OBVIOUS
    <3>3. ASSUME NEW n \in 1 .. Len(rs)
          PROVE  f[n] \in Rows
      <4>1. rs[n] \in Rows
        OBVIOUS
      <4>2. [rs[n] EXCEPT !.issue = "chain"] \in Rows
        BY <4>1 DEF Rows
      <4>3. f[n] \in {rs[n], [rs[n] EXCEPT !.issue = "chain"]}
        OBVIOUS
      <4> QED BY <4>1, <4>2, <4>3
    <3> HIDE DEF Rows, f
    <3> QED BY <3>2, <3>3
  <2>4. rows \in Seq(Rows) /\ chain.at \in Nat /\ chain.base \in Nat /\ disk \in Disks
    BY DEF TableTypeOK
  <2>5. CASE Unfollowable
    BY <1>3, <2>1, <2>2, <2>3, <2>4, <2>5 DEF Follow, GiveUp, First, TableTypeOK
  <2>6. CASE ~Unfollowable
    <3>1. Readable(chain.at)
      BY <2>6 DEF Unfollowable
    <3>2. Link \in Entries
      BY <2>4, <3>1, RecordFact DEF Link
    <3>3. WithLogical \in Seq(Rows)
      <4>1. Logical(chain.at) \in Rows
        BY <2>4, <3>1, LogicalFact
      <4> HIDE DEF Rows
      <4> QED BY <2>4, <4>1 DEF WithLogical
    <3>4. [chain EXCEPT !.at = chain.base + Link.start] \in [base : Nat, at : Nat, walking : BOOLEAN]
      BY <2>4, <3>2 DEF TableTypeOK, Entries
    <3>5. rows' \in {WithLogical, [WithLogical EXCEPT ![First].issue = "chain"]}
          /\ chain' \in {Ended, [chain EXCEPT !.at = chain.base + Link.start]}
      BY <1>3, <2>6 DEF Follow, GiveUp, First
    <3> HIDE DEF Rows
    <3> QED BY <2>1, <2>2, <2>3, <3>3, <3>4, <3>5 DEF TableTypeOK
  <2> QED BY <2>5, <2>6
<1> QED BY <1>1, <1>2, <1>3 DEF TableNext

\* The rows once the boot record the walk stands at has been read.
LEMMA WithLogicalFact ==
  ASSUME TableTypeOK, NEW V \in SUBSET Reach(Base), Trail(V), Readable(chain.at)
  PROVE  LET W == V \cup {chain.at}
         IN  /\ WithLogical \in Seq(Rows) /\ RowsOf(WithLogical, W)
             /\ chain.at \notin V => OneRowEach(WithLogical, W)
<1> DEFINE W == V \cup {chain.at}
           at == chain.at
<1>1. at \in Nat /\ disk \in Disks /\ rows \in Seq(Rows)
  BY DEF TableTypeOK
<1>2. Logical(at) \in Rows /\ Logical(at).ebr = at
  BY <1>1, LogicalFact
<1>3. Len(Declared) \in Nat
  BY <1>1, DeclaredType
<1>4. RowsOf(rows, V) /\ (at \notin V => OneRowEach(rows, V))
  BY DEF Trail
<1>5. CASE Sector(at).slots[1].type = Empty
  <2>1. Naming(W) = Naming(V) /\ WithLogical = rows
    BY <1>5 DEF Naming, WithLogical
  <2> QED BY <1>1, <1>4, <2>1 DEF RowsOf, OneRowEach
<1>6. CASE Sector(at).slots[1].type # Empty
  <2> DEFINE rs == Append(rows, Logical(at))
             last  == Len(rows) + 1
  <2>1. WithLogical = rs /\ Naming(W) = Naming(V) \cup {at}
    BY <1>6 DEF Naming, WithLogical
  <2>2. /\ rs \in Seq(Rows) /\ Len(rs) = last /\ rs[last] = Logical(at)
        /\ \A n \in 1 .. Len(rows) : rs[n] = rows[n]
    <3> HIDE DEF Rows
    <3> QED BY <1>1, <1>2
  <2>3. Len(rows) \in Nat /\ Len(Declared) <= Len(rows)
    BY <1>1, <1>4 DEF RowsOf
  <2>4. Later(rs) = Later(rows) \cup {last}
    BY <1>3, <2>2, <2>3 DEF Later
  <2>5. \A n \in Later(rows) : n \in 1 .. Len(rows) /\ rs[n] = rows[n]
    BY <2>2 DEF Later
  <2> HIDE DEF rs, last
  <2>6. RowsOf(rs, W)
    <3>1. Len(Declared) <= Len(rs)
      BY <1>3, <2>2, <2>3 DEF last
    <3>2. \A n \in 1 .. Len(Declared) : rs[n] = Primary(n)
      BY <1>3, <1>4, <2>2, <2>3 DEF RowsOf
    <3>3. ASSUME NEW n \in Later(rs)
          PROVE  rs[n].ebr \in Naming(W) /\ rs[n] = Logical(rs[n].ebr)
      <4>1. CASE n = last
        BY <1>2, <2>1, <2>2, <4>1
      <4>2. CASE n # last
        BY <1>4, <2>1, <2>4, <2>5, <4>2 DEF RowsOf
      <4> QED BY <4>1, <4>2
    <3> QED BY <3>1, <3>2, <3>3 DEF RowsOf
  <2>7. ASSUME at \notin V
        PROVE  OneRowEach(rs, W)
    <3>1. OneRowEach(rows, V) /\ \A n \in Later(rows) : rows[n].ebr \in V
      BY <1>4, <2>7 DEF RowsOf, Naming
    <3>2. \A v \in Naming(W) : \E n \in Later(rs) : rs[n].ebr = v
      BY <1>2, <2>1, <2>2, <2>4, <2>5, <3>1 DEF OneRowEach
    <3>3. \A n, m \in Later(rs) : rs[n].ebr = rs[m].ebr => n = m
      <4> TAKE n, m \in Later(rs)
      <4>1. CASE n = last /\ m = last
        BY <4>1
      <4>2. CASE n # last /\ m # last
        BY <2>4, <2>5, <3>1, <4>2 DEF OneRowEach
      <4>3. CASE n = last /\ m # last
        BY <1>2, <2>2, <2>4, <2>5, <2>7, <3>1, <4>3
      <4>4. CASE n # last /\ m = last
        BY <1>2, <2>2, <2>4, <2>5, <2>7, <3>1, <4>4
      <4> QED BY <4>1, <4>2, <4>3, <4>4
    <3> QED BY <3>2, <3>3 DEF OneRowEach
  <2> QED BY <2>1, <2>2, <2>6, <2>7
<1> QED BY <1>5, <1>6

\* Rows found that are of W's boot records, the extended row first given the
\* issue: the row is not clean, and so much is right where the chain is not whole.
LEMMA GaveUp ==
  ASSUME TableTypeOK, UNCHANGED <<disk, scheme>>, ExtendedAmong(Declared) # {},
         NEW W \in SUBSET Reach(Base), NEW rs \in Seq(Rows), RowsOf(rs, W),
         GiveUp(rs), ~Whole(Reach(Base))
  PROVE  CleanRowIsWholeChain'
<1>1. Declared \in Seq(Entries) /\ Len(Declared) \in Nat
  BY DeclaredType DEF TableTypeOK
<1>2. First \in 1 .. Len(Declared) /\ Len(Declared) <= Len(rs)
  BY <1>1, FirstFact DEF RowsOf
<1>3. rows' = [rs EXCEPT ![First].issue = "chain"]
  BY DEF GiveUp, First
<1>4. DOMAIN rows' = 1 .. Len(rs) /\ Len(rs) \in Nat
  BY <1>3
<1>5. rows'[First].issue = "chain"
  <2>1. rs[First] \in Rows
    BY <1>1, <1>2, <1>4
  <2> QED BY <1>2, <1>3, <1>4, <2>1 DEF Rows
<1>6. ASSUME NEW n \in DOMAIN rows', rows'[n].kind = "logical"
      PROVE  rows'[n].ebr \in Reach(Base)
  <2>1. n \in 1 .. Len(rs) /\ rs[n] \in Rows
    BY <1>4
  <2>2. rows'[n].kind = rs[n].kind /\ rows'[n].ebr = rs[n].ebr
    BY <1>3, <2>1 DEF Rows
  <2>3. n \notin 1 .. Len(Declared)
    BY <1>1, <1>6, <2>2, PrimaryFact DEF RowsOf
  <2>4. n \in Later(rs)
    BY <1>1, <2>1, <2>3 DEF Later
  <2> QED BY <2>2, <2>4 DEF RowsOf, Naming
<1>7. ~Whole(Reach(Base))' /\ Reach(Base)' = Reach(Base) /\ First' = First
  BY Still
<1>8. {rows'[n].ebr : n \in {m \in DOMAIN rows' : rows'[m].kind = "logical"}} \subseteq Reach(Base)
  BY <1>6
<1> QED BY <1>5, <1>7, <1>8 DEF CleanRowIsWholeChain, First, Base

\* The walk ended where a boot record links to none: the records walked are all
\* there are, and the rows are theirs.
LEMMA CameToEnd ==
  ASSUME TableTypeOK, UNCHANGED <<disk, scheme, content>>, content = "table",
         ExtendedAmong(Declared) # {}, rows' \in Seq(Rows),
         NEW W, W = Reach(Base), \A w \in W : Readable(w) /\ Sector(w).signed,
         RowsOf(rows', W), OneRowEach(rows', W), Whole(W), chain' = Ended
  PROVE  CleanRowIsWholeChain'
<1>1. Declared \in Seq(Entries) /\ Len(Declared) \in Nat /\ disk \in Disks
  BY DeclaredType DEF TableTypeOK
<1>2. First \in 1 .. Len(Declared) /\ Len(Declared) <= Len(rows') /\ Base \in Nat
  BY <1>1, FirstFact DEF RowsOf
<1>3. DOMAIN rows' = 1 .. Len(rows') /\ Len(rows') \in Nat
  OBVIOUS
<1>4. W \subseteq Nat
  BY <1>1, <1>2, ReachFact
<1>5. rows'[First] = Primary(First) /\ Primary(First).issue = "none"
  BY <1>1, <1>2, FirstFact DEF RowsOf
<1>6. \A n \in DOMAIN rows' : rows'[n].kind = "logical" <=> n \in Later(rows')
  <2> TAKE n \in DOMAIN rows'
  <2>1. CASE n \in 1 .. Len(Declared)
    <3>1. rows'[n].kind = "primary"
      BY <1>1, <2>1, PrimaryFact DEF RowsOf
    <3> QED BY <1>1, <2>1, <3>1 DEF Later
  <2>2. CASE n \notin 1 .. Len(Declared)
    <3>1. n \in Later(rows')
      BY <1>1, <1>3, <2>2 DEF Later
    <3>2. rows'[n].ebr \in W /\ rows'[n] = Logical(rows'[n].ebr)
      BY <3>1 DEF RowsOf, Naming
    <3>3. rows'[n].kind = "logical"
      BY <1>1, <1>4, <3>2, LogicalFact
    <3> QED BY <3>1, <3>3
  <2> QED BY <2>1, <2>2
<1> DEFINE logical == {n \in DOMAIN rows' : rows'[n].kind = "logical"}
           read    == {n \in DOMAIN rows' : rows'[n].type = Data /\ rows'[n].issue = "none"}
           spans   == {<<0, Declared[n].start>> : n \in {m \in DOMAIN Declared : Declared[m].type = Data}}
                      \cup {<<at, at + Sector(at).slots[1].start>> :
                              at \in {x \in W : Links(x) # {} /\ Sector(x).slots[1].type = Data}}
<1>7. logical = Later(rows')
  BY <1>3, <1>6 DEF Later
<1>8. {rows'[n].ebr : n \in logical} \subseteq W
  BY <1>7 DEF RowsOf, Naming
<1>9. \A n, m \in logical : rows'[n].ebr = rows'[m].ebr => n = m
  BY <1>7 DEF OneRowEach
<1>10. \A w \in W : Links(w) # {}
  BY DEF Links
<1>11. ASSUME NEW n \in read
       PROVE  <<rows'[n].ebr, rows'[n].start>> \in spans
  <2>1. CASE n \in 1 .. Len(Declared)
    <3>1. rows'[n] = Primary(n)
      BY <2>1 DEF RowsOf
    <3>2. Declared[n].type = Data /\ rows'[n].ebr = 0 /\ rows'[n].start = Declared[n].start
      BY <1>1, <1>11, <2>1, <3>1, PrimaryFact
    <3> QED BY <1>1, <2>1, <3>2
  <2>2. CASE n \notin 1 .. Len(Declared)
    <3>1. n \in Later(rows')
      BY <1>1, <1>3, <2>2 DEF Later
    <3> DEFINE at == rows'[n].ebr
    <3>2. at \in W /\ rows'[n] = Logical(at)
      BY <3>1 DEF RowsOf, Naming
    <3> HIDE DEF at
    <3>3. Sector(at).slots[1].type = Data /\ rows'[n].start = at + Sector(at).slots[1].start
      BY <1>1, <1>4, <1>11, <3>2, LogicalFact
    <3> QED BY <1>10, <3>2, <3>3 DEF at
  <2> QED BY <2>1, <2>2
<1>12. ASSUME NEW m \in DOMAIN Declared, Declared[m].type = Data
       PROVE  \E n \in read : <<rows'[n].ebr, rows'[n].start>> = <<0, Declared[m].start>>
  <2>1. m \in 1 .. Len(Declared) /\ m \in DOMAIN rows' /\ rows'[m] = Primary(m)
    BY <1>1, <1>2, <1>3 DEF RowsOf
  <2>2. m \in read /\ rows'[m].ebr = 0 /\ rows'[m].start = Declared[m].start
    BY <1>1, <1>12, <2>1, PrimaryFact
  <2> QED BY <2>2
<1>13. ASSUME NEW at \in W, Sector(at).slots[1].type = Data
       PROVE  \E n \in read : <<rows'[n].ebr, rows'[n].start>> = <<at, at + Sector(at).slots[1].start>>
  <2>1. at \in Naming(W)
    BY <1>13 DEF Naming, Data, Empty
  <2>2. PICK n \in Later(rows') : rows'[n].ebr = at
    BY <2>1 DEF OneRowEach
  <2>3. rows'[n] = Logical(at) /\ n \in DOMAIN rows'
    BY <1>3, <2>2 DEF RowsOf, Later
  <2>4. n \in read /\ rows'[n].start = at + Sector(at).slots[1].start
    BY <1>1, <1>4, <1>13, <2>3, LogicalFact
  <2> QED BY <2>2, <2>4
<1>14. {<<rows'[n].ebr, rows'[n].start>> : n \in read} = spans
  <2> HIDE DEF read
  <2>1. \A p \in spans : \E n \in read : p = <<rows'[n].ebr, rows'[n].start>>
    BY <1>12, <1>13
  <2> HIDE DEF spans
  <2> QED BY <1>11, <2>1
<1>15. /\ DOMAIN Pool' = DOMAIN rows'
       /\ \A n \in DOMAIN Pool' : /\ Pool'[n].start = rows'[n].start
                                  /\ Pool'[n].addressable = (n \in read)
  BY <1>3 DEF Pool, Declares, Addressable
<1>16. {<<rows'[n].ebr, Pool'[n].start>> : n \in {m \in DOMAIN Pool' : Pool'[m].addressable}} = spans
  <2>1. {m \in DOMAIN Pool' : Pool'[m].addressable} = read
    BY <1>15
  <2> HIDE DEF read, spans
  <2> QED BY <1>14, <1>15, <2>1
<1> QED
  BY <1>5, <1>8, <1>9, <1>16, Still DEF CleanRowIsWholeChain, First, Base

\* Before sector 0 is read there is nothing to be wrong about.
LEMMA TableInitial ==
  TableInit => TableTypeOK /\ TableIInv
<1> SUFFICES ASSUME TableInit PROVE TableTypeOK /\ TableIInv
  OBVIOUS
<1>1. TableTypeOK
  BY DEF TableInit, TableTypeOK, Ended
<1>2. CleanRowIsWholeChain
  BY DEF CleanRowIsWholeChain, Walked, TableInit
<1> QED BY <1>1, <1>2 DEF TableInit, TableIInv, Ended

\* Reading sector 0 starts the walk on a trail with no boot record on it yet, or
\* ends with no chain to follow.
LEMMA DiscoverKeeps ==
  ASSUME TableTypeOK, TableIInv, Discover
  PROVE  TableIInv'
<1>1. disk \in Disks /\ Declared \in Seq(Entries) /\ Len(Declared) \in Nat
  BY DeclaredType DEF TableTypeOK
<1>2. UNCHANGED <<disk, scheme>>
  BY DEF Discover
<1>3. content' # "unread"
  BY DEF Discover, Leading
<1>4. CASE ExtendedAmong(Declared) = {}
  <2>1. ~chain.walking'
    BY <1>4 DEF Discover, Ended
  <2>2. ExtendedAmong(Declared)' = {}
    BY <1>2, <1>4, Still
  <2>3. CleanRowIsWholeChain'
    BY <2>2 DEF CleanRowIsWholeChain
  <2> QED BY <1>3, <2>1, <2>3 DEF TableIInv
<1>5. CASE ExtendedAmong(Declared) # {}
  <2>1. chain' = [base |-> Base, at |-> Base, walking |-> TRUE]
    BY <1>5 DEF Discover, Base, First
  <2>2. content' = "table"
    <3>1. CASE Leading = "table"
      BY <3>1 DEF Discover
    <3>2. CASE Leading # "table"
      <4>1. Slots = <<>>
        BY <3>2 DEF Slots
      <4> DEFINE f == CHOOSE f : Kept(Slots, f, Len(Slots))
      <4>2. Declared = f[Len(Slots)] /\ Len(Slots) = 0
        BY <4>1 DEF Declared, Kept
      <4>3. Kept(Slots, f, 0)
        BY <4>2, KeptExists
      <4> HIDE DEF f
      <4>4. f[0] = <<>>
        BY <4>3 DEF Kept
      <4>5. Declared = <<>>
        BY <4>2, <4>4
      <4> QED BY <1>5, <4>5 DEF ExtendedAmong
    <3> QED BY <3>1, <3>2
  <2>3. Base \in Reach(Base)
    BY <1>1, <1>5, FirstFact, ReachFact DEF Closed
  <2>4. RowsOf(rows', {}) /\ OneRowEach(rows', {})
    <3>1. Len(rows') = Len(Declared) /\ \A n \in 1 .. Len(Declared) : rows'[n] = Primary(n)
      BY <1>1 DEF Discover
    <3>2. Later(rows') = {}
      BY <1>1, <3>1 DEF Later
    <3> QED BY <1>1, <3>1, <3>2 DEF RowsOf, OneRowEach, Naming
  <2>5. RowsOf(rows, {})' /\ OneRowEach(rows, {})'
    BY <1>2, <2>4, Still DEF RowsOf, OneRowEach, Naming, Later
  <2>6. Cardinality({}) = hops'
    <3>1. hops' = 0
      BY DEF Discover, TableIInv
    <3> QED BY <3>1, FS_EmptySet
  <2>7. Trail({})'
    BY <1>2, <1>5, <2>1, <2>2, <2>3, <2>5, <2>6, Still DEF Trail
  <2>8. CleanRowIsWholeChain'
    BY <2>1 DEF CleanRowIsWholeChain, Walked
  <2>9. (\E V \in SUBSET Reach(Base) : Trail(V))'
    BY <2>7
  <2> QED BY <1>3, <2>8, <2>9 DEF TableIInv
<1> QED BY <1>4, <1>5

\* A chain that goes round, or that the walk cannot follow, is not whole.
LEMMA NotWhole ==
  ASSUME TableTypeOK, NEW V \in SUBSET Reach(Base), Trail(V),
         \/ chain.at \in V
         \/ Unfollowable
         \/ Link.type \notin {Empty, Extended}
  PROVE  ~Whole(Reach(Base))
<1>1. disk \in Disks /\ Base \in Nat /\ chain.at \in Reach(Base) /\ hops \in Nat
  BY DeclaredType, FirstFact DEF TableTypeOK, Trail
<1>2. /\ Reach(Base) \subseteq Nat /\ IsFiniteSet(Reach(Base))
      /\ \A S \in SUBSET Nat : Closed(Base, S) => Reach(Base) \subseteq S
  BY <1>1, ReachFact
<1>3. CASE chain.at \in V
  <2>1. Closed(Base, V)
    BY <1>3 DEF Trail, Closed
  <2>2. \A at \in Reach(Base) : LinksOn(at)
    BY <1>2, <2>1 DEF Trail
  <2>3. \A at \in Reach(Base) : \A l \in Links(at) : l.type = Extended
    BY <1>1, <1>2, <2>2, TargetsFact DEF LinksOn
  <2> QED BY <2>3 DEF Whole, Empty, Extended
<1>4. CASE ~Readable(chain.at) \/ ~Sector(chain.at).signed
  BY <1>1, <1>4 DEF Whole, Links
<1>5. CASE Readable(chain.at) /\ Sector(chain.at).signed /\ Link.type \notin {Empty, Extended}
  BY <1>1, <1>5 DEF Whole, Links, Link
<1>6. CASE chain.at \notin V /\ hops + 1 > MaxHops
  <2> DEFINE W == V \cup {chain.at}
  <2>1. Cardinality(V) = hops /\ IsFiniteSet(V)
    BY <1>2, <1>6, FS_Subset DEF Trail
  <2>2. Cardinality(W) = hops + 1
    BY <1>6, <2>1, FS_AddElement
  <2>3. W \subseteq Reach(Base)
    BY <1>1
  <2>4. Cardinality(W) <= Cardinality(Reach(Base))
    BY <1>2, <2>3, FS_Subset
  <2>5. Cardinality(Reach(Base)) \in Nat /\ MaxHops \in Nat
    BY <1>2, FS_CardinalityType, TableAssumption
  <2>6. ~(Cardinality(Reach(Base)) <= MaxHops)
    BY <1>1, <1>6, <2>2, <2>4, <2>5
  <2> QED BY <2>6 DEF Whole
<1> QED BY <1>3, <1>4, <1>5, <1>6 DEF Unfollowable

\* A step along the chain lengthens the trail by the boot record it read, or comes
\* to the end of a whole chain, or gives up on one that is not.
LEMMA FollowKeeps ==
  ASSUME TableTypeOK, TableIInv, Follow
  PROVE  TableIInv'
<1>1. PICK V \in SUBSET Reach(Base) : Trail(V)
  BY DEF TableIInv, Follow
<1>2. /\ UNCHANGED <<disk, scheme, content>> /\ content = "table"
      /\ ExtendedAmong(Declared) # {} /\ hops' = hops + 1
  BY <1>1 DEF Follow, Trail
<1>3. /\ disk \in Disks /\ Base \in Nat /\ rows \in Seq(Rows) /\ hops \in Nat
      /\ chain.at \in Nat
  BY <1>2, DeclaredType, FirstFact DEF TableTypeOK
<1>4. /\ Reach(Base) \subseteq Nat /\ IsFiniteSet(Reach(Base)) /\ Closed(Base, Reach(Base))
      /\ \A S \in SUBSET Nat : Closed(Base, S) => Reach(Base) \subseteq S
  BY <1>3, ReachFact
<1>5. PICK W : W = V \cup {chain.at} /\ W \subseteq Reach(Base)
  BY <1>1 DEF Trail
<1>6. ASSUME ~chain.walking', CleanRowIsWholeChain'
      PROVE  TableIInv'
  BY <1>2, <1>6 DEF TableIInv
<1>7. CASE Unfollowable
  <2>1. GiveUp(rows) /\ chain' = Ended
    BY <1>7 DEF Follow, GiveUp
  <2>2. ~Whole(Reach(Base))
    BY <1>1, <1>7, NotWhole
  <2>3. RowsOf(rows, V)
    BY <1>1 DEF Trail
  <2>4. CleanRowIsWholeChain'
    BY <1>2, <1>3, <2>1, <2>2, <2>3, GaveUp
  <2> QED BY <1>6, <2>1, <2>4 DEF Ended
<1>8. CASE ~Unfollowable
  <2>1. Readable(chain.at) /\ Sector(chain.at).signed /\ hops + 1 <= MaxHops
    BY <1>3, <1>8, TableAssumption DEF Unfollowable
  <2>2. /\ WithLogical \in Seq(Rows) /\ RowsOf(WithLogical, W)
        /\ chain.at \notin V => OneRowEach(WithLogical, W)
    BY <1>1, <1>5, <2>1, WithLogicalFact
  <2>3. CASE Link.type \notin {Empty, Extended}
    <3>1. GiveUp(WithLogical) /\ chain' = Ended
      BY <1>8, <2>3 DEF Follow, GiveUp
    <3>2. ~Whole(Reach(Base))
      BY <1>1, <2>3, NotWhole
    <3>3. CleanRowIsWholeChain'
      BY <1>2, <1>5, <2>2, <3>1, <3>2, GaveUp
    <3> QED BY <1>6, <3>1, <3>3 DEF Ended
  <2>4. CASE Link.type = Empty
    <3>1. rows' = WithLogical /\ chain' = Ended
      BY <1>8, <2>4 DEF Follow, Empty, Extended
    <3>2. ~LinksOn(chain.at)
      BY <2>4 DEF LinksOn, Link, Empty, Extended
    <3>3. chain.at \notin V
      BY <1>1, <3>2 DEF Trail
    <3>4. Closed(Base, W)
      <4>1. Targets(Base, chain.at) = {}
        BY <1>3, <3>2, TargetsFact
      <4> QED BY <1>1, <1>5, <4>1 DEF Trail, Closed
    <3>5. W = Reach(Base)
      <4>1. W \in SUBSET Nat
        BY <1>4, <1>5
      <4> QED BY <1>4, <1>5, <3>4, <4>1
    <3>6. \A w \in W : Readable(w) /\ Sector(w).signed
      BY <1>1, <1>5, <2>1 DEF Trail, LinksOn
    <3>7. Whole(W)
      <4>1. \A w \in W : Links(w) = {Sector(w).slots[2]}
        BY <3>6 DEF Links
      <4>2. \A w \in V : Sector(w).slots[2].type = Extended
        BY <1>1 DEF Trail, LinksOn
      <4>3. \A w \in W : Sector(w).slots[2].type \in {Empty, Extended}
        BY <1>5, <2>4, <4>2 DEF Link
      <4>4. Sector(chain.at).slots[2].type = Empty
        BY <2>4 DEF Link
      <4>5. Cardinality(V) = hops /\ IsFiniteSet(V)
        BY <1>1, <1>4, <3>3, FS_Subset DEF Trail
      <4>6. Cardinality(W) = hops + 1
        BY <1>5, <3>3, <4>5, FS_AddElement
      <4>7. chain.at \in W
        BY <1>5
      <4> QED BY <2>1, <4>1, <4>3, <4>4, <4>6, <4>7 DEF Whole
    <3>8. RowsOf(rows', W) /\ OneRowEach(rows', W) /\ rows' \in Seq(Rows)
      BY <2>2, <3>1, <3>3
    <3>9. CleanRowIsWholeChain'
      BY <1>2, <3>1, <3>5, <3>6, <3>7, <3>8, CameToEnd
    <3> QED BY <1>6, <3>1, <3>9 DEF Ended
  <2>5. CASE Link.type = Extended
    <3>1. /\ rows' = WithLogical
          /\ chain' = [chain EXCEPT !.at = chain.base + Link.start]
      BY <1>8, <2>5 DEF Follow, Empty, Extended
    <3>2. LinksOn(chain.at)
      BY <2>1, <2>5 DEF LinksOn, Link
    <3> DEFINE to == Base + Link.start
    <3>3. chain'.at = to /\ chain'.base = Base /\ chain'.walking
      <4>1. chain \in [base : Nat, at : Nat, walking : BOOLEAN] /\ chain.base = Base /\ chain.walking
        BY <1>1 DEF TableTypeOK, Trail, Follow
      <4> QED BY <3>1, <4>1
    <3>4. Targets(Base, chain.at) = {to}
      BY <1>3, <3>2, TargetsFact DEF Link
    <3>5. to \in Reach(Base)
      BY <1>4, <1>5, <3>4 DEF Closed
    <3>6. \A v \in W : LinksOn(v) /\ Targets(Base, v) \subseteq W \cup {to}
      BY <1>1, <1>5, <3>2, <3>4 DEF Trail
    <3>7. Base \in W \cup {to}
      BY <1>1, <1>5 DEF Trail
    <3>8. to \in W \/ (Cardinality(W) = hops' /\ OneRowEach(rows', W))
      <4>1. CASE chain.at \in V
        <5>1. to \in W
          BY <1>1, <1>5, <3>4, <4>1 DEF Trail
        <5> QED BY <5>1
      <4>2. CASE chain.at \notin V
        <5>1. Cardinality(V) = hops /\ IsFiniteSet(V)
          BY <1>1, <1>4, <4>2, FS_Subset DEF Trail
        <5>2. Cardinality(W) = hops + 1
          BY <1>5, <4>2, <5>1, FS_AddElement
        <5> QED BY <1>2, <2>2, <3>1, <4>2, <5>2
      <4> QED BY <4>1, <4>2
    <3>9. RowsOf(rows', W)
      BY <2>2, <3>1
    <3> HIDE DEF to
    <3>10. RowsOf(rows, W)' /\ (OneRowEach(rows', W) => OneRowEach(rows, W)')
      BY <1>2, <3>9, Still DEF RowsOf, OneRowEach, Naming, Later
    <3>11. Trail(W)'
      BY <1>2, <1>5, <3>3, <3>5, <3>6, <3>7, <3>8, <3>10, Still DEF Trail
    <3>12. (\E X \in SUBSET Reach(Base) : Trail(X))'
      BY <1>2, <1>5, <3>11, Still
    <3>13. CleanRowIsWholeChain'
      BY <3>3 DEF CleanRowIsWholeChain, Walked
    <3> QED BY <1>2, <3>12, <3>13 DEF TableIInv
  <2> QED BY <2>3, <2>4, <2>5
<1> QED BY <1>7, <1>8

\* A step that changes nothing of the table keeps the invariant.
LEMMA TableStands ==
  ASSUME TableTypeOK, TableIInv, UNCHANGED tableVars
  PROVE  TableIInv'
<1>1. UNCHANGED <<disk, scheme, content, rows, chain, hops>>
  BY DEF tableVars
<1>2. (\E V \in SUBSET Reach(Base) : Trail(V)) => (\E V \in SUBSET Reach(Base) : Trail(V))'
  <2> SUFFICES ASSUME NEW V \in SUBSET Reach(Base), Trail(V)
               PROVE  (\E X \in SUBSET Reach(Base) : Trail(X))'
    OBVIOUS
  <2>1. RowsOf(rows, V)' /\ (OneRowEach(rows, V) => OneRowEach(rows, V)')
    BY <1>1, Still DEF RowsOf, OneRowEach, Naming, Later, Trail
  <2>2. Trail(V)'
    BY <1>1, <2>1, Still DEF Trail
  <2> QED BY <1>1, <2>2, Still
<1>3. CleanRowIsWholeChain'
  <2>1. Pool' = Pool
    BY <1>1, Zenon DEF Pool, Declares, Direct, Addressable
  <2>2. (Walked' <=> Walked) /\ (Whole(Reach(Base))' <=> Whole(Reach(Base)))
    BY <1>1, Still DEF Walked
  <2> QED BY <1>1, <2>1, <2>2, Still DEF TableIInv, CleanRowIsWholeChain, First, Base
<1> QED BY <1>1, <1>2, <1>3 DEF TableIInv

\* Whatever the disk holds, and however long the walk may be, the extended row is
\* clean exactly when the chain is whole, and then the volumes are those of sector
\* 0 and of the chain, each once: discover and the pool it fills (mbr.rs, mod.rs).
THEOREM TableTheorem ==
  TableSpec => []CleanRowIsWholeChain
<1>1. TableInit => TableTypeOK /\ TableIInv
  BY TableInitial
<1>2. TableTypeOK /\ TableIInv /\ [TableNext]_tableVars => (TableTypeOK /\ TableIInv)'
  <2> SUFFICES ASSUME TableTypeOK, TableIInv, [TableNext]_tableVars
               PROVE  TableTypeOK' /\ TableIInv'
    OBVIOUS
  <2>1. TableTypeOK'
    BY TableTypeStep
  <2>2. TableIInv'
    BY DiscoverKeeps, FollowKeeps, TableStands DEF TableNext
  <2> QED BY <2>1, <2>2
<1>3. TableIInv => CleanRowIsWholeChain
  BY DEF TableIInv
<1> QED BY <1>1, <1>2, <1>3, PTL DEF TableSpec

-----------------------------------------------------------------------------
(* The raw plane *)

\* A sequence is over any set that holds its elements.
LEMMA SeqInto ==
  ASSUME NEW S, NEW T, NEW s \in Seq(S), \A n \in 1 .. Len(s) : s[n] \in T
  PROVE  s \in Seq(T)
<1>1. s = [n \in 1 .. Len(s) |-> s[n]] /\ Len(s) \in Nat
  OBVIOUS
<1> QED BY <1>1

\* Moving one of a sequence's elements to its end keeps what the sequence holds,
\* and holds once.
LEMMA PutLastFact ==
  ASSUME NEW S, NEW s \in Seq(S), NEW e, \E i \in DOMAIN s : s[i] = e,
         \A m, n \in DOMAIN s : s[m] = s[n] => m = n
  PROVE  /\ PutLast(s, e) \in Seq(S)
         /\ \A i \in DOMAIN s : \E n \in DOMAIN PutLast(s, e) : PutLast(s, e)[n] = s[i]
         /\ \A m, n \in DOMAIN PutLast(s, e) : PutLast(s, e)[m] = PutLast(s, e)[n] => m = n
<1> DEFINE k == CHOOSE i \in DOMAIN s : s[i] = e
           t == RemoveAt(s, k)
           r == Append(t, e)
<1>1. k \in 1 .. Len(s) /\ s[k] = e /\ Len(s) \in Nat /\ e \in S
  OBVIOUS
<1> HIDE DEF k
<1>2. /\ SubSeq(s, 1, k - 1) \in Seq(S) /\ Len(SubSeq(s, 1, k - 1)) = k - 1
      /\ \A n \in 1 .. k - 1 : SubSeq(s, 1, k - 1)[n] = s[n]
  BY <1>1
<1>3. /\ SubSeq(s, k + 1, Len(s)) \in Seq(S) /\ Len(SubSeq(s, k + 1, Len(s))) = Len(s) - k
      /\ \A n \in 1 .. Len(s) - k : SubSeq(s, k + 1, Len(s))[n] = s[n + k]
  BY <1>1
<1>4. /\ t \in Seq(S) /\ Len(t) = Len(s) - 1
      /\ \A n \in 1 .. Len(s) - 1 : t[n] = IF n < k THEN s[n] ELSE s[n + 1]
  <2> DEFINE a == SubSeq(s, 1, k - 1)
             b == SubSeq(s, k + 1, Len(s))
  <2>1. t = a \o b
    BY DEF RemoveAt
  <2>2. /\ a \o b \in Seq(S) /\ Len(a \o b) = Len(a) + Len(b)
        /\ \A n \in 1 .. Len(a) + Len(b) :
             (a \o b)[n] = IF n <= Len(a) THEN a[n] ELSE b[n - Len(a)]
    BY <1>2, <1>3, ConcatProperties
  <2>3. Len(a) = k - 1 /\ Len(b) = Len(s) - k
    BY <1>2, <1>3
  <2> HIDE DEF t, a, b
  <2>4. Len(t) = Len(s) - 1
    BY <1>1, <2>1, <2>2, <2>3
  <2>5. ASSUME NEW n \in 1 .. Len(s) - 1
        PROVE  t[n] = IF n < k THEN s[n] ELSE s[n + 1]
    <3>1. Len(a) = k - 1 /\ Len(b) = Len(s) - k
      BY <2>3
    <3>2. CASE n < k
      BY <1>1, <1>2, <2>1, <2>2, <3>1, <3>2 DEF a
    <3>3. CASE ~(n < k)
      <4>1. t[n] = b[n - (k - 1)] /\ n - (k - 1) \in 1 .. Len(s) - k
        BY <1>1, <2>1, <2>2, <3>1, <3>3
      <4>2. b[n - (k - 1)] = s[(n - (k - 1)) + k]
        BY <1>3, <4>1 DEF b
      <4>3. (n - (k - 1)) + k = n + 1
        BY <1>1
      <4> QED BY <3>3, <4>1, <4>2, <4>3
    <3> QED BY <3>2, <3>3
  <2> QED BY <2>1, <2>2, <2>4, <2>5
<1> HIDE DEF t
<1>5. /\ r \in Seq(S) /\ Len(r) = Len(s)
      /\ \A n \in 1 .. Len(s) - 1 : r[n] = IF n < k THEN s[n] ELSE s[n + 1]
      /\ r[Len(s)] = e
  BY <1>1, <1>4, AppendProperties
<1>6. PutLast(s, e) = r
  BY DEF PutLast, k, t
<1> HIDE DEF r
<1>7. ASSUME NEW i \in DOMAIN s
      PROVE  \E n \in DOMAIN r : r[n] = s[i]
  <2>1. CASE i < k
    <3>1. i \in 1 .. Len(s) - 1 /\ i \in DOMAIN r
      BY <1>1, <1>5, <2>1
    <3> QED BY <1>5, <2>1, <3>1
  <2>2. CASE i = k
    <3>1. Len(s) \in DOMAIN r
      BY <1>1, <1>5
    <3> QED BY <1>1, <1>5, <2>2, <3>1
  <2>3. CASE i > k
    <3>1. i - 1 \in 1 .. Len(s) - 1 /\ i - 1 \in DOMAIN r /\ ~(i - 1 < k)
      BY <1>1, <1>5, <2>3
    <3>2. r[i - 1] = s[(i - 1) + 1]
      BY <1>5, <3>1
    <3>3. (i - 1) + 1 = i
      OBVIOUS
    <3> QED BY <3>1, <3>2, <3>3
  <2> QED BY <1>1, <2>1, <2>2, <2>3
<1>8. ASSUME NEW m \in DOMAIN r, NEW n \in DOMAIN r, r[m] = r[n]
      PROVE  m = n
  <2> DEFINE From(j) == IF j = Len(s) THEN k ELSE IF j < k THEN j ELSE j + 1
  <2>1. ASSUME NEW j \in DOMAIN r
        PROVE  From(j) \in DOMAIN s /\ r[j] = s[From(j)]
    <3>1. j \in 1 .. Len(s)
      BY <1>5, <2>1
    <3>2. CASE j = Len(s)
      BY <1>1, <1>5, <3>2
    <3>3. CASE j # Len(s)
      <4>1. j \in 1 .. Len(s) - 1
        BY <1>1, <3>1, <3>3
      <4> QED BY <1>1, <1>5, <3>3, <4>1
    <3> QED BY <3>2, <3>3
  <2>2. From(m) = From(n)
    BY <1>8, <2>1
  <2>3. m \in 1 .. Len(s) /\ n \in 1 .. Len(s)
    BY <1>5
  <2> QED BY <1>1, <2>2, <2>3
<1> QED BY <1>5, <1>6, <1>7, <1>8

\* Serving an extent that is held makes it the latest used and changes no byte.
LEMMA TouchedFact ==
  ASSUME NEW c, CacheOK(c), NEW e \in DOMAIN c.held
  PROVE  CacheOK(Touched(c, e)) /\ Touched(c, e).held = c.held
<1> DEFINE H == DOMAIN c.held
           d == Touched(c, e)
<1>1. /\ c.order \in Seq(H) /\ \E i \in DOMAIN c.order : c.order[i] = e
      /\ \A m, n \in DOMAIN c.order : c.order[m] = c.order[n] => m = n
  BY DEF CacheOK
<1>2. d.held = c.held /\ d.order = PutLast(c.order, e) /\ d = [held |-> d.held, order |-> d.order]
  BY DEF Touched, CacheOK
<1>3. /\ PutLast(c.order, e) \in Seq(H)
      /\ \A i \in DOMAIN c.order : \E n \in DOMAIN PutLast(c.order, e) : PutLast(c.order, e)[n] = c.order[i]
      /\ \A m, n \in DOMAIN PutLast(c.order, e) :
           PutLast(c.order, e)[m] = PutLast(c.order, e)[n] => m = n
  BY <1>1, PutLastFact
<1> HIDE DEF d
<1>4. \A x \in H : \E n \in DOMAIN d.order : d.order[n] = x
  BY <1>2, <1>3 DEF CacheOK
<1> QED BY <1>2, <1>3, <1>4 DEF CacheOK, d

\* Loading an extent makes room for it and keeps to the bound.
LEMMA InstalledFact ==
  ASSUME NEW c, CacheOK(c), NEW e \in RawExtents, e \notin DOMAIN c.held,
         NEW v \in Vals, commits = 0 => v = file[e]
  PROVE  /\ CacheOK(Installed(c, e, v))
         /\ e \in DOMAIN Installed(c, e, v).held /\ Installed(c, e, v).held[e] = v
<1> DEFINE H    == DOMAIN c.held
           d    == Installed(c, e, v)
           kept == H \ {Victim(c)}
           left == IF Victim(c) = None THEN c.order ELSE Tail(c.order)
<1>1. /\ c.order \in Seq(H) /\ H \subseteq RawExtents
      /\ \A x \in H : \E n \in DOMAIN c.order : c.order[n] = x
      /\ \A m, n \in DOMAIN c.order : c.order[m] = c.order[n] => m = n
      /\ \A x \in H : c.held[x] \in Vals
      /\ Cardinality(H) <= Bound
  BY DEF CacheOK
<1>2. IsFiniteSet(H) /\ Cardinality(H) \in Nat /\ Bound \in Nat \ {0}
  <2>1. IsFiniteSet(RawExtents)
    <3> DEFINE top == NExtents - 1
    <3>1. top \in Int
      BY PlaneAssumption
    <3> HIDE DEF top
    <3>2. 0 \in Int
      OBVIOUS
    <3>3. IsFiniteSet(0 .. top)
      BY <3>1, <3>2, FS_Interval, Zenon
    <3> QED BY <3>3 DEF RawExtents, top
  <2> QED BY <1>1, <2>1, FS_Subset, FS_CardinalityType, PlaneAssumption
<1>3. None \notin H
  BY <1>1, PlaneAssumption DEF RawExtents, None
<1>4. d.held = [x \in kept \cup {e} |-> IF x = e THEN v ELSE c.held[x]]
      /\ d.order = Append(left, e) /\ d = [held |-> d.held, order |-> d.order]
  BY DEF Installed
<1>5. /\ left \in Seq(kept) /\ IsFiniteSet(kept) /\ Cardinality(kept) + 1 <= Bound
      /\ \A x \in kept : \E n \in DOMAIN left : left[n] = x
      /\ \A m, n \in DOMAIN left : left[m] = left[n] => m = n
  <2>1. CASE Cardinality(H) < Bound
    <3>1. Victim(c) = None /\ kept = H /\ left = c.order
      BY <1>3, <2>1 DEF Victim
    <3> HIDE DEF kept, left
    <3>2. Cardinality(H) + 1 <= Bound
      BY <1>2, <2>1
    <3> QED BY <1>1, <1>2, <3>1, <3>2
  <2>2. CASE ~(Cardinality(H) < Bound)
    <3> DEFINE o == c.order
               h == Head(c.order)
    <3>1. H # {}
      <4>1. Cardinality(H) # 0
        BY <1>2, <2>2
      <4> QED BY <4>1, FS_EmptySet
    <3>2. o # <<>> /\ Len(o) \in Nat \ {0} /\ h = o[1] /\ h \in H
      <4>1. \E n \in DOMAIN o : TRUE
        BY <1>1, <3>1
      <4> QED BY <1>1, <4>1
    <3>3. Victim(c) = h /\ h # None /\ kept = H \ {h} /\ left = Tail(o)
      BY <1>3, <2>2, <3>2 DEF Victim
    <3>4. /\ Tail(o) \in Seq(H) /\ Len(Tail(o)) = Len(o) - 1
          /\ \A n \in 1 .. Len(o) - 1 : Tail(o)[n] = o[n + 1]
      <4>1. o \in Seq(H) /\ o # <<>>
        BY <1>1, <3>2
      <4> HIDE DEF o, H
      <4>2. /\ Tail(o) \in Seq(H) /\ Len(Tail(o)) = Len(o) - 1
            /\ \A i \in 1 .. Len(Tail(o)) : Tail(o)[i] = o[i + 1]
        BY <4>1, HeadTailProperties
      <4> QED BY <4>2
    <3> HIDE DEF o, h, left, kept
    <3>5. \A m, n \in DOMAIN o : o[m] = o[n] => m = n
      BY <1>1 DEF o
    <3>6. \A n \in 1 .. Len(o) - 1 : n + 1 \in DOMAIN o /\ n + 1 # 1
      BY <1>1, <3>2 DEF o
    <3>7. \A n \in 1 .. Len(o) - 1 : Tail(o)[n] \in kept
      <4> TAKE n \in 1 .. Len(o) - 1
      <4>1. Tail(o)[n] = o[n + 1] /\ o[n + 1] \in H
        BY <1>1, <3>4, <3>6 DEF o
      <4>2. 1 \in DOMAIN o
        BY <1>1, <3>2 DEF o
      <4>3. o[n + 1] # h
        BY <3>2, <3>5, <3>6, <4>2
      <4> QED BY <3>3, <4>1, <4>3
    <3>8. left \in Seq(kept)
      <4>1. Tail(o) \in Seq(kept)
        BY <3>4, <3>7, SeqInto
      <4> QED BY <3>3, <4>1
    <3>9. ASSUME NEW x \in kept
          PROVE  \E n \in DOMAIN left : left[n] = x
      <4>1. PICK n \in DOMAIN o : o[n] = x
        BY <1>1, <3>3 DEF o
      <4>2. n # 1 /\ n \in 1 .. Len(o)
        BY <1>1, <3>2, <3>3, <4>1 DEF o
      <4>3. n - 1 \in 1 .. Len(o) - 1 /\ (n - 1) + 1 = n
        BY <3>2, <4>2
      <4>4. n - 1 \in DOMAIN left /\ left[n - 1] = o[n]
        BY <3>3, <3>4, <4>3
      <4> QED BY <4>1, <4>4
    <3>10. ASSUME NEW m \in DOMAIN left, NEW n \in DOMAIN left, left[m] = left[n]
           PROVE  m = n
      <4>1. m \in 1 .. Len(o) - 1 /\ n \in 1 .. Len(o) - 1
        BY <3>3, <3>4
      <4>2. o[m + 1] = o[n + 1] /\ m + 1 \in DOMAIN o /\ n + 1 \in DOMAIN o
        BY <3>3, <3>4, <3>6, <3>10, <4>1
      <4> QED BY <3>5, <4>1, <4>2
    <3>11. IsFiniteSet(kept) /\ Cardinality(kept) = Cardinality(H) - 1
      BY <1>2, <3>2, <3>3, FS_RemoveElement
    <3> QED BY <1>1, <1>2, <2>2, <3>8, <3>9, <3>10, <3>11
  <2> QED BY <2>1, <2>2
<1> HIDE DEF d
<1>6. DOMAIN d.held = kept \cup {e} /\ d.held[e] = v
      /\ \A x \in kept : d.held[x] = c.held[x] /\ d.held[x] \in Vals
  BY <1>1, <1>4
<1> HIDE DEF left, kept
<1>7. e \notin kept /\ kept \subseteq H
  BY DEF kept
<1>8. /\ d.order \in Seq(kept \cup {e}) /\ Len(d.order) = Len(left) + 1
      /\ \A n \in DOMAIN left : n \in DOMAIN d.order /\ d.order[n] = left[n]
      /\ d.order[Len(left) + 1] = e /\ Len(left) + 1 \in DOMAIN d.order
      /\ \A n \in DOMAIN d.order : n \in DOMAIN left \/ n = Len(left) + 1
  <2>1. left \in Seq(kept \cup {e}) /\ Len(left) \in Nat
    BY <1>5
  <2>2. /\ d.order \in Seq(kept \cup {e}) /\ Len(d.order) = Len(left) + 1
        /\ \A n \in 1 .. Len(left) : d.order[n] = left[n]
        /\ d.order[Len(left) + 1] = e
    BY <1>4, <2>1, AppendProperties
  <2>3. DOMAIN left = 1 .. Len(left) /\ DOMAIN d.order = 1 .. Len(left) + 1
    BY <2>1, <2>2
  <2> QED BY <2>1, <2>2, <2>3
<1>9. \A x \in kept \cup {e} : \E n \in DOMAIN d.order : d.order[n] = x
  BY <1>5, <1>8
<1>10. ASSUME NEW m \in DOMAIN d.order, NEW n \in DOMAIN d.order, d.order[m] = d.order[n]
       PROVE  m = n
  <2>1. \A i \in DOMAIN left : left[i] \in kept
    BY <1>5
  <2> QED BY <1>5, <1>7, <1>8, <1>10, <2>1
<1>11. Cardinality(kept \cup {e}) <= Bound
  BY <1>5, <1>7, FS_AddElement
<1>12. commits = 0 => \A x \in kept \cup {e} : d.held[x] = file[x]
  BY <1>6, <1>7 DEF CacheOK
<1>13. d.held \in [DOMAIN d.held -> Vals] /\ DOMAIN d.held \subseteq RawExtents
  <2>1. d.held = [x \in DOMAIN d.held |-> d.held[x]]
    BY <1>4
  <2> QED BY <1>1, <1>6, <1>7, <2>1
<1>14. CacheOK(d)
  <2>1. Cardinality(DOMAIN d.held) <= Bound /\ d.order \in Seq(DOMAIN d.held)
    BY <1>6, <1>8, <1>11
  <2>2. \A x \in DOMAIN d.held : \E n \in DOMAIN d.order : d.order[n] = x
    BY <1>6, <1>9
  <2>3. commits = 0 => \A x \in DOMAIN d.held : d.held[x] = file[x]
    BY <1>6, <1>12
  <2> QED BY <1>4, <1>10, <1>13, <2>1, <2>2, <2>3 DEF CacheOK
<1> QED BY <1>6, <1>14 DEF d

\* An extent is served as the image holds it, from a cache that stays right.
LEMMA ServedFact ==
  ASSUME NEW c, CacheOK(c), NEW e \in RawExtents, file \in [RawExtents -> Vals]
  PROVE  /\ CacheOK(Served(c, e)) /\ e \in DOMAIN Served(c, e).held
         /\ Served(c, e).held[e] \in Vals
         /\ commits = 0 => Served(c, e).held[e] = file[e]
<1>1. CASE e \in DOMAIN c.held
  <2>1. Served(c, e) = Touched(c, e)
    BY <1>1 DEF Served
  <2>2. CacheOK(Touched(c, e)) /\ Touched(c, e).held = c.held
    BY <1>1, TouchedFact
  <2> QED BY <1>1, <2>1, <2>2 DEF CacheOK
<1>2. CASE e \notin DOMAIN c.held
  <2>1. Served(c, e) = Installed(c, e, file[e])
    BY <1>2 DEF Served
  <2>2. file[e] \in Vals
    OBVIOUS
  <2> QED BY <1>2, <2>1, <2>2, InstalledFact
<1> QED BY <1>1, <1>2

\* A read as a function of the last extent served, of those up to m.
Reading(c, first, f, m) ==
  f = [e \in first - 1 .. m |->
         IF e < first THEN [cache |-> c, got |-> <<>>] ELSE Further(f[e - 1], e)]

\* A read of any number of extents comes to a result.
LEMMA ReadingExists ==
  ASSUME NEW c, NEW first \in Nat
  PROVE  \A m \in Nat : first - 1 <= m => \E f : Reading(c, first, f, m)
<1> DEFINE T == {m \in Nat : first - 1 <= m /\ ~\E f : Reading(c, first, f, m)}
<1>1. SUFFICES ASSUME T # {} PROVE FALSE
  OBVIOUS
<1>2. PICK m \in T : \A n \in T : m <= n
  <2>1. T \in SUBSET Nat
    OBVIOUS
  <2> QED BY <1>1, <2>1, LeastNat
<1>3. m \in Nat /\ first - 1 <= m /\ ~\E f : Reading(c, first, f, m)
  BY <1>2
<1> DEFINE start == [cache |-> c, got |-> <<>>]
<1>4. \E f : Reading(c, first, f, first - 1)
  <2> DEFINE g == [e \in first - 1 .. first - 1 |-> start]
  <2>1. \A e \in first - 1 .. first - 1 : e < first
    OBVIOUS
  <2>2. g = [e \in first - 1 .. first - 1 |->
               IF e < first THEN start ELSE Further(g[e - 1], e)]
    BY <2>1, Zenon
  <2> HIDE DEF g
  <2>3. Reading(c, first, g, first - 1)
    BY <2>2 DEF Reading
  <2> QED BY <2>3
<1>5. m # first - 1
  BY <1>3, <1>4
<1>6. \E f : Reading(c, first, f, m - 1)
  <2>1. first - 1 <= m - 1 /\ m - 1 < m
    BY <1>3, <1>5
  <2>2. CASE m - 1 = first - 1
    BY <1>4, <2>2
  <2>3. CASE m - 1 # first - 1
    <3>1. m - 1 \in Nat /\ m - 1 \notin T
      BY <1>2, <1>3, <2>1, <2>3
    <3> QED BY <2>1, <3>1
  <2> QED BY <2>2, <2>3
<1>7. PICK f : Reading(c, first, f, m - 1)
  BY <1>6
<1> DEFINE Grown(x) == IF x < first THEN start ELSE Further(f[x - 1], x)
           g == [e \in first - 1 .. m |-> IF e < m THEN f[e] ELSE Grown(m)]
<1>8. \A e \in first - 1 .. m - 1 : f[e] = Grown(e)
  <2>1. f = [e \in first - 1 .. m - 1 |-> Grown(e)]
    BY <1>7, Zenon DEF Reading
  <2> HIDE DEF Grown
  <2> QED BY <2>1, Zenon
<1>9. \A e \in first - 1 .. m : g[e] = IF e < first THEN start ELSE Further(g[e - 1], e)
  <2> TAKE e \in first - 1 .. m
  <2>1. e >= first => e - 1 \in first - 1 .. m /\ e - 1 < m
    BY <1>3
  <2>2. e >= first => g[e - 1] = f[e - 1]
    BY <2>1
  <2>3. e < m => g[e] = f[e]
    OBVIOUS
  <2>4. g[e] = Grown(e)
    <3>1. CASE e < m
      <4>1. e \in first - 1 .. m - 1
        BY <1>3, <3>1
      <4> QED BY <1>8, <2>3, <3>1, <4>1
    <3>2. CASE ~(e < m)
      <4>1. e = m
        BY <1>3, <3>2
      <4> HIDE DEF Grown
      <4> QED BY <3>2, <4>1
    <3> QED BY <3>1, <3>2
  <2> HIDE DEF g
  <2> QED BY <2>2, <2>4
<1>10. g = [e \in first - 1 .. m |-> IF e < first THEN start ELSE Further(g[e - 1], e)]
  <2> DEFINE G(e) == IF e < first THEN start ELSE Further(g[e - 1], e)
  <2>1. \A e \in first - 1 .. m : g[e] = G(e)
    BY <1>9
  <2>2. g = [e \in first - 1 .. m |-> g[e]]
    OBVIOUS
  <2> HIDE DEF g, G
  <2>3. g = [e \in first - 1 .. m |-> G(e)]
    BY <2>1, <2>2, Zenon
  <2> QED BY <2>3 DEF G
<1> HIDE DEF g
<1>11. Reading(c, first, g, m)
  BY <1>10 DEF Reading
<1> QED BY <1>3, <1>11

\* A read leaves a cache that is right, and answers each extent in its turn.
LEMMA ReadFact ==
  ASSUME PlaneIInv, NEW first \in RawExtents, NEW last \in RawExtents, first <= last
  PROVE  LET r == ReadThrough(first, last)
         IN  /\ CacheOK(r.cache) /\ r.got \in Seq(Vals)
             /\ commits = 0 => \A n \in DOMAIN r.got : r.got[n] = file[first + n - 1]
<1>1. first \in Nat /\ last \in Nat /\ first - 1 <= last /\ RawExtents \subseteq Nat
  BY PlaneAssumption DEF RawExtents
<1> DEFINE f == CHOOSE f : Reading(Cache, first, f, last)
<1>2. ReadThrough(first, last) = f[last]
  BY Zenon DEF ReadThrough, Reading
<1>3. Reading(Cache, first, f, last)
  <2>1. \E g : Reading(Cache, first, g, last)
    <3> HIDE DEF f
    <3> QED BY <1>1, ReadingExists, Zenon
  <2> QED BY <2>1, Zenon
<1> HIDE DEF f
<1>4. f = [e \in first - 1 .. last |->
             IF e < first THEN [cache |-> Cache, got |-> <<>>] ELSE Further(f[e - 1], e)]
  BY <1>3 DEF Reading
<1>5. \A e \in first - 1 .. last :
        f[e] = IF e < first THEN [cache |-> Cache, got |-> <<>>] ELSE Further(f[e - 1], e)
  BY <1>4, Zenon
<1> DEFINE Right(e) ==
             /\ CacheOK(f[e].cache) /\ f[e].got \in Seq(Vals) /\ Len(f[e].got) = e + 1 - first
             /\ commits = 0 => \A n \in 1 .. e + 1 - first : f[e].got[n] = file[first + n - 1]
           T == {k \in Nat : k <= last + 1 - first /\ ~Right(k + first - 1)}
<1>6. Right(first - 1)
  <2>1. first - 1 \in first - 1 .. last /\ first - 1 < first
    BY <1>1
  <2>2. f[first - 1] = [cache |-> Cache, got |-> <<>>]
    BY <1>5, <2>1
  <2>3. f[first - 1].cache = Cache /\ f[first - 1].got = <<>>
    BY <2>2
  <2> QED BY <1>1, <2>3 DEF PlaneIInv
<1>7. ASSUME NEW e \in first .. last, Right(e - 1)
      PROVE  Right(e)
  <2> DEFINE b == f[e - 1]
             a == Served(b.cache, e)
  <2>1. e \in RawExtents /\ e \in Nat /\ e \in first - 1 .. last /\ ~(e < first)
    BY <1>1, PlaneAssumption DEF RawExtents
  <2>2. f[e] = Further(b, e)
    BY <1>5, <2>1
  <2>3. f[e].cache = a /\ f[e].got = Append(b.got, a.held[e])
    BY <2>2 DEF Further
  <2>4. CacheOK(b.cache) /\ b.got \in Seq(Vals) /\ Len(b.got) = e - first
    BY <1>1, <1>7, <2>1
  <2>5. /\ CacheOK(a) /\ a.held[e] \in Vals
        /\ commits = 0 => a.held[e] = file[e]
    BY <2>1, <2>4, ServedFact DEF PlaneIInv
  <2>6. commits = 0 => \A n \in 1 .. e - first : b.got[n] = file[first + n - 1]
    BY <1>1, <1>7, <2>1
  <2> HIDE DEF a, b
  <2>7. /\ f[e].got \in Seq(Vals) /\ Len(f[e].got) = e - first + 1
        /\ \A n \in 1 .. e - first : f[e].got[n] = b.got[n]
        /\ f[e].got[e - first + 1] = a.held[e]
    BY <2>3, <2>4, <2>5, AppendProperties
  <2>8. ASSUME commits = 0, NEW n \in 1 .. e + 1 - first
        PROVE  f[e].got[n] = file[first + n - 1]
    <3>1. CASE n \in 1 .. e - first
      BY <2>6, <2>7, <2>8, <3>1
    <3>2. CASE n \notin 1 .. e - first
      <4>1. n = e - first + 1 /\ first + n - 1 = e
        BY <1>1, <2>1, <3>2
      <4> QED BY <2>5, <2>7, <2>8, <4>1
    <3> QED BY <3>1, <3>2
  <2>9. e - first + 1 = e + 1 - first
    BY <1>1, <2>1
  <2> QED BY <2>3, <2>5, <2>7, <2>8, <2>9
<1>8. T = {}
  <2> SUFFICES ASSUME T # {} PROVE FALSE
    OBVIOUS
  <2>1. PICK k \in T : \A n \in T : k <= n
    <3>1. T \in SUBSET Nat
      OBVIOUS
    <3> QED BY <3>1, LeastNat
  <2>2. k \in Nat /\ k <= last + 1 - first /\ ~Right(k + first - 1)
    BY <2>1
  <2> HIDE DEF Right
  <2>3. k # 0
    <3>1. 0 + first - 1 = first - 1
      BY <1>1
    <3> QED BY <1>6, <2>2, <3>1
  <2>4. k - 1 \in Nat /\ k - 1 <= last + 1 - first /\ k - 1 \notin T
    BY <1>1, <2>1, <2>2, <2>3
  <2>5. Right((k - 1) + first - 1)
    BY <2>4
  <2>6. (k - 1) + first - 1 = (k + first - 1) - 1 /\ k + first - 1 \in first .. last
    BY <1>1, <2>2, <2>3
  <2>7. Right((k + first - 1) - 1)
    BY <2>5, <2>6
  <2>8. Right(k + first - 1)
    BY <1>7, <2>6, <2>7
  <2> QED BY <2>2, <2>8
<1>9. Right(last)
  <2> HIDE DEF Right
  <2>1. last + 1 - first \in Nat /\ (last + 1 - first) + first - 1 = last
    BY <1>1
  <2>2. last + 1 - first \notin T
    BY <1>8
  <2>3. Right((last + 1 - first) + first - 1)
    BY <1>1, <2>1, <2>2
  <2> QED BY <2>1, <2>3
<1>10. DOMAIN f[last].got = 1 .. last + 1 - first
  BY <1>9
<1> QED BY <1>2, <1>9, <1>10

\* The cache is right when it becomes one that is.
LEMMA BecomesFact ==
  ASSUME NEW c, CacheOK(c), Becomes(c), UNCHANGED <<file, commits>>
  PROVE  CacheOK(Cache)'
<1>1. Cache' = c
  BY DEF CacheOK, Becomes, Cache
<1>2. CacheOK(c)'
  BY DEF CacheOK
<1> QED BY <1>1, <1>2 DEF CacheOK

\* A cache that is let alone stays right until something is committed.
LEMMA CacheStands ==
  ASSUME CacheOK(Cache), UNCHANGED <<resident, recency>>, file' \in [RawExtents -> Vals],
         commits' = 0 => commits = 0 /\ file' = file
  PROVE  CacheOK(Cache)'
<1>1. Cache' = Cache
  BY DEF Cache
<1> QED BY <1>1 DEF CacheOK

\* So does what the worker knows,
LEMMA WorkerStands ==
  ASSUME WorkerOK, UNCHANGED worker, commits' = 0 => commits = 0 /\ file' = file
  PROVE  WorkerOK'
<1>1. Target' = Target
  BY DEF Target
<1> QED BY <1>1 DEF WorkerOK

\* and what the last read answered.
LEMMA AnswerStands ==
  ASSUME AnswerOK, UNCHANGED answer, commits' = 0 => commits = 0 /\ file' = file
  PROVE  AnswerOK'
BY DEF AnswerOK

\* An empty cache and a worker waiting are right.
LEMMA PlaneInitial == PlaneInit => PlaneIInv
<1> SUFFICES ASSUME PlaneInit PROVE PlaneIInv
  OBVIOUS
<1>1. Cache = [held |-> resident, order |-> recency] /\ DOMAIN resident = {} /\ recency = <<>>
      /\ resident \in [{} -> Vals]
  BY DEF PlaneInit, Cache
<1>2. CacheOK(Cache)
  <2>1. Cardinality(DOMAIN resident) <= Bound
    BY <1>1, FS_EmptySet, PlaneAssumption
  <2> QED BY <1>1, <2>1 DEF CacheOK
<1>3. WorkerOK /\ AnswerOK
  BY DEF PlaneInit, WorkerOK, AnswerOK, None
<1> QED BY <1>2, <1>3 DEF PlaneInit, PlaneIInv

\* The host's reads, commits and drop keep the invariant.
LEMMA HostKeeps ==
  ASSUME PlaneIInv, Host \/ Joined
  PROVE  PlaneIInv'
<1>1. ASSUME NEW first \in RawExtents, NEW last \in RawExtents, first <= last, Read(first, last)
      PROVE  PlaneIInv'
  <2> DEFINE r == ReadThrough(first, last)
  <2>1. /\ CacheOK(r.cache) /\ r.got \in Seq(Vals)
        /\ commits = 0 => \A n \in DOMAIN r.got : r.got[n] = file[first + n - 1]
    BY <1>1, ReadFact
  <2>2. /\ Becomes(r.cache) /\ answer' = [first |-> first, got |-> r.got]
        /\ demands' = Append(demands, last)
        /\ UNCHANGED <<file, sending, worker, host, todo, commits>>
    BY <1>1 DEF Read
  <2> HIDE DEF r
  <2>3. CacheOK(Cache)'
    BY <2>1, <2>2, BecomesFact
  <2>4. AnswerOK'
    BY <2>1, <2>2 DEF AnswerOK
  <2>5. WorkerOK'
    BY <2>2, WorkerStands DEF PlaneIInv
  <2> QED BY <2>2, <2>3, <2>4, <2>5 DEF PlaneIInv
<1>2. ASSUME NEW first \in RawExtents, NEW last \in RawExtents, first <= last, ReadFails(first, last)
      PROVE  PlaneIInv'
  <2> DEFINE r == ReadThrough(first, last - 1)
  <2>1. last - 1 \in RawExtents /\ first <= last - 1
    BY <1>2, PlaneAssumption DEF ReadFails, RawExtents
  <2>2. CacheOK(r.cache)
    BY <2>1, ReadFact
  <2>3. Becomes(r.cache) /\ UNCHANGED <<file, demands, sending, worker, host, todo, answer, commits>>
    BY <1>2 DEF ReadFails
  <2> HIDE DEF r
  <2>4. CacheOK(Cache)'
    BY <2>2, <2>3, BecomesFact
  <2>5. WorkerOK' /\ AnswerOK'
    BY <2>3, WorkerStands, AnswerStands DEF PlaneIInv
  <2> QED BY <2>3, <2>4, <2>5 DEF PlaneIInv
<1>3. ASSUME /\ UNCHANGED <<resident, recency, demands, worker, answer>>
             /\ file' \in [RawExtents -> Vals] /\ commits' \in Nat /\ todo' \subseteq RawExtents
             /\ host' = "committing" => commits' # 0
             /\ commits' = 0 => commits = 0 /\ file' = file
      PROVE  PlaneIInv'
  <2>1. CacheOK(Cache)' /\ WorkerOK' /\ AnswerOK'
    BY <1>3, CacheStands, WorkerStands, AnswerStands DEF PlaneIInv
  <2> QED BY <1>3, <2>1 DEF PlaneIInv
<1>4. ASSUME NEW E \in SUBSET RawExtents, CommitStarts(E)
      PROVE  PlaneIInv'
  BY <1>3, <1>4 DEF CommitStarts, PlaneIInv
<1>5. ASSUME NEW e \in RawExtents, NEW v \in Vals, Apply(e, v)
      PROVE  PlaneIInv'
  BY <1>3, <1>5 DEF Apply, PlaneIInv
<1>6. CASE DropPlane
  BY <1>3, <1>6 DEF DropPlane, PlaneIInv
<1>7. CASE Joined
  BY <1>3, <1>7 DEF Joined, PlaneIInv
<1> QED BY <1>1, <1>2, <1>4, <1>5, <1>6, <1>7 DEF Host

\* So does the worker, which reads with no lock held and inserts under the lock.
LEMMA ReaderKeeps ==
  ASSUME PlaneIInv, Reader
  PROVE  PlaneIInv'
<1> DEFINE Workers == [at : {"recv", "look", "read", "insert", "ended"}, extent : RawExtents \cup {None},
                       ahead : Nat, previous : RawExtents \cup {None}, data : Vals \cup {None}]
<1>1. worker \in Workers /\ WorkerOK
  BY DEF PlaneIInv, WorkerOK
<1>2. RawExtents \subseteq Nat /\ \A i \in Nat : i < NExtents => i \in RawExtents
  BY PlaneAssumption DEF RawExtents
<1>3. Waiting \in Workers /\ Waiting.at = "recv"
  BY <1>1 DEF Waiting
<1>4. ASSUME UNCHANGED <<file, resident, recency, hostVars>>, demands' \in Seq(RawExtents), WorkerOK'
      PROVE  PlaneIInv'
  <2>1. UNCHANGED <<host, todo, answer, reads, commits>>
    BY <1>4 DEF hostVars
  <2>2. CacheOK(Cache)' /\ AnswerOK'
    BY <1>4, <2>1, CacheStands, AnswerStands DEF PlaneIInv
  <2> QED BY <1>4, <2>1, <2>2 DEF PlaneIInv
<1>5. demands \in Seq(RawExtents)
  BY DEF PlaneIInv
<1>6. CASE Receive
  <2> DEFINE extent == Last(demands)
  <2>1. extent \in RawExtents
    BY <1>5, <1>6 DEF Last, Receive
  <2>2. worker' \in {[worker EXCEPT !.at = "look", !.extent = extent, !.ahead = 1, !.previous = extent],
                    [worker EXCEPT !.previous = extent]} /\ worker.at = "recv"
    BY <1>6 DEF Receive
  <2> HIDE DEF extent
  <2>3. worker' \in Workers /\ worker'.at \in {"look", "recv"}
        /\ (worker'.at = "look" => worker'.extent \in RawExtents)
    <3>1. CASE worker' = [worker EXCEPT !.previous = extent]
      BY <1>1, <2>1, <2>2, <3>1
    <3>2. CASE worker' = [worker EXCEPT !.at = "look", !.extent = extent, !.ahead = 1,
                                        !.previous = extent]
      <4>1. worker' = [at |-> "look", extent |-> extent, ahead |-> 1, previous |-> extent,
                       data |-> worker.data]
        BY <1>1, <3>2
      <4> QED BY <1>1, <2>1, <4>1
    <3> QED BY <2>2, <3>1, <3>2
  <2>4. WorkerOK'
    BY <2>3 DEF WorkerOK
  <2>5. demands' \in Seq(RawExtents)
    BY <1>6 DEF Receive
  <2> QED BY <1>4, <1>6, <2>4, <2>5 DEF Receive
<1>7. CASE ChannelClosed
  <2>1. worker' \in Workers /\ worker'.at = "ended"
    BY <1>1, <1>7 DEF ChannelClosed
  <2>2. WorkerOK'
    BY <2>1 DEF WorkerOK
  <2> QED BY <1>4, <1>5, <1>7, <2>2 DEF ChannelClosed
<1>8. CASE Look
  <2>1. worker.extent \in RawExtents /\ worker.ahead \in Nat /\ Target \in Nat
    BY <1>1, <1>2, <1>8 DEF Look, WorkerOK, Target
  <2>2. \/ worker' = Waiting
        \/ worker' = [worker EXCEPT !.ahead = @ + 1]
        \/ worker' = [worker EXCEPT !.at = "read"] /\ ~(Target >= NExtents)
    BY <1>8 DEF Look
  <2>3. WorkerOK'
    <3>1. CASE worker' = Waiting
      BY <1>3, <3>1 DEF WorkerOK
    <3>2. CASE worker' = [worker EXCEPT !.ahead = @ + 1]
      <4>1. worker' \in Workers /\ worker'.at = "look" /\ worker'.extent \in RawExtents
        BY <1>1, <1>8, <2>1, <3>2 DEF Look
      <4> QED BY <4>1 DEF WorkerOK
    <3>3. CASE worker' = [worker EXCEPT !.at = "read"] /\ ~(Target >= NExtents)
      <4>1. worker' \in Workers /\ worker'.at = "read" /\ worker'.extent \in RawExtents
        BY <1>1, <2>1, <3>3
      <4>2. Target' = Target /\ Target \in RawExtents
        BY <1>1, <1>2, <2>1, <3>3, PlaneAssumption DEF Target
      <4> QED BY <4>1, <4>2 DEF WorkerOK
    <3> QED BY <2>2, <3>1, <3>2, <3>3
  <2> QED BY <1>4, <1>5, <1>8, <2>3 DEF Look
<1>9. CASE ReadAhead
  <2>1. worker.extent \in RawExtents /\ Target \in RawExtents /\ file[Target] \in Vals
    BY <1>1, <1>9 DEF ReadAhead, WorkerOK, PlaneIInv
  <2>2. UNCHANGED <<file, commits>>
    BY <1>9 DEF ReadAhead, hostVars
  <2>3. WorkerOK'
    <3>1. CASE worker' = Waiting
      BY <1>3, <3>1 DEF WorkerOK
    <3>2. CASE worker' = [worker EXCEPT !.at = "insert", !.data = file[Target]]
      <4>1. worker' \in Workers /\ worker'.at = "insert" /\ worker'.extent \in RawExtents
            /\ worker'.data = file[Target]
        BY <1>1, <2>1, <3>2
      <4>2. Target' = Target
        BY <1>1, <3>2 DEF Target
      <4> QED BY <2>1, <2>2, <4>1, <4>2 DEF WorkerOK
    <3> QED BY <1>9, <3>1, <3>2 DEF ReadAhead
  <2> QED BY <1>4, <1>5, <1>9, <2>3 DEF ReadAhead
<1>10. CASE InsertPrefetched
  <2>1. /\ worker.at = "insert" /\ worker.extent \in RawExtents /\ Target \in RawExtents
        /\ worker.data \in Vals /\ (commits = 0 => worker.data = file[Target])
    BY <1>1, <1>10 DEF InsertPrefetched, WorkerOK
  <2>2. UNCHANGED <<file, demands, sending, host, todo, answer, reads, commits>>
    BY <1>10 DEF InsertPrefetched, hostVars
  <2>3. WorkerOK'
    <3>1. worker' = [worker EXCEPT !.at = "look", !.ahead = @ + 1, !.data = None]
      BY <1>10 DEF InsertPrefetched
    <3>2. worker' = [at |-> "look", extent |-> worker.extent, ahead |-> worker.ahead + 1,
                     previous |-> worker.previous, data |-> None]
      BY <1>1, <3>1
    <3>3. worker' \in Workers /\ worker'.at = "look" /\ worker'.extent \in RawExtents
      BY <1>1, <2>1, <3>2
    <3> QED BY <3>3 DEF WorkerOK
  <2>4. CacheOK(Cache)'
    <3>1. CASE Target \in DOMAIN resident
      BY <1>10, <2>2, <3>1, CacheStands DEF InsertPrefetched, PlaneIInv
    <3>2. CASE Target \notin DOMAIN resident
      <4>1. Becomes(Installed(Cache, Target, worker.data))
        BY <1>10, <3>2 DEF InsertPrefetched
      <4>2. CacheOK(Installed(Cache, Target, worker.data))
        <5>1. Target \notin DOMAIN Cache.held /\ CacheOK(Cache)
          BY <3>2 DEF Cache, PlaneIInv
        <5> QED BY <2>1, <5>1, InstalledFact
      <4> QED BY <2>2, <4>1, <4>2, BecomesFact
    <3> QED BY <3>1, <3>2
  <2>5. AnswerOK'
    BY <2>2, AnswerStands DEF PlaneIInv
  <2> QED BY <2>2, <2>3, <2>4, <2>5 DEF PlaneIInv
<1> QED BY <1>6, <1>7, <1>8, <1>9, <1>10 DEF Reader

\* A step that changes nothing of the plane keeps the invariant.
LEMMA PlaneStands == PlaneIInv /\ UNCHANGED planeVars => PlaneIInv'
<1> SUFFICES ASSUME PlaneIInv, UNCHANGED planeVars PROVE PlaneIInv'
  OBVIOUS
<1>1. UNCHANGED <<file, resident, recency, demands, sending, worker, host, todo, answer, reads, commits>>
  BY DEF planeVars
<1>2. CacheOK(Cache)' /\ WorkerOK' /\ AnswerOK'
  BY <1>1, CacheStands, WorkerStands, AnswerStands DEF PlaneIInv
<1> QED BY <1>1, <1>2 DEF PlaneIInv

\* The invariant says what the plane promises.
LEMMA PlaneIs == PlaneIInv => PlaneIsTheImage
<1> SUFFICES ASSUME PlaneIInv PROVE PlaneIsTheImage
  OBVIOUS
<1>1. Cache.held = resident /\ Cache.order = recency /\ CacheOK(Cache) /\ AnswerOK
  BY DEF Cache, PlaneIInv
<1>2. ToSet(recency) = DOMAIN resident
  <2>1. /\ recency \in Seq(DOMAIN resident)
        /\ \A e \in DOMAIN resident : \E n \in DOMAIN recency : recency[n] = e
    BY <1>1 DEF CacheOK
  <2>2. \A n \in DOMAIN recency : recency[n] \in DOMAIN resident
    BY <2>1
  <2>3. ToSet(recency) = {recency[n] : n \in DOMAIN recency}
    BY Zenon DEF ToSet
  <2> QED BY <2>1, <2>2, <2>3, Zenon
<1> QED BY <1>1, <1>2 DEF PlaneIsTheImage, CacheOK, AnswerOK

\* What the raw plane holds and answers is the image's own, however the reads,
\* the worker and the drop interleave, until something is committed.
THEOREM PlaneTheorem == PlaneSpec => []PlaneIsTheImage
<1>1. PlaneIInv /\ [PlaneNext]_planeVars => PlaneIInv'
  BY HostKeeps, ReaderKeeps, PlaneStands DEF PlaneNext
<1> QED BY <1>1, PlaneInitial, PlaneIs, PTL DEF PlaneSpec

-----------------------------------------------------------------------------
(* The coverage account *)

\* A region of the account, and what two of them share.
Regions == [start : Nat, count : Nat \ {0}, class : Classes \cup {Opaque}]

Spans(g, u) == g.start <= u /\ u < EndOf(g)
Apart(g, h)    == EndOf(g) <= h.start \/ EndOf(h) <= g.start

\* A claim is a run of units, and not an empty one.
LEMMA ClaimFact ==
  ASSUME NEW s, ClaimsOK(s)
  PROVE  \A k \in 1 .. Len(s) : /\ s[k] \in Claims /\ s[k] \in Regions /\ s[k].class # Opaque
                                 /\ EndOf(s[k]) \in Nat /\ s[k].start \in Nat
                                 /\ s[k].start < EndOf(s[k])
<1> TAKE k \in 1 .. Len(s)
<1>1. s[k] \in Claims
  BY DEF ClaimsOK
<1> QED BY <1>1, CoverAssumption DEF Claims, Regions, EndOf

\* The account a spends the units before e, each on one region: on the claim
\* that covers it, of the first n, or on none.
Covers(s, a, n, e) ==
  /\ a \in Seq(Regions)
  /\ \A i \in 1 .. Len(a) : a[i].start = IF i = 1 THEN 0 ELSE EndOf(a[i - 1])
  /\ e = IF a = <<>> THEN 0 ELSE EndOf(a[Len(a)])
  /\ \A i \in 1 .. Len(a) : EndOf(a[i]) <= e
  /\ \A i, j \in 1 .. Len(a) : i < j => EndOf(a[i]) <= a[j].start
  /\ \A u \in 0 .. e - 1 : \E i \in 1 .. Len(a) : Spans(a[i], u)
  /\ \A i \in 1 .. Len(a) :
       \/ \E k \in 1 .. n : a[i] = s[k]
       \/ a[i].class = Opaque /\ \A k \in 1 .. Len(s) : Apart(a[i], s[k])
  /\ \A k \in 1 .. n : \E i \in 1 .. Len(a) : a[i] = s[k]

\* One region more: the next claim, or one that meets no claim.
LEMMA OneMore ==
  ASSUME NEW s, NEW a, NEW n \in Nat, NEW m \in {n, n + 1}, NEW e \in Nat,
         NEW g \in Regions, g.start = e, Covers(s, a, n, e),
         \/ m = n + 1 /\ g = s[m]
         \/ m = n /\ g.class = Opaque /\ \A k \in 1 .. Len(s) : Apart(g, s[k])
  PROVE  Covers(s, a \o <<g>>, m, EndOf(g))
<1> DEFINE b == a \o <<g>>
           l == Len(a)
<1>1. a \in Seq(Regions) /\ l \in Nat
  BY DEF Covers
<1>2. b \in Seq(Regions) /\ Len(b) = l + 1 /\ b # <<>> /\ b[l + 1] = g
      /\ \A i \in 1 .. l : b[i] = a[i]
  BY <1>1
<1> HIDE DEF b
<1>3. EndOf(g) \in Nat /\ e < EndOf(g) /\ EndOf(g) = e + g.count
  BY DEF EndOf, Regions
<1>4. \A i \in 1 .. l : a[i] \in Regions /\ EndOf(a[i]) \in Nat /\ a[i].start \in Nat
  <2> TAKE i \in 1 .. l
  <2>1. a[i] \in Regions
    BY <1>1
  <2> QED BY <2>1 DEF EndOf, Regions
<1>5. \A i \in 1 .. l + 1 : b[i].start = IF i = 1 THEN 0 ELSE EndOf(b[i - 1])
  <2> TAKE i \in 1 .. l + 1
  <2>1. CASE i = l + 1
    <3>1. CASE l = 0
      <4>1. a = <<>>
        BY <1>1, <3>1
      <4> QED BY <2>1, <3>1, <4>1, <1>2 DEF Covers
    <3>2. CASE l # 0
      <4>1. a # <<>> /\ e = EndOf(a[l])
        BY <1>1, <3>2 DEF Covers
      <4>2. b[i - 1] = a[l] /\ i # 1
        BY <1>1, <1>2, <2>1, <3>2
      <4> QED BY <2>1, <4>1, <4>2, <1>2
    <3> QED BY <3>1, <3>2
  <2>2. CASE i # l + 1
    <3>1. i \in 1 .. l /\ b[i] = a[i] /\ (i # 1 => b[i - 1] = a[i - 1])
      BY <1>1, <1>2, <2>2
    <3> QED BY <3>1 DEF Covers
  <2> QED BY <2>1, <2>2
<1>6. EndOf(g) = IF b = <<>> THEN 0 ELSE EndOf(b[Len(b)])
  BY <1>2
<1>7. \A i \in 1 .. l + 1 : EndOf(b[i]) <= EndOf(g)
  <2> TAKE i \in 1 .. l + 1
  <2>1. CASE i = l + 1
    BY <1>2, <1>3, <2>1
  <2>2. CASE i # l + 1
    <3>1. i \in 1 .. l /\ b[i] = a[i] /\ EndOf(a[i]) <= e
      BY <1>1, <1>2, <2>2 DEF Covers
    <3> QED BY <3>1, <1>3, <1>4
  <2> QED BY <2>1, <2>2
<1>8. \A i, j \in 1 .. l + 1 : i < j => EndOf(b[i]) <= b[j].start
  <2> TAKE i, j \in 1 .. l + 1
  <2> SUFFICES ASSUME i < j PROVE EndOf(b[i]) <= b[j].start
    OBVIOUS
  <2>1. i \in 1 .. l /\ b[i] = a[i] /\ EndOf(a[i]) <= e
    BY <1>1, <1>2 DEF Covers
  <2>2. CASE j = l + 1
    BY <1>2, <2>1, <2>2
  <2>3. CASE j # l + 1
    <3>1. j \in 1 .. l /\ b[j] = a[j]
      BY <1>1, <1>2, <2>3
    <3> QED BY <2>1, <3>1 DEF Covers
  <2> QED BY <2>2, <2>3
<1>9. \A u \in 0 .. EndOf(g) - 1 : \E i \in 1 .. l + 1 : Spans(b[i], u)
  <2> TAKE u \in 0 .. EndOf(g) - 1
  <2>1. CASE u < e
    <3>1. u \in 0 .. e - 1
      BY <1>3, <2>1
    <3>2. PICK i \in 1 .. l : Spans(a[i], u)
      BY <3>1 DEF Covers
    <3>3. i \in 1 .. l + 1 /\ b[i] = a[i]
      BY <1>1, <1>2
    <3> QED BY <3>2, <3>3
  <2>2. CASE ~(u < e)
    <3>1. Spans(g, u)
      BY <1>3, <2>2 DEF Spans
    <3>2. l + 1 \in 1 .. l + 1
      BY <1>1
    <3> QED BY <1>2, <3>1, <3>2
  <2> QED BY <2>1, <2>2
<1>10. \A i \in 1 .. l + 1 :
         \/ \E k \in 1 .. m : b[i] = s[k]
         \/ b[i].class = Opaque /\ \A k \in 1 .. Len(s) : Apart(b[i], s[k])
  <2> TAKE i \in 1 .. l + 1
  <2>1. CASE i = l + 1
    <3>1. CASE m = n + 1 /\ g = s[m]
      <4>1. m \in 1 .. m
        BY <3>1
      <4> QED BY <1>2, <2>1, <3>1, <4>1
    <3>2. CASE m = n /\ g.class = Opaque /\ \A k \in 1 .. Len(s) : Apart(g, s[k])
      BY <1>2, <2>1, <3>2
    <3> QED BY <3>1, <3>2
  <2>2. CASE i # l + 1
    <3>1. i \in 1 .. l /\ b[i] = a[i]
      BY <1>1, <1>2, <2>2
    <3>2. \A k \in 1 .. n : k \in 1 .. m
      OBVIOUS
    <3>3. \/ \E k \in 1 .. n : a[i] = s[k]
          \/ a[i].class = Opaque /\ \A k \in 1 .. Len(s) : Apart(a[i], s[k])
      BY <3>1 DEF Covers
    <3> QED BY <3>1, <3>2, <3>3
  <2> QED BY <2>1, <2>2
<1>11. \A k \in 1 .. m : \E i \in 1 .. l + 1 : b[i] = s[k]
  <2> TAKE k \in 1 .. m
  <2>1. CASE k \in 1 .. n
    <3>1. PICK i \in 1 .. l : a[i] = s[k]
      BY <2>1 DEF Covers
    <3>2. i \in 1 .. l + 1 /\ b[i] = a[i]
      BY <1>1, <1>2
    <3> QED BY <3>1, <3>2
  <2>2. CASE k \notin 1 .. n
    <3>1. m = n + 1 /\ k = m /\ g = s[m]
      BY <2>2
    <3>2. l + 1 \in 1 .. l + 1
      BY <1>1
    <3> QED BY <1>2, <3>1, <3>2
  <2> QED BY <2>1, <2>2
<1>12. Covers(s, b, m, EndOf(g))
  BY <1>2, <1>5, <1>6, <1>7, <1>8, <1>9, <1>10, <1>11, Zenon DEF Covers
<1> QED BY <1>12 DEF b

\* The gap before a claim, or after the last, and then what follows it.
LEMMA GapFact ==
  ASSUME NEW s, NEW a, NEW n \in Nat, NEW e \in Nat, NEW to \in Nat, e <= to,
         Covers(s, a, n, e),
         \A k \in 1 .. Len(s) : EndOf(s[k]) <= e \/ to <= s[k].start
  PROVE  Covers(s, a \o Gap(e, to), n, to)
<1>1. CASE e < to
  <2> DEFINE g == Region(e, to - e, Opaque)
  <2>1. g \in Regions /\ g.start = e /\ EndOf(g) = to /\ g.class = Opaque
    BY <1>1 DEF Region, Regions, EndOf
  <2>2. Gap(e, to) = <<g>>
    BY <1>1 DEF Gap
  <2> HIDE DEF g
  <2>3. \A k \in 1 .. Len(s) : Apart(g, s[k])
    BY <2>1 DEF Apart
  <2> QED BY <2>1, <2>2, <2>3, OneMore
<1>2. CASE ~(e < to)
  <2>1. Gap(e, to) = <<>> /\ e = to
    BY <1>2 DEF Gap
  <2>2. a \o <<>> = a
    BY DEF Covers
  <2> QED BY <2>1, <2>2
<1> QED BY <1>1, <1>2

\* The loop over the claims, as a function of how far it has come.
Upto(s, f, m) ==
  f = [n \in 0 .. m |->
         IF n = 0 THEN <<>> ELSE f[n - 1] \o Gap(Before(s, n - 1), s[n].start) \o <<s[n]>>]

\* It comes to a result however many claims there are.
LEMMA UptoExists ==
  ASSUME NEW s
  PROVE  \A m \in Nat : \E f : Upto(s, f, m)
<1> DEFINE T == {m \in Nat : ~\E f : Upto(s, f, m)}
           On(a, n) == a \o Gap(Before(s, n - 1), s[n].start) \o <<s[n]>>
<1>1. SUFFICES ASSUME T # {} PROVE FALSE
  OBVIOUS
<1>2. PICK m \in T : \A n \in T : m <= n
  BY <1>1, LeastNat
<1>3. m \in Nat /\ ~\E f : Upto(s, f, m)
  BY <1>2
<1>4. CASE m = 0
  <2>1. Upto(s, [n \in 0 .. 0 |-> <<>>], 0)
    BY DEF Upto
  <2> QED BY <2>1, <1>3, <1>4
<1>5. CASE m # 0
  <2>1. m - 1 \in Nat /\ m - 1 \notin T
    BY <1>2, <1>3, <1>5
  <2>2. PICK f : Upto(s, f, m - 1)
    BY <2>1
  <2> HIDE DEF T
  <2> DEFINE g == [n \in 0 .. m |-> IF n < m THEN f[n] ELSE On(f[m - 1], m)]
  <2>3. \A n \in 0 .. m - 1 : f[n] = IF n = 0 THEN <<>> ELSE On(f[n - 1], n)
    BY <2>2, Zenon DEF Upto
  <2> HIDE DEF On
  <2>4. \A n \in 0 .. m : g[n] = IF n = 0 THEN <<>> ELSE On(g[n - 1], n)
    <3> TAKE n \in 0 .. m
    <3>1. CASE n = m
      <4>1. g[n] = On(f[n - 1], n)
        BY <3>1, <1>3
      <4>2. n # 0 /\ g[n - 1] = f[n - 1]
        BY <3>1, <1>3, <1>5
      <4> QED BY <4>1, <4>2
    <3>2. CASE n # m
      <4>1. n \in 0 .. m - 1 /\ g[n] = f[n]
        BY <3>2, <1>3
      <4>2. n # 0 => g[n - 1] = f[n - 1]
        BY <4>1, <1>3
      <4> QED BY <4>1, <4>2, <2>3
    <3> QED BY <3>1, <3>2
  <2>5. g = [n \in 0 .. m |-> IF n = 0 THEN <<>> ELSE On(g[n - 1], n)]
    BY <2>4, Zenon
  <2>6. Upto(s, g, m)
    BY <2>5, Zenon DEF Upto, On
  <2> QED BY <2>6, <1>3
<1> QED BY <1>3, <1>4, <1>5

\* Up to each claim the account spends what lies before the claim's end.
LEMMA UptoFact ==
  ASSUME NEW s, ClaimsOK(s), NEW f, Upto(s, f, Len(s))
  PROVE  \A m \in 0 .. Len(s) : Covers(s, f[m], m, Before(s, m))
<1> DEFINE T == {m \in 0 .. Len(s) : ~Covers(s, f[m], m, Before(s, m))}
<1>1. SUFFICES ASSUME T # {} PROVE FALSE
  OBVIOUS
<1>2. PICK m \in T : \A n \in T : m <= n
  <2>1. T \in SUBSET Nat
    BY DEF ClaimsOK
  <2> QED BY <1>1, <2>1, LeastNat
<1>3. m \in 0 .. Len(s) /\ ~Covers(s, f[m], m, Before(s, m))
  BY <1>2
<1>4. f[m] = IF m = 0 THEN <<>>
             ELSE f[m - 1] \o Gap(Before(s, m - 1), s[m].start) \o <<s[m]>>
  <2>1. \A n \in 0 .. Len(s) :
          f[n] = IF n = 0 THEN <<>>
                 ELSE f[n - 1] \o Gap(Before(s, n - 1), s[n].start) \o <<s[n]>>
    BY Zenon DEF Upto
  <2> QED BY <1>3, <2>1, Zenon
<1>5. CASE m = 0
  <2>1. Covers(s, <<>>, 0, 0)
    BY DEF Covers
  <2> QED BY <2>1, <1>3, <1>4, <1>5 DEF Before
<1>6. CASE m # 0
  <2> DEFINE e == Before(s, m - 1)
  <2>1. m - 1 \in Nat /\ m - 1 \in 0 .. Len(s) /\ m \in 1 .. Len(s) /\ m - 1 \notin T
    BY <1>2, <1>3, <1>6 DEF ClaimsOK
  <2>2. Covers(s, f[m - 1], m - 1, e)
    BY <2>1
  <2> HIDE DEF T
  <2>3. \A k \in 1 .. Len(s) : s[k] \in Claims /\ EndOf(s[k]) \in Nat
    BY ClaimFact
  <2>4. s[m] \in Regions /\ s[m].start \in Nat /\ EndOf(s[m]) = Before(s, m)
    BY <2>1, <2>3, <1>6 DEF Claims, Regions, Before
  <2>5. e \in Nat /\ e <= s[m].start
    <3>1. CASE m = 1
      BY <2>4, <3>1 DEF Before
    <3>2. CASE m # 1
      <4>1. m - 1 \in 1 .. Len(s) /\ m - 1 < m /\ e = EndOf(s[m - 1])
        BY <2>1, <3>2 DEF Before
      <4>2. EndOf(s[m - 1]) <= s[m].start
        BY <2>1, <4>1 DEF ClaimsOK
      <4> QED BY <2>3, <4>1, <4>2
    <3> QED BY <3>1, <3>2
  <2>6. \A k \in 1 .. Len(s) : EndOf(s[k]) <= e \/ s[m].start <= s[k].start
    <3> TAKE k \in 1 .. Len(s)
    <3>1. CASE k < m
      <4>1. m # 1 /\ m - 1 \in 1 .. Len(s) /\ e = EndOf(s[m - 1])
        BY <2>1, <3>1 DEF Before
      <4>2. CASE k = m - 1
        BY <4>1, <4>2, <2>3
      <4>3. CASE k # m - 1
        <5>1. k < m - 1
          BY <2>1, <3>1, <4>3
        <5>2. EndOf(s[k]) <= s[m - 1].start
          BY <4>1, <5>1 DEF ClaimsOK
        <5>3. s[m - 1].start <= EndOf(s[m - 1]) /\ s[m - 1].start \in Nat
          BY <2>3, <4>1 DEF Claims, EndOf
        <5> QED BY <4>1, <5>2, <5>3, <2>3
      <4> QED BY <4>2, <4>3
    <3>2. CASE k = m
      BY <2>4, <3>2
    <3>3. CASE m < k
      <4>1. EndOf(s[m]) <= s[k].start
        BY <2>1, <3>3 DEF ClaimsOK
      <4>2. s[m].start <= EndOf(s[m]) /\ s[k].start \in Nat
        BY <2>3, <2>1 DEF Claims, EndOf
      <4> QED BY <4>1, <4>2, <2>3, <2>4, <2>1
    <3> QED BY <2>1, <3>1, <3>2, <3>3
  <2> HIDE DEF e
  <2> DEFINE b == f[m - 1] \o Gap(e, s[m].start)
  <2>7. Covers(s, b, m - 1, s[m].start)
    BY <2>1, <2>2, <2>4, <2>5, <2>6, GapFact
  <2> HIDE DEF b
  <2>8. Covers(s, b \o <<s[m]>>, m, EndOf(s[m]))
    <3>1. m \in {m - 1, (m - 1) + 1} /\ m = (m - 1) + 1
      BY <2>1
    <3> QED BY <2>1, <2>4, <2>7, <3>1, OneMore
  <2>9. f[m] = b \o <<s[m]>>
    BY <1>4, <1>6 DEF b, e
  <2> QED BY <1>3, <2>4, <2>8, <2>9
<1> QED BY <1>5, <1>6

\* The finished account spends every unit of the floor.
LEMMA FinishedFact ==
  ASSUME NEW s, ClaimsOK(s)
  PROVE  Covers(s, Finished(s), Len(s), Floor)
<1> DEFINE f == CHOOSE f : Upto(s, f, Len(s))
           e == Before(s, Len(s))
<1>1. Finished(s) = f[Len(s)] \o Gap(e, Floor)
  BY DEF Finished, Upto
<1>2. Len(s) \in Nat
  BY DEF ClaimsOK
<1>3. Upto(s, f, Len(s))
  BY <1>2, UptoExists
<1> HIDE DEF f
<1>4. Covers(s, f[Len(s)], Len(s), e)
  <2>1. Len(s) \in 0 .. Len(s)
    BY <1>2
  <2> QED BY <1>3, <2>1, UptoFact
<1>5. e \in Nat /\ e <= Floor /\ \A k \in 1 .. Len(s) : EndOf(s[k]) <= e
  <2>1. \A k \in 1 .. Len(s) : s[k] \in Claims /\ EndOf(s[k]) \in Nat /\ s[k].start \in Nat
                               /\ s[k].start <= EndOf(s[k])
    BY ClaimFact
  <2>2. CASE Len(s) = 0
    BY <2>2, CoverAssumption DEF Before
  <2>3. CASE Len(s) # 0
    <3>1. Len(s) \in 1 .. Len(s) /\ e = EndOf(s[Len(s)])
      BY <1>2, <2>3 DEF Before
    <3>2. e \in Nat /\ e <= Floor
      BY <2>1, <3>1 DEF ClaimsOK
    <3>3. ASSUME NEW k \in 1 .. Len(s) PROVE EndOf(s[k]) <= e
      <4>1. k # Len(s) => EndOf(s[k]) <= s[Len(s)].start
        BY <1>2, <3>1 DEF ClaimsOK
      <4> QED BY <2>1, <3>1, <4>1
    <3> QED BY <3>2, <3>3
  <2> QED BY <2>2, <2>3
<1> HIDE DEF e
<1>6. \A k \in 1 .. Len(s) : EndOf(s[k]) <= e \/ Floor <= s[k].start
  BY <1>5
<1> QED BY <1>1, <1>2, <1>4, <1>5, <1>6, GapFact, CoverAssumption

\* The account says of a unit what the claim that covers it says, and calls it
\* opaque where none does.
LEMMA SpentFact ==
  ASSUME NEW s, ClaimsOK(s), NEW u \in 0 .. Floor - 1
  PROVE  /\ \A k \in 1 .. Len(s) : Spans(s[k], u) => SpentOn(Finished(s), u) = s[k].class
         /\ (\A k \in 1 .. Len(s) : ~Spans(s[k], u)) => SpentOn(Finished(s), u) = Opaque
<1> DEFINE a == Finished(s)
<1>1. Covers(s, a, Len(s), Floor)
  BY FinishedFact
<1> HIDE DEF a
<1>2. PICK i \in 1 .. Len(a) : Spans(a[i], u)
  BY <1>1 DEF Covers
<1>3. a \in Seq(Regions) /\ Len(a) \in Nat /\ DOMAIN a = 1 .. Len(a) /\ u \in Int
  BY <1>1 DEF Covers
<1>4. \A j \in 1 .. Len(a) : EndOf(a[j]) \in Nat /\ a[j].start \in Nat
  <2> TAKE j \in 1 .. Len(a)
  <2>1. a[j] \in Regions
    BY <1>3
  <2> QED BY <2>1 DEF Regions, EndOf
<1>5. ASSUME NEW j \in 1 .. Len(a), Spans(a[j], u)
      PROVE  j = i
  <2>1. CASE i < j
    <3>1. EndOf(a[i]) <= a[j].start
      BY <1>1, <2>1 DEF Covers
    <3> QED BY <1>2, <1>3, <1>4, <1>5, <3>1 DEF Spans
  <2>2. CASE j < i
    <3>1. EndOf(a[j]) <= a[i].start
      BY <1>1, <2>2 DEF Covers
    <3> QED BY <1>2, <1>3, <1>4, <1>5, <3>1 DEF Spans
  <2> QED BY <1>3, <2>1, <2>2
<1>6. SpentOn(a, u) = a[i].class
  <2>1. (CHOOSE n \in DOMAIN a : a[n].start <= u /\ u < EndOf(a[n])) = i
    BY <1>2, <1>3, <1>5 DEF Spans
  <2> QED BY <2>1 DEF SpentOn
<1>7. ASSUME NEW k \in 1 .. Len(s), Spans(s[k], u)
      PROVE  SpentOn(a, u) = s[k].class
  <2>1. PICK j \in 1 .. Len(a) : a[j] = s[k]
    BY <1>1 DEF Covers
  <2>2. j = i
    BY <1>5, <1>7, <2>1
  <2> QED BY <1>6, <2>1, <2>2
<1>8. ASSUME \A k \in 1 .. Len(s) : ~Spans(s[k], u)
      PROVE  SpentOn(a, u) = Opaque
  <2>1. ~\E k \in 1 .. Len(s) : a[i] = s[k]
    BY <1>2, <1>8
  <2>2. a[i].class = Opaque
    BY <1>1, <2>1 DEF Covers
  <2> QED BY <1>6, <2>2
<1> QED BY <1>7, <1>8 DEF a

\* There is a place for a region among ordered claims.
LEMMA PositionFact ==
  ASSUME ClaimsOK(claimed), NEW r, r.start \in Nat
  PROVE  /\ Position(r) \in 1 .. Len(claimed) + 1
         /\ \A n \in 1 .. Position(r) - 1 : claimed[n].start < r.start
         /\ \A n \in Position(r) .. Len(claimed) : claimed[n].start >= r.start
<1> DEFINE s == claimed
           T == {n \in 1 .. Len(s) + 1 : n = Len(s) + 1 \/ s[n].start >= r.start}
           Is(at) == /\ \A n \in 1 .. at - 1 : s[n].start < r.start
                     /\ \A n \in at .. Len(s) : s[n].start >= r.start
<1>1. Len(s) \in Nat
  BY DEF ClaimsOK
<1>2. T \in SUBSET Nat /\ T # {}
  <2> DEFINE l == Len(s)
  <2>1. l + 1 \in T
    BY <1>1
  <2>2. T \subseteq 1 .. l + 1 /\ 1 .. l + 1 \subseteq Nat
    BY <1>1
  <2> HIDE DEF T
  <2> QED BY <2>1, <2>2
<1>3. PICK m \in T : \A n \in T : m <= n
  BY <1>2, LeastNat
<1>4. m \in 1 .. Len(s) + 1 /\ (m = Len(s) + 1 \/ s[m].start >= r.start)
  BY <1>3
<1>5. \A k \in 1 .. Len(s) : EndOf(s[k]) \in Nat /\ s[k].start \in Nat /\ s[k].start < EndOf(s[k])
  BY ClaimFact
<1>6. ASSUME NEW n \in 1 .. m - 1 PROVE s[n].start < r.start
  <2>1. n \in 1 .. Len(s) /\ n \notin T
    BY <1>1, <1>3, <1>4
  <2>2. ~(s[n].start >= r.start) /\ s[n].start \in Nat
    BY <1>5, <2>1
  <2> QED BY <2>2
<1>7. ASSUME NEW n \in m .. Len(s) PROVE s[n].start >= r.start
  <2>1. n \in 1 .. Len(s) /\ m \in 1 .. Len(s) /\ s[m].start >= r.start
    BY <1>1, <1>4
  <2>2. CASE n = m
    BY <2>1, <2>2
  <2>3. CASE n # m
    <3>1. EndOf(s[m]) <= s[n].start
      BY <2>1, <2>3 DEF ClaimsOK
    <3> QED BY <1>5, <2>1, <3>1
  <2> QED BY <2>2, <2>3
<1>8. \E at \in 1 .. Len(s) + 1 : Is(at)
  BY <1>4, <1>6, <1>7
<1>9. Position(r) = CHOOSE at \in 1 .. Len(s) + 1 : Is(at)
  BY DEF Position
<1> HIDE DEF Is
<1>10. Position(r) \in 1 .. Len(s) + 1 /\ Is(Position(r))
  BY <1>8, <1>9
<1> QED BY <1>10 DEF Is

\* Looking at the two neighbours is enough: a claim is taken exactly when it
\* meets none of those taken before.
LEMMA TakenFact ==
  ASSUME ClaimsOK(claimed), NEW r, r.start \in Nat, r.count \in Nat
  PROVE  Taken(r) <=> /\ r.count > 0 /\ EndOf(r) <= Floor
                      /\ \A k \in 1 .. Len(claimed) : Apart(r, claimed[k])
<1> DEFINE s == claimed
           at == Position(r)
<1>1. /\ at \in 1 .. Len(s) + 1
      /\ \A n \in 1 .. at - 1 : s[n].start < r.start
      /\ \A n \in at .. Len(s) : s[n].start >= r.start
  BY PositionFact
<1>2. Len(s) \in Nat /\ EndOf(r) = r.start + r.count
  BY DEF ClaimsOK, EndOf
<1>3. Sized(r) <=> r.count > 0 /\ EndOf(r) <= Floor
  BY <1>2, CoverAssumption DEF Sized
<1>4. \A k \in 1 .. Len(s) : EndOf(s[k]) \in Nat /\ s[k].start \in Nat /\ s[k].start < EndOf(s[k])
  BY ClaimFact
<1>5. MeetsPrevious(r) <=> at > 1 /\ EndOf(s[at - 1]) > r.start
  BY DEF MeetsPrevious
<1>6. MeetsNext(r) <=> at <= Len(s) /\ s[at].start < EndOf(r)
  BY DEF MeetsNext
<1> HIDE DEF at
<1>7. ASSUME r.count > 0, ~MeetsPrevious(r), ~MeetsNext(r), NEW k \in 1 .. Len(s)
      PROVE  Apart(r, s[k])
  <2>1. CASE k < at
    <3>1. at - 1 \in 1 .. Len(s) /\ EndOf(s[at - 1]) <= r.start
      BY <1>1, <1>2, <1>4, <1>5, <1>7, <2>1
    <3>2. k # at - 1 => EndOf(s[k]) <= s[at - 1].start
      BY <1>1, <2>1, <3>1 DEF ClaimsOK
    <3>3. EndOf(s[k]) <= r.start
      BY <1>4, <3>1, <3>2
    <3> QED BY <3>3 DEF Apart
  <2>2. CASE ~(k < at)
    <3>1. at \in 1 .. Len(s) /\ EndOf(r) <= s[at].start
      BY <1>1, <1>2, <1>4, <1>6, <1>7, <2>2
    <3>2. k # at => EndOf(s[at]) <= s[k].start
      BY <1>1, <2>2, <3>1 DEF ClaimsOK
    <3>3. EndOf(r) <= s[k].start
      BY <1>2, <1>4, <3>1, <3>2
    <3> QED BY <3>3 DEF Apart
  <2> QED BY <2>1, <2>2
<1>8. ASSUME r.count > 0, \A k \in 1 .. Len(s) : Apart(r, s[k])
      PROVE  ~MeetsPrevious(r) /\ ~MeetsNext(r)
  <2>1. ASSUME at > 1 PROVE EndOf(s[at - 1]) <= r.start
    <3>1. at - 1 \in 1 .. Len(s) /\ at - 1 \in 1 .. at - 1
      BY <1>1, <1>2, <2>1
    <3>2. s[at - 1].start < r.start /\ Apart(r, s[at - 1])
      BY <1>1, <1>8, <3>1
    <3> QED BY <1>2, <1>4, <3>1, <3>2 DEF Apart
  <2>2. ASSUME at <= Len(s) PROVE EndOf(r) <= s[at].start
    <3>1. at \in 1 .. Len(s) /\ at \in at .. Len(s)
      BY <1>1, <1>2, <2>2
    <3>2. s[at].start >= r.start /\ Apart(r, s[at])
      BY <1>1, <1>8, <3>1
    <3> QED BY <1>2, <1>4, <3>1, <3>2 DEF Apart
  <2>3. ~MeetsPrevious(r)
    <3>1. CASE at > 1
      <4>1. at - 1 \in 1 .. Len(s)
        BY <1>1, <1>2, <3>1
      <4> QED BY <1>4, <1>5, <2>1, <3>1, <4>1
    <3> QED BY <1>5, <3>1
  <2>4. ~MeetsNext(r)
    <3>1. CASE at <= Len(s)
      <4>1. at \in 1 .. Len(s)
        BY <1>1, <1>2, <3>1
      <4> QED BY <1>2, <1>4, <1>6, <2>2, <3>1, <4>1
    <3> QED BY <1>6, <3>1
  <2> QED BY <2>3, <2>4
<1> QED BY <1>3, <1>7, <1>8 DEF Taken

\* What is inserted is put among the claims, which stay ordered and disjoint.
LEMMA InsertedFact ==
  ASSUME ClaimsOK(claimed), NEW r \in Claims, Taken(r)
  PROVE  LET t == InsertedAt(claimed, Position(r), r)
         IN  /\ ClaimsOK(t)
             /\ \E k \in 1 .. Len(t) : t[k] = r
             /\ \A k \in 1 .. Len(claimed) : \E j \in 1 .. Len(t) : t[j] = claimed[k]
             /\ \A j \in 1 .. Len(t) : t[j] = r \/ \E k \in 1 .. Len(claimed) : t[j] = claimed[k]
<1> DEFINE s == claimed
           l == Len(s)
           at == Position(r)
           t == InsertedAt(s, at, r)
<1>1. r.start \in Nat /\ r.count \in Nat /\ r.count > 0 /\ EndOf(r) = r.start + r.count
  BY DEF Claims, EndOf
<1>2. /\ at \in 1 .. l + 1
      /\ \A n \in 1 .. at - 1 : s[n].start < r.start
      /\ \A n \in at .. l : s[n].start >= r.start
  BY <1>1, PositionFact
<1>3. EndOf(r) <= Floor /\ \A k \in 1 .. l : Apart(r, s[k])
  BY <1>1, TakenFact
<1>4. s \in Seq(Claims) /\ l \in Nat
  BY DEF ClaimsOK
<1>5. \A k \in 1 .. l : EndOf(s[k]) \in Nat /\ s[k].start \in Nat /\ s[k].start < EndOf(s[k])
  BY ClaimFact
<1> HIDE DEF at
<1>6. /\ t \in Seq(Claims) /\ Len(t) = l + 1
      /\ \A n \in 1 .. l + 1 : t[n] = IF n < at THEN s[n] ELSE IF n = at THEN r ELSE s[n - 1]
  <2> DEFINE p == SubSeq(s, 1, at - 1)
             q == SubSeq(s, at, l)
  <2>1. p \in Seq(Claims) /\ Len(p) = at - 1 /\ \A n \in 1 .. at - 1 : p[n] = s[n]
    BY <1>2, <1>4
  <2>2. q \in Seq(Claims) /\ Len(q) = l + 1 - at /\ \A n \in 1 .. l + 1 - at : q[n] = s[at + n - 1]
    BY <1>2, <1>4
  <2>3. t = p \o <<r>> \o q
    BY DEF InsertedAt
  <2> HIDE DEF p, q, t
  <2> HIDE DEF at
  <2>4. t \in Seq(Claims) /\ Len(t) = l + 1
    <3>1. <<r>> \in Seq(Claims) /\ Len(<<r>>) = 1
      OBVIOUS
    <3>2. p \o <<r>> \in Seq(Claims) /\ Len(p \o <<r>>) = Len(p) + 1
      BY <2>1, <3>1, ConcatProperties
    <3>3. t \in Seq(Claims) /\ Len(t) = Len(p \o <<r>>) + Len(q)
      BY <2>2, <2>3, <3>2, ConcatProperties
    <3>4. l + 1 = at - 1 + 1 + (l + 1 - at)
      BY <1>2, <1>4
    <3>5. Len(t) = at - 1 + 1 + (l + 1 - at)
      BY <2>1, <2>2, <3>2, <3>3
    <3> QED BY <3>3, <3>4, <3>5
  <2>5. ASSUME NEW n \in 1 .. l + 1
        PROVE  t[n] = IF n < at THEN s[n] ELSE IF n = at THEN r ELSE s[n - 1]
    <3> DEFINE o == p \o <<r>>
    <3>1. o \in Seq(Claims) /\ Len(o) = at /\ o[at] = r /\ \A i \in 1 .. at - 1 : o[i] = p[i]
      <4>1. <<r>> \in Seq(Claims) /\ Len(<<r>>) = 1 /\ <<r>>[1] = r
        OBVIOUS
      <4>2. /\ o \in Seq(Claims) /\ Len(o) = Len(p) + 1
            /\ \A i \in 1 .. Len(p) + 1 : o[i] = IF i <= Len(p) THEN p[i] ELSE <<r>>[i - Len(p)]
        BY <2>1, <4>1, ConcatProperties
      <4>3. at \in Nat /\ Len(p) + 1 = at
        BY <1>2, <1>4, <2>1
      <4> HIDE DEF o
      <4> QED BY <2>1, <4>1, <4>2, <4>3
    <3>2. t = o \o q
      BY <2>3
    <3> HIDE DEF o
    <3>3. CASE n <= at
      <4>1. t[n] = o[n]
        BY <1>2, <2>2, <3>1, <3>2, <3>3
      <4> QED BY <1>2, <2>1, <3>1, <3>3, <4>1
    <3>4. CASE ~(n <= at)
      <4>1. t[n] = q[n - at] /\ n - at \in 1 .. l + 1 - at
        BY <1>2, <1>4, <2>2, <3>1, <3>2, <3>4
      <4>2. q[n - at] = s[at + (n - at) - 1] /\ at + (n - at) - 1 = n - 1
        BY <1>2, <2>2, <4>1
      <4> QED BY <1>2, <3>4, <4>1, <4>2
    <3> QED BY <3>3, <3>4
  <2> QED BY <2>4, <2>5
<1> HIDE DEF t
<1>7. \A n \in 1 .. l + 1 :
        \/ n < at /\ n \in 1 .. l /\ t[n] = s[n]
        \/ n = at /\ t[n] = r
        \/ n > at /\ n - 1 \in 1 .. l /\ t[n] = s[n - 1]
  BY <1>2, <1>4, <1>6
<1>8. \A n \in 1 .. l + 1 : EndOf(t[n]) <= Floor
  <2> TAKE n \in 1 .. l + 1
  <2>1. \A k \in 1 .. l : EndOf(s[k]) <= Floor
    BY DEF ClaimsOK
  <2> QED BY <1>3, <1>7, <2>1
<1>9. \A m, n \in 1 .. l + 1 : m < n => EndOf(t[m]) <= t[n].start
  <2> TAKE m, n \in 1 .. l + 1
  <2> SUFFICES ASSUME m < n PROVE EndOf(t[m]) <= t[n].start
    OBVIOUS
  <2>1. \A i, j \in 1 .. l : i < j => EndOf(s[i]) <= s[j].start
    BY DEF ClaimsOK
  <2>2. \A k \in 1 .. at - 1 : k \in 1 .. l => EndOf(s[k]) <= r.start
    <3> TAKE k \in 1 .. at - 1
    <3> SUFFICES ASSUME k \in 1 .. l PROVE EndOf(s[k]) <= r.start
      OBVIOUS
    <3>1. s[k].start < r.start /\ Apart(r, s[k])
      BY <1>2, <1>3
    <3> QED BY <1>1, <1>5, <3>1 DEF Apart
  <2>3. \A k \in at .. l : k \in 1 .. l => EndOf(r) <= s[k].start
    <3> TAKE k \in at .. l
    <3> SUFFICES ASSUME k \in 1 .. l PROVE EndOf(r) <= s[k].start
      OBVIOUS
    <3>1. s[k].start >= r.start /\ Apart(r, s[k])
      BY <1>2, <1>3
    <3> QED BY <1>1, <1>5, <3>1 DEF Apart
  <2>4. CASE m < at
    <3>1. m \in 1 .. l /\ t[m] = s[m] /\ m \in 1 .. at - 1
      BY <1>2, <1>7, <2>4
    <3>2. CASE n < at
      <4>1. n \in 1 .. l /\ t[n] = s[n]
        BY <1>2, <1>7, <3>2
      <4> QED BY <2>1, <3>1, <4>1
    <3>3. CASE n = at
      <4>1. t[n] = r
        BY <1>7, <3>3
      <4> QED BY <2>2, <3>1, <4>1
    <3>4. CASE n > at
      <4>1. n - 1 \in 1 .. l /\ t[n] = s[n - 1] /\ m < n - 1
        BY <1>2, <1>7, <2>4, <3>4
      <4> QED BY <2>1, <3>1, <4>1
    <3> QED BY <1>2, <3>2, <3>3, <3>4
  <2>5. CASE m = at
    <3>1. t[m] = r /\ n - 1 \in 1 .. l /\ t[n] = s[n - 1] /\ n - 1 \in at .. l
      BY <1>2, <1>4, <1>7, <2>5
    <3> QED BY <2>3, <3>1
  <2>6. CASE m > at
    <3>1. m - 1 \in 1 .. l /\ t[m] = s[m - 1] /\ n - 1 \in 1 .. l /\ t[n] = s[n - 1]
          /\ m - 1 < n - 1
      BY <1>2, <1>7, <2>6
    <3> QED BY <2>1, <3>1
  <2> QED BY <1>2, <2>4, <2>5, <2>6
<1>10. ClaimsOK(t)
  BY <1>6, <1>8, <1>9 DEF ClaimsOK
<1>11. t[at] = r /\ at \in 1 .. Len(t)
  BY <1>2, <1>6
<1>12. ASSUME NEW k \in 1 .. l PROVE \E j \in 1 .. Len(t) : t[j] = s[k]
  <2>1. CASE k < at
    <3>1. k \in 1 .. Len(t) /\ t[k] = s[k]
      BY <1>4, <1>6, <2>1
    <3> QED BY <3>1
  <2>2. CASE ~(k < at)
    <3>1. k + 1 \in 1 .. Len(t) /\ t[k + 1] = s[(k + 1) - 1] /\ (k + 1) - 1 = k
      BY <1>2, <1>4, <1>6, <2>2
    <3> QED BY <3>1
  <2> QED BY <2>1, <2>2
<1>13. \A j \in 1 .. Len(t) : t[j] = r \/ \E k \in 1 .. l : t[j] = s[k]
  BY <1>6, <1>7
<1> QED BY <1>10, <1>11, <1>12, <1>13 DEF t, at

\* The finished account follows on from the first unit to the last.
LEMMA TotalFact ==
  ASSUME NEW s, ClaimsOK(s)
  PROVE  Total(Finished(s))
<1> DEFINE a == Finished(s)
<1>1. Covers(s, a, Len(s), Floor)
  BY FinishedFact
<1> HIDE DEF a
<1>2. a \in Seq(Regions)
  BY <1>1 DEF Covers
<1>3. DOMAIN a = 1 .. Len(a)
  BY <1>2
<1>4. Total(a)
  BY <1>1, <1>3, Zenon DEF Covers, Total
<1> QED BY <1>4 DEF a

\* A claim, taken or refused, keeps the claims ordered and disjoint, and the
\* account of them changes by the claim alone.
LEMMA ClaimKeeps ==
  ASSUME CoverIInv, Claim
  PROVE  CoverIInv' /\ ClaimsAlone
<1> PICK start \in 0 .. MaxUnit, count \in 0 .. MaxUnit, class \in Classes :
      LET r == Region(start, count, class)
      IN  /\ claim' = [region |-> r, taken |-> Taken(r), made |-> claim.made + 1]
          /\ claim.made < MaxClaims
          /\ claimed' = IF Taken(r) THEN InsertedAt(claimed, Position(r), r) ELSE claimed
  BY DEF Claim
<1> DEFINE r     == Region(start, count, class)
           span  == r.start .. EndOf(r) - 1
           units == 0 .. Floor - 1
<1>1. claim' = [region |-> r, taken |-> Taken(r), made |-> claim.made + 1]
      /\ claimed' = IF Taken(r) THEN InsertedAt(claimed, Position(r), r) ELSE claimed
  OBVIOUS
<1>2. /\ r.start \in Nat /\ r.count \in Nat /\ r.class \in Classes
      /\ EndOf(r) = r.start + r.count /\ (r.count > 0 => r \in Claims)
  BY CoverAssumption DEF Region, EndOf, Claims
<1>3. ClaimsOK(claimed) /\ claim.made \in Nat
  BY DEF CoverIInv
<1>4. claim'.region = r /\ (claim'.taken <=> Taken(r)) /\ claim'.made \in Nat
  BY <1>1, <1>3
<1> HIDE DEF r
<1>5. Taken(r) <=> /\ r.count > 0 /\ EndOf(r) <= Floor
                   /\ \A k \in 1 .. Len(claimed) : Apart(r, claimed[k])
  BY <1>2, <1>3, TakenFact
<1>6. /\ ClaimsOK(claimed')
      /\ Taken(r) =>
           /\ \E k \in 1 .. Len(claimed') : claimed'[k] = r
           /\ \A k \in 1 .. Len(claimed) : \E j \in 1 .. Len(claimed') : claimed'[j] = claimed[k]
           /\ \A j \in 1 .. Len(claimed') :
                claimed'[j] = r \/ \E k \in 1 .. Len(claimed) : claimed'[j] = claimed[k]
  <2>1. CASE Taken(r)
    <3>1. claimed' = InsertedAt(claimed, Position(r), r) /\ r \in Claims
      BY <1>1, <1>2, <1>5, <2>1
    <3> DEFINE t == InsertedAt(claimed, Position(r), r)
    <3>2. /\ ClaimsOK(t)
          /\ \E k \in 1 .. Len(t) : t[k] = r
          /\ \A k \in 1 .. Len(claimed) : \E j \in 1 .. Len(t) : t[j] = claimed[k]
          /\ \A j \in 1 .. Len(t) : t[j] = r \/ \E k \in 1 .. Len(claimed) : t[j] = claimed[k]
      BY <1>3, <2>1, <3>1, InsertedFact, Zenon
    <3>3. claimed' = t
      BY <3>1
    <3> HIDE DEF t
    <3> QED BY <3>2, <3>3
  <2>2. CASE ~Taken(r)
    BY <1>1, <1>3, <2>2
  <2> QED BY <2>1, <2>2
<1>7. Account = Finished(claimed) /\ Account' = Finished(claimed')
  BY DEF Account
<1>8. Total(Account')
  BY <1>6, <1>7, TotalFact
<1>9. \A k \in 1 .. Len(claimed) :
        /\ claimed[k].start \in Nat /\ EndOf(claimed[k]) \in Nat /\ claimed[k].class # Opaque
        /\ claimed[k].start < EndOf(claimed[k]) /\ EndOf(claimed[k]) <= Floor
  BY <1>3, ClaimFact DEF ClaimsOK
<1>10. span # {} /\ span \subseteq units <=> r.count > 0 /\ EndOf(r) <= Floor
  <2>1. CASE r.count > 0
    <3>1. r.start \in span /\ EndOf(r) - 1 \in span
      BY <1>2, <2>1
    <3>2. span \subseteq units => EndOf(r) <= Floor
      BY <1>2, <3>1, CoverAssumption
    <3>3. EndOf(r) <= Floor => span \subseteq units
      BY <1>2, CoverAssumption
    <3> QED BY <2>1, <3>1, <3>2, <3>3
  <2>2. CASE ~(r.count > 0)
    <3>1. span = {}
      BY <1>2, <2>2
    <3> QED BY <2>2, <3>1
  <2> QED BY <2>1, <2>2
<1>11. ASSUME span \subseteq units, r.count > 0
       PROVE  (\A u \in span : SpentOn(Account, u) = Opaque)
                <=> \A k \in 1 .. Len(claimed) : Apart(r, claimed[k])
  <2>1. ASSUME \A u \in span : SpentOn(Account, u) = Opaque, NEW k \in 1 .. Len(claimed)
        PROVE  Apart(r, claimed[k])
    <3>1. SUFFICES ASSUME ~Apart(r, claimed[k]) PROVE FALSE
      OBVIOUS
    <3> DEFINE u == IF claimed[k].start <= r.start THEN r.start ELSE claimed[k].start
    <3>2. u \in span /\ Spans(claimed[k], u)
      BY <1>2, <1>9, <1>11, <3>1 DEF Apart, Spans
    <3> HIDE DEF u
    <3>3. u \in 0 .. Floor - 1
      BY <1>11, <3>2
    <3>4. SpentOn(Finished(claimed), u) = claimed[k].class
      BY <1>3, <3>2, <3>3, SpentFact
    <3> QED BY <1>7, <1>9, <2>1, <3>2, <3>4
  <2>2. ASSUME \A k \in 1 .. Len(claimed) : Apart(r, claimed[k]), NEW u \in span
        PROVE  SpentOn(Account, u) = Opaque
    <3>1. \A k \in 1 .. Len(claimed) : ~Spans(claimed[k], u)
      BY <1>2, <1>9, <2>2 DEF Apart, Spans
    <3>2. u \in 0 .. Floor - 1
      BY <1>11
    <3> QED BY <1>3, <1>7, <3>1, <3>2, SpentFact
  <2> QED BY <2>1, <2>2
<1>12. Taken(r) <=> /\ span # {} /\ span \subseteq units
                    /\ \A u \in span : SpentOn(Account, u) = Opaque
  BY <1>5, <1>10, <1>11
<1>13. ASSUME NEW u \in units
       PROVE  SpentOn(Account', u) = IF Taken(r) /\ u \in span THEN r.class
                                     ELSE SpentOn(Account, u)
  <2>1. CASE ~Taken(r)
    <3>1. claimed' = claimed
      BY <1>1, <2>1 DEF r
    <3> QED BY <1>7, <2>1, <3>1
  <2>2. CASE Taken(r) /\ u \in span
    <3>1. PICK k \in 1 .. Len(claimed') : claimed'[k] = r
      BY <1>6, <2>2
    <3>2. Spans(r, u)
      BY <1>2, <2>2 DEF Spans
    <3>3. SpentOn(Finished(claimed'), u) = claimed'[k].class
      BY <1>6, <3>1, <3>2, SpentFact
    <3> QED BY <1>7, <2>2, <3>1, <3>3
  <2>3. CASE Taken(r) /\ u \notin span
    <3>1. ~Spans(r, u)
      BY <1>2, <2>3 DEF Spans
    <3>2. CASE \E k \in 1 .. Len(claimed) : Spans(claimed[k], u)
      <4>1. PICK k \in 1 .. Len(claimed) : Spans(claimed[k], u)
        BY <3>2
      <4>2. PICK j \in 1 .. Len(claimed') : claimed'[j] = claimed[k]
        BY <1>6, <2>3
      <4>3. SpentOn(Finished(claimed'), u) = claimed'[j].class
        BY <1>6, <4>1, <4>2, SpentFact
      <4>4. SpentOn(Finished(claimed), u) = claimed[k].class
        BY <1>3, <4>1, SpentFact
      <4> QED BY <1>7, <2>3, <4>2, <4>3, <4>4
    <3>3. CASE ~\E k \in 1 .. Len(claimed) : Spans(claimed[k], u)
      <4>1. \A j \in 1 .. Len(claimed') : ~Spans(claimed'[j], u)
        BY <1>6, <2>3, <3>1, <3>3
      <4>2. SpentOn(Finished(claimed'), u) = Opaque
        BY <1>6, <4>1, SpentFact
      <4>3. SpentOn(Finished(claimed), u) = Opaque
        BY <1>3, <3>3, SpentFact
      <4> QED BY <1>7, <2>3, <4>2, <4>3
    <3> QED BY <3>2, <3>3
  <2> QED BY <2>1, <2>2, <2>3
<1>14. CoverIInv'
  BY <1>4, <1>6 DEF CoverIInv
<1> QED BY <1>4, <1>8, <1>12, <1>13, <1>14 DEF ClaimsAlone

\* For every floor, and any claims in any order.
THEOREM CoverTheorem == CoverSpec => AccountIsExclusive
<1>1. CoverInit => CoverIInv
  BY DEF CoverInit, CoverIInv, ClaimsOK
<1>2. CoverIInv /\ [CoverNext]_coverVars => CoverIInv' /\ [ClaimsAlone]_coverVars
  <2>1. CoverIInv /\ Claim => CoverIInv' /\ ClaimsAlone
    BY ClaimKeeps
  <2>2. CoverIInv /\ UNCHANGED coverVars => CoverIInv'
    BY DEF CoverIInv, coverVars
  <2> QED BY <2>1, <2>2 DEF CoverNext
<1> QED BY <1>1, <1>2, PTL DEF CoverSpec, AccountIsExclusive

-----------------------------------------------------------------------------
(* FAT volumes *)

\* The first m steps from d along the table of v.
Walking(v, d, f, m) == f = [n \in 0 .. m |-> IF n = 0 THEN d ELSE Onward(v, f[n - 1])]

\* The walk along a table is defined at every step, wherever it begins.
LEMMA WalkExists ==
  ASSUME NEW v, NEW d
  PROVE  \A m \in Nat : \E f : Walking(v, d, f, m)
<1> DEFINE T == {m \in Nat : ~\E f : Walking(v, d, f, m)}
<1>1. SUFFICES ASSUME T # {} PROVE FALSE
  OBVIOUS
<1>2. PICK m \in T : \A n \in T : m <= n
  BY <1>1, LeastNat
<1>3. m \in Nat /\ ~\E f : Walking(v, d, f, m)
  BY <1>2
<1>4. CASE m = 0
  <2>1. Walking(v, d, [n \in 0 .. 0 |-> d], 0)
    BY DEF Walking
  <2> QED BY <2>1, <1>3, <1>4
<1>5. CASE m # 0
  <2>1. m - 1 \in Nat /\ m - 1 \notin T
    BY <1>2, <1>3, <1>5
  <2>2. PICK f : Walking(v, d, f, m - 1)
    BY <2>1
  <2> HIDE DEF T
  <2> DEFINE g == [n \in 0 .. m |-> IF n < m THEN f[n] ELSE Onward(v, f[m - 1])]
  <2>3. \A n \in 0 .. m - 1 : f[n] = IF n = 0 THEN d ELSE Onward(v, f[n - 1])
    BY <2>2, Zenon DEF Walking
  <2>4. \A n \in 0 .. m : g[n] = IF n = 0 THEN d ELSE Onward(v, g[n - 1])
    <3> TAKE n \in 0 .. m
    <3>1. CASE n = m
      <4>1. g[n] = Onward(v, f[n - 1])
        BY <3>1, <1>3
      <4>2. n # 0 /\ g[n - 1] = f[n - 1]
        BY <3>1, <1>3, <1>5
      <4> QED BY <4>1, <4>2
    <3>2. CASE n # m
      <4>1. n \in 0 .. m - 1 /\ g[n] = f[n]
        BY <3>2, <1>3
      <4>2. n # 0 => g[n - 1] = f[n - 1]
        BY <4>1, <1>3
      <4> QED BY <4>1, <4>2, <2>3
    <3> QED BY <3>1, <3>2
  <2>5. g = [n \in 0 .. m |-> IF n = 0 THEN d ELSE Onward(v, g[n - 1])]
    BY <2>4, Zenon
  <2>6. Walking(v, d, g, m)
    BY <2>5, Zenon DEF Walking
  <2> QED BY <2>6, <1>3
<1> QED BY <1>3, <1>4, <1>5

\* Where a chain leads from d: each step is what the table names.
LEMMA WalkFact ==
  ASSUME NEW v, NEW d
  PROVE  LET a == FollowTable(v, d)
         IN  /\ DOMAIN a = 0 .. ClusterCount
             /\ a[0] = d
             /\ \A n \in 0 .. ClusterCount - 1 : a[n + 1] = Onward(v, a[n])
<1> DEFINE f == CHOOSE g : g = [n \in 0 .. ClusterCount |->
                                 IF n = 0 THEN d ELSE Onward(v, g[n - 1])]
           a == FollowTable(v, d)
<1>1. a = [n \in 0 .. ClusterCount |-> f[n]]
  BY Zenon DEF FollowTable
<1>2. ClusterCount \in Nat
  BY FatAssumption
<1>3. \E g : g = [n \in 0 .. ClusterCount |-> IF n = 0 THEN d ELSE Onward(v, g[n - 1])]
  <2>1. \E g : Walking(v, d, g, ClusterCount)
    BY <1>2, WalkExists
  <2> QED BY <2>1, Zenon DEF Walking
<1>4. f = [n \in 0 .. ClusterCount |-> IF n = 0 THEN d ELSE Onward(v, f[n - 1])]
  BY <1>3, Zenon
<1> HIDE DEF f, a
<1>5. \A n \in 0 .. ClusterCount : a[n] = f[n]
  BY <1>1
<1>6. \A n \in 0 .. ClusterCount : f[n] = IF n = 0 THEN d ELSE Onward(v, f[n - 1])
  BY <1>4, Zenon
<1>7. DOMAIN a = 0 .. ClusterCount
  BY <1>1
<1>8. a[0] = d
  BY <1>2, <1>5, <1>6
<1>9. ASSUME NEW n \in 0 .. ClusterCount - 1 PROVE a[n + 1] = Onward(v, a[n])
  <2>1. n + 1 \in 0 .. ClusterCount /\ n + 1 # 0 /\ (n + 1) - 1 = n /\ n \in 0 .. ClusterCount
    BY <1>2
  <2> QED BY <1>5, <1>6, <2>1
<1> QED BY <1>7, <1>8, <1>9 DEF a

\* Off the data area the walk stands still.
LEMMA WalkStands ==
  ASSUME NEW v, NEW d, NEW m \in 0 .. ClusterCount, FollowTable(v, d)[m] \notin Clusters
  PROVE  \A n \in m .. ClusterCount : FollowTable(v, d)[n] = FollowTable(v, d)[m]
<1> DEFINE a == FollowTable(v, d)
           T == {n \in Nat : n \in m .. ClusterCount /\ a[n] # a[m]}
<1>1. SUFFICES ASSUME T # {} PROVE FALSE
  BY FatAssumption
<1>2. PICK n \in T : \A i \in T : n <= i
  BY <1>1, LeastNat
<1>3. \A i \in 0 .. ClusterCount - 1 : a[i + 1] = Onward(v, a[i])
  BY WalkFact
<1>4. a[m] \notin Clusters
  OBVIOUS
<1> HIDE DEF a
<1>5. n # m /\ n \in m .. ClusterCount /\ n \in Nat
  BY <1>2
<1>6. n - 1 \in m .. ClusterCount /\ n - 1 \in Nat /\ n - 1 \notin T
  BY <1>2, <1>5, FatAssumption
<1>7. a[n - 1] = a[m]
  BY <1>6
<1>8. a[n] = Onward(v, a[n - 1])
  BY <1>3, <1>5, FatAssumption
<1> QED BY <1>2, <1>4, <1>7, <1>8 DEF Onward

\* Two places of a walk that hold the same cluster hold the same from then on.
LEMMA WalkRepeats ==
  ASSUME NEW v, NEW d, NEW i \in 0 .. ClusterCount, NEW j \in 0 .. ClusterCount,
         i <= j, FollowTable(v, d)[i] = FollowTable(v, d)[j]
  PROVE  \A n \in 0 .. ClusterCount - j :
           FollowTable(v, d)[i + n] = FollowTable(v, d)[j + n]
<1> DEFINE a == FollowTable(v, d)
           T == {n \in Nat : n \in 0 .. ClusterCount - j /\ a[i + n] # a[j + n]}
<1>1. SUFFICES ASSUME T # {} PROVE FALSE
  <2>1. \A n \in 0 .. ClusterCount - j : n \in Nat
    BY FatAssumption
  <2> QED BY <2>1
<1>2. PICK n \in T : \A k \in T : n <= k
  BY <1>1, LeastNat
<1>3. \A k \in 0 .. ClusterCount - 1 : a[k + 1] = Onward(v, a[k])
  BY WalkFact
<1>4. a[i] = a[j]
  OBVIOUS
<1> HIDE DEF a
<1>5. n # 0 /\ n \in 0 .. ClusterCount - j /\ n \in Nat
  BY <1>2, <1>4
<1>6. n - 1 \in 0 .. ClusterCount - j /\ n - 1 \in Nat /\ n - 1 \notin T
  <2>1. n - 1 \in 0 .. ClusterCount - j /\ n - 1 \in Nat /\ ~(n <= n - 1)
    BY <1>5, FatAssumption
  <2> HIDE DEF T
  <2> QED BY <1>2, <2>1
<1>7. a[i + (n - 1)] = a[j + (n - 1)]
  BY <1>6
<1>8. a[i + n] = Onward(v, a[i + (n - 1)])
  <2>1. i + (n - 1) \in 0 .. ClusterCount - 1 /\ (i + (n - 1)) + 1 = i + n
    BY <1>5, FatAssumption
  <2> QED BY <1>3, <2>1
<1>9. a[j + n] = Onward(v, a[j + (n - 1)])
  <2>1. j + (n - 1) \in 0 .. ClusterCount - 1 /\ (j + (n - 1)) + 1 = j + n
    BY <1>5, FatAssumption
  <2> QED BY <1>3, <2>1
<1> QED BY <1>2, <1>7, <1>8, <1>9

\* A readable chain is its clusters up to the end mark: none of them is free,
\* and none stands twice.
LEMMA ChainFact ==
  ASSUME NEW v, NEW d, ChainOK(v, d), d # End
  PROVE  LET c == Chain(v, d)
         IN  /\ d \in Clusters /\ c \in Seq(Clusters) /\ Len(c) > 0
             /\ \A i \in 1 .. Len(c) : Entry(v, c[i]) # Free
             /\ \A i, j \in 1 .. Len(c) : c[i] = c[j] => i = j
<1> DEFINE a == FollowTable(v, d)
           N == ClusterCount
           T == {n \in Nat : n \in 0 .. N /\ a[n] \notin Clusters}
<1>1. N \in Nat /\ End \notin Clusters /\ Free \notin Clusters /\ End # Free
  BY FatAssumption DEF End, Free, Clusters
<1>2. a[N] = End
  BY DEF ChainOK
<1>3. /\ DOMAIN a = 0 .. N /\ a[0] = d
      /\ \A n \in 0 .. N - 1 : a[n + 1] = Onward(v, a[n])
  BY WalkFact
<1>4. N \in T
  BY <1>1, <1>2
<1>5. PICK m \in T : \A n \in T : m <= n
  BY <1>4, LeastNat
<1>6. m \in 0 .. N /\ a[m] \notin Clusters
  BY <1>5
<1>7. \A n \in m .. N : a[n] = a[m]
  BY <1>6, WalkStands
<1>8. a[m] = End
  BY <1>1, <1>2, <1>6, <1>7
<1>9. \A n \in 0 .. m - 1 : a[n] \in Clusters
  <2> TAKE n \in 0 .. m - 1
  <2>1. n \in Nat /\ n \in 0 .. N /\ ~(m <= n)
    BY <1>1, <1>6
  <2> QED BY <1>5, <2>1
<1>10. m > 0
  BY <1>1, <1>3, <1>6, <1>8
<1>11. {i \in DOMAIN a : a[i] \in Clusters} = 0 .. m - 1
  <2>1. ASSUME NEW i \in 0 .. N, a[i] \in Clusters PROVE i \in 0 .. m - 1
    BY <1>1, <1>6, <1>7, <1>8, <2>1
  <2>2. \A i \in 0 .. m - 1 : i \in 0 .. N
    BY <1>1, <1>6
  <2> QED BY <1>3, <1>9, <2>1, <2>2
<1>12. Cardinality(0 .. m - 1) = m
  <2> DEFINE top == m - 1
  <2>1. top \in Int /\ 0 <= top
    BY <1>6, <1>10
  <2> HIDE DEF top
  <2>2. Cardinality(0 .. top) = top - 0 + 1
    BY <2>1, FS_Interval
  <2> QED BY <1>6, <2>2 DEF top
<1> DEFINE c == Chain(v, d)
<1>13. c = [i \in 1 .. m |-> a[i - 1]]
  BY <1>11, <1>12, Zenon DEF Chain, Until
<1> HIDE DEF a, c
<1>14. \A i \in 1 .. m : i - 1 \in 0 .. m - 1 /\ c[i] = a[i - 1]
  BY <1>6, <1>13
<1>15. c \in Seq(Clusters) /\ Len(c) = m
  <2>1. \A i \in 1 .. m : a[i - 1] \in Clusters
    BY <1>9, <1>14
  <2>2. m \in Nat
    BY <1>6
  <2> QED BY <1>13, <2>1, <2>2
<1>16. ASSUME NEW i \in 1 .. m PROVE Entry(v, c[i]) # Free
  <2>1. a[i - 1] \in Clusters /\ i - 1 \in 0 .. N - 1 /\ (i - 1) + 1 = i
    BY <1>1, <1>6, <1>9, <1>14
  <2>2. a[i] = Entry(v, a[i - 1])
    BY <1>3, <2>1 DEF Onward
  <2>3. a[i] \in Clusters \/ a[i] = End
    <3>1. i = m \/ i \in 0 .. m - 1
      BY <1>6
    <3> QED BY <1>8, <1>9, <3>1
  <2> QED BY <1>1, <1>14, <2>2, <2>3
<1>17. ASSUME NEW i \in 1 .. m, NEW j \in 1 .. m, i < j, c[i] = c[j] PROVE FALSE
  <2>1. a[i - 1] = a[j - 1]
    BY <1>14, <1>17
  <2>2. /\ i - 1 \in 0 .. N /\ j - 1 \in 0 .. N /\ i - 1 <= j - 1
        /\ m - (j - 1) \in 0 .. N - (j - 1)
        /\ (i - 1) + (m - (j - 1)) \in 0 .. m - 1
        /\ (j - 1) + (m - (j - 1)) = m
    BY <1>1, <1>6, <1>17
  <2>3. \A n \in 0 .. N - (j - 1) : a[(i - 1) + n] = a[(j - 1) + n]
    BY <2>1, <2>2, WalkRepeats DEF a
  <2>4. a[(i - 1) + (m - (j - 1))] = a[m]
    BY <2>2, <2>3
  <2> QED BY <1>6, <1>9, <2>2, <2>4
<1>18. \A i, j \in 1 .. m : c[i] = c[j] => i = j
  BY <1>6, <1>17
<1>19. d \in Clusters
  <2>1. 0 \in 0 .. m - 1
    BY <1>6, <1>10
  <2> QED BY <1>3, <1>9, <2>1
<1> QED BY <1>10, <1>15, <1>16, <1>18, <1>19 DEF c

\* Entries set in every copy of the table: those clusters hold them, the others
\* what they held.
LEMMA SetFact ==
  ASSUME NEW v, VolumeOK(v), NEW f, \A c \in Clusters \cap DOMAIN f : f[c] \in Int
  PROVE  /\ VolumeOK(SetEntries(v, f)) /\ SetEntries(v, f).cells = v.cells
         /\ \A c \in Clusters : Entry(SetEntries(v, f), c) =
                                IF c \in DOMAIN f THEN f[c] ELSE Entry(v, c)
<1> DEFINE t == [k \in Copies |-> [c \in Clusters |-> IF c \in DOMAIN f THEN f[c] ELSE v.fats[k][c]]]
           w == SetEntries(v, f)
<1>1. v = [fats |-> v.fats, cells |-> v.cells, boot |-> v.boot]
  BY DEF VolumeOK
<1>2. w = [fats |-> t, cells |-> v.cells, boot |-> v.boot]
  <2>1. w = [v EXCEPT !.fats = t]
    BY Zenon DEF SetEntries
  <2> HIDE DEF t, w
  <2>2. PICK x, y, z : v = [fats |-> x, cells |-> y, boot |-> z]
    BY <1>1, Zenon
  <2> QED BY <2>1, <2>2
<1>3. t \in [Copies -> [Clusters -> Int]]
  <2>1. v.fats \in [Copies -> [Clusters -> Int]]
    BY DEF VolumeOK
  <2> QED BY <2>1
<1>4. \A c \in Clusters : t[1][c] = IF c \in DOMAIN f THEN f[c] ELSE v.fats[1][c]
  BY FatAssumption
<1>7. ASSUME InStep PROVE \A j, k \in Copies : t[j] = t[k]
  <2>1. \A j, k \in Copies : v.fats[j] = v.fats[k]
    BY <1>7 DEF VolumeOK
  <2> QED BY <2>1
<1> HIDE DEF t, w
<1>5. w.fats = t /\ w.cells = v.cells /\ w.boot = v.boot
  BY <1>2
<1>6. VolumeOK(w)
  BY <1>2, <1>3, <1>5, <1>7 DEF VolumeOK
<1> QED BY <1>4, <1>5, <1>6 DEF Entry, w

\* A change of the cells alone: the table stands.
LEMMA CellsFact ==
  ASSUME NEW v, VolumeOK(v), NEW g, DOMAIN g = Locs, \A l \in Locs : g[l].first \in Int
  PROVE  LET w == [v EXCEPT !.cells = g]
         IN  /\ VolumeOK(w) /\ w.fats = v.fats /\ FreeClusters(w) = FreeClusters(v)
<1> DEFINE w == [v EXCEPT !.cells = g]
<1>1. v = [fats |-> v.fats, cells |-> v.cells, boot |-> v.boot]
  BY DEF VolumeOK
<1>2. w = [fats |-> v.fats, cells |-> g, boot |-> v.boot]
  <2>1. PICK x, y, z : v = [fats |-> x, cells |-> y, boot |-> z]
    BY <1>1, Zenon
  <2> QED BY <2>1
<1> HIDE DEF w
<1>3. w.fats = v.fats /\ w.cells = g /\ w.boot = v.boot
  BY <1>2
<1>4. VolumeOK(w)
  BY <1>2, <1>3 DEF VolumeOK
<1>5. FreeClusters(w) = FreeClusters(v)
  BY <1>3 DEF FreeClusters, Entry
<1> QED BY <1>3, <1>4, <1>5 DEF w

\* What a verb writes into the cells names no cluster.
LEMMA WritesFact ==
  ASSUME NEW v, VolumeOK(v)
  PROVE  /\ \A c : /\ VolumeOK(ZeroCluster(v, c))
                    /\ FreeClusters(ZeroCluster(v, c)) = FreeClusters(v)
         /\ \A cs, b : /\ VolumeOK(Fill(v, cs, b))
                           /\ FreeClusters(Fill(v, cs, b)) = FreeClusters(v)
         /\ \A c, from : /\ VolumeOK(Scrub(v, c, from))
                          /\ FreeClusters(Scrub(v, c, from)) = FreeClusters(v)
         /\ \A at, b, c : VolumeOK(Overwritten(v, at, b, c))
<1>1. Zero.first = 0 /\ \A b : Byte(b).first = 0
  BY DEF Zero, Byte, Cell
<1>2. DOMAIN v.cells = Locs /\ \A l \in Locs : v.cells[l].first \in Int
  BY DEF VolumeOK
<1>3. ASSUME NEW c
      PROVE  VolumeOK(ZeroCluster(v, c)) /\ FreeClusters(ZeroCluster(v, c)) = FreeClusters(v)
  <2> DEFINE g == [l \in DOMAIN v.cells |-> IF l[1] = c THEN Zero ELSE v.cells[l]]
  <2>1. DOMAIN g = Locs /\ \A l \in Locs : g[l].first \in Int
    BY <1>1, <1>2
  <2>2. ZeroCluster(v, c) = [v EXCEPT !.cells = g]
    BY Zenon DEF ZeroCluster
  <2> HIDE DEF g
  <2> QED BY <2>1, <2>2, CellsFact
<1>4. ASSUME NEW cs, NEW b
      PROVE  VolumeOK(Fill(v, cs, b)) /\ FreeClusters(Fill(v, cs, b)) = FreeClusters(v)
  <2> DEFINE n(l) == CHOOSE i \in 0 .. Len(cs) * ClusterCells - 1 : CellOf(cs, i) = l
             g == [l \in DOMAIN v.cells |->
                     IF l[1] \notin Seqs(cs) THEN v.cells[l]
                     ELSE IF n(l) < Len(b) THEN Byte(b[n(l) + 1]) ELSE Zero]
  <2>1. Fill(v, cs, b) = [v EXCEPT !.cells = g]
    BY Zenon DEF Fill
  <2> HIDE DEF n
  <2>2. \A l \in Locs : g[l] = v.cells[l] \/ g[l] = Zero \/ g[l] = Byte(b[n(l) + 1])
    BY <1>2
  <2>3. DOMAIN g = Locs
    BY <1>2
  <2> HIDE DEF g
  <2>4. \A l \in Locs : g[l].first \in Int
    BY <1>1, <1>2, <2>2
  <2> QED BY <2>1, <2>3, <2>4, CellsFact
<1>5. ASSUME NEW c, NEW from
      PROVE  VolumeOK(Scrub(v, c, from)) /\ FreeClusters(Scrub(v, c, from)) = FreeClusters(v)
  <2> DEFINE g == [l \in DOMAIN v.cells |->
                     IF l[1] = c /\ l[2] >= from THEN Zero ELSE v.cells[l]]
  <2>1. DOMAIN g = Locs /\ \A l \in Locs : g[l].first \in Int
    BY <1>1, <1>2
  <2>2. Scrub(v, c, from) = [v EXCEPT !.cells = g]
    BY Zenon DEF Scrub
  <2> HIDE DEF g
  <2> QED BY <2>1, <2>2, CellsFact
<1>6. ASSUME NEW at, NEW b, NEW c PROVE VolumeOK(Overwritten(v, at, b, c))
  <2> DEFINE place(cell) == CHOOSE i \in 0 .. Len(b) - 1 : CellOf(c, at + i) = cell
             hit         == {CellOf(c, at + i) : i \in 0 .. Len(b) - 1}
             g == [x \in DOMAIN v.cells |->
                     IF x \in hit THEN Byte(b[place(x) + 1]) ELSE v.cells[x]]
  <2>1. Overwritten(v, at, b, c) = [v EXCEPT !.cells = g]
    BY Zenon DEF Overwritten
  <2> HIDE DEF place, hit
  <2>2. DOMAIN g = Locs /\ \A x \in Locs : g[x] = v.cells[x] \/ g[x] = Byte(b[place(x) + 1])
    BY <1>2
  <2> HIDE DEF g
  <2>3. \A l \in Locs : g[l].first \in Int
    BY <1>1, <1>2, <2>2
  <2> QED BY <2>1, <2>2, <2>3, CellsFact
<1> QED BY <1>3, <1>4, <1>5, <1>6

\* There are finitely many clusters.
LEMMA FiniteFact ==
  /\ IsFiniteSet(Clusters)
  /\ \A v : IsFiniteSet(FreeClusters(v)) /\ Cardinality(FreeClusters(v)) \in Nat
            /\ FreeClusters(v) \subseteq Clusters
<1> DEFINE top == ClusterCount + 1
<1>1. top \in Int
  BY FatAssumption
<1> HIDE DEF top
<1>2. IsFiniteSet(2 .. top)
  BY <1>1, FS_Interval
<1>3. IsFiniteSet(Clusters)
  BY <1>2 DEF Clusters, top
<1>4. ASSUME NEW v PROVE FreeClusters(v) \subseteq Clusters
  BY DEF FreeClusters
<1>5. ASSUME NEW v PROVE IsFiniteSet(FreeClusters(v)) /\ Cardinality(FreeClusters(v)) \in Nat
  BY <1>3, <1>4, FS_Subset, FS_CardinalityType
<1> QED BY <1>3, <1>4, <1>5

\* Linking a chain leaves the volume one.
LEMMA LinkFact ==
  ASSUME NEW v, VolumeOK(v), NEW cs \in Seq(Clusters)
  PROVE  VolumeOK(LinkChain(v, cs))
<1> DEFINE place(c) == CHOOSE i \in DOMAIN cs : cs[i] = c
           f == [c \in Seqs(cs) |->
                   IF place(c) = Len(cs) THEN End ELSE cs[place(c) + 1]]
<1>1. LinkChain(v, cs) = SetEntries(v, f)
  BY Zenon DEF LinkChain
<1>2. \A c \in Seqs(cs) : place(c) \in 1 .. Len(cs)
  BY DEF Seqs
<1> HIDE DEF place
<1>3. ASSUME NEW c \in Seqs(cs) PROVE f[c] \in Int
  <2>1. End \in Int /\ \A x \in Clusters : x \in Int
    BY DEF End, Clusters
  <2>2. CASE place(c) = Len(cs)
    BY <2>1, <2>2
  <2>3. CASE place(c) # Len(cs)
    <3>1. place(c) + 1 \in 1 .. Len(cs)
      BY <1>2, <2>3
    <3>2. cs[place(c) + 1] \in Clusters
      BY <3>1
    <3> QED BY <2>1, <2>3, <3>2
  <2> QED BY <2>2, <2>3
<1>4. DOMAIN f = Seqs(cs)
  OBVIOUS
<1> HIDE DEF f
<1>5. \A c \in Clusters \cap DOMAIN f : f[c] \in Int
  BY <1>3, <1>4
<1> QED BY <1>1, <1>5, SetFact

\* What a released chain gives back: its clusters, and as many as it has when
\* none of them was free and none stood twice.
LEMMA ReleaseFact ==
  ASSUME NEW v, VolumeOK(v), NEW s \in Seq(Clusters)
  PROVE  /\ VolumeOK(Release(v, s))
         /\ FreeClusters(Release(v, s)) = FreeClusters(v) \cup Seqs(s)
         /\ /\ \A i \in 1 .. Len(s) : Entry(v, s[i]) # Free
            /\ \A i, j \in 1 .. Len(s) : s[i] = s[j] => i = j
            => Cardinality(FreeClusters(Release(v, s)))
                 = Cardinality(FreeClusters(v)) + Len(s)
<1> DEFINE f == [c \in Seqs(s) |-> Free]
           w == Release(v, s)
<1>1. w = SetEntries(v, f)
  BY DEF Release
<1>2. DOMAIN f = Seqs(s) /\ \A c \in Clusters \cap DOMAIN f : f[c] \in Int
  BY DEF Free
<1>3. Seqs(s) \subseteq Clusters
  BY DEF Seqs
<1>4. \A c \in Seqs(s) : f[c] = Free
  OBVIOUS
<1> HIDE DEF f, w
<1>5. /\ VolumeOK(w)
      /\ \A c \in Clusters : Entry(w, c) = IF c \in DOMAIN f THEN f[c] ELSE Entry(v, c)
  BY <1>1, <1>2, SetFact
<1>6. FreeClusters(w) = FreeClusters(v) \cup Seqs(s)
  BY <1>2, <1>3, <1>4, <1>5 DEF FreeClusters
<1>7. ASSUME \A i \in 1 .. Len(s) : Entry(v, s[i]) # Free,
             \A i, j \in 1 .. Len(s) : s[i] = s[j] => i = j
      PROVE  Cardinality(FreeClusters(w)) = Cardinality(FreeClusters(v)) + Len(s)
  <2> DEFINE n == Len(s)
  <2>1. n \in Nat /\ s \in [1 .. n -> Seqs(s)] /\ \A c \in Seqs(s) : \E i \in 1 .. n : s[i] = c
    BY DEF Seqs
  <2>2. s \in Surjection(1 .. n, Seqs(s)) /\ s \in Injection(1 .. n, Seqs(s))
    BY <1>7, <2>1 DEF Surjection, Injection, IsInjective
  <2> HIDE DEF n
  <2>3. IsFiniteSet(1 .. n) /\ Cardinality(1 .. n) = n
    <3>1. n \in Int /\ 1 \in Int
      BY <2>1
    <3>2. IsFiniteSet(1 .. n) /\ Cardinality(1 .. n) = IF 1 > n THEN 0 ELSE n - 1 + 1
      BY <3>1, FS_Interval
    <3> QED BY <2>1, <3>2
  <2>4. IsFiniteSet(Seqs(s)) /\ Cardinality(Seqs(s)) = n
    BY <2>2, <2>3, FS_Surjection
  <2>5. FreeClusters(v) \cap Seqs(s) = {}
    BY <1>7 DEF Seqs, FreeClusters
  <2>6. Cardinality(FreeClusters(v) \cap Seqs(s)) = 0
    BY <2>5, FS_EmptySet
  <2>7. Cardinality(FreeClusters(v) \cup Seqs(s))
          = Cardinality(FreeClusters(v)) + n - Cardinality(FreeClusters(v) \cap Seqs(s))
    BY <2>4, FiniteFact, FS_Union
  <2> QED BY <1>6, <2>1, <2>6, <2>7, FiniteFact DEF n
<1> QED BY <1>5, <1>6, <1>7 DEF w

\* Releasing nothing changes nothing.
LEMMA ReleaseNone ==
  ASSUME NEW v, VolumeOK(v)
  PROVE  Release(v, <<>>) = v
<1> DEFINE f == [c \in Seqs(<<>>) |-> Free]
           t == [k \in Copies |-> [c \in Clusters |-> IF c \in DOMAIN f THEN f[c] ELSE v.fats[k][c]]]
<1>1. DOMAIN f = {}
  BY DEF Seqs
<1> HIDE DEF f
<1>2. v.fats \in [Copies -> [Clusters -> Int]]
  BY DEF VolumeOK
<1>3. t = v.fats
  BY <1>1, <1>2
<1>4. Release(v, <<>>) = [v EXCEPT !.fats = t]
  BY Zenon DEF Release, SetEntries, f
<1> HIDE DEF t
<1>5. PICK x, y, z : v = [fats |-> x, cells |-> y, boot |-> z]
  BY Zenon DEF VolumeOK
<1> QED BY <1>3, <1>4, <1>5

\* Numbers below a bound have a largest.
LEMMA LargestFact ==
  ASSUME NEW F \in SUBSET Nat, F # {}, NEW top \in Nat, \A d \in F : d <= top
  PROVE  \E c \in F : \A d \in F : d <= c
<1> DEFINE G == {u \in Nat : \A d \in F : d <= u}
<1>1. top \in G
  OBVIOUS
<1>2. PICK u \in G : \A x \in G : u <= x
  BY <1>1, LeastNat
<1>3. u \in Nat /\ \A d \in F : d \in Nat /\ d <= u
  BY <1>2
<1>4. CASE u \in F
  BY <1>3, <1>4
<1>5. CASE u \notin F
  <2>1. \A d \in F : d < u /\ d \in Nat
    BY <1>3, <1>5
  <2>2. PICK d \in F : TRUE
    OBVIOUS
  <2>3. u - 1 \in Nat
    BY <1>3, <2>1, <2>2
  <2>4. \A x \in F : x <= u - 1
    BY <1>3, <2>1
  <2>5. u - 1 \in G /\ ~(u <= u - 1)
    BY <1>3, <2>3, <2>4
  <2> QED BY <1>2, <2>5
<1> QED BY <1>4, <1>5

\* Among finitely many numbers there is one with any given count below it.
LEMMA RankFact ==
  ASSUME NEW F \in SUBSET Nat, IsFiniteSet(F), NEW top \in Nat, \A c \in F : c <= top,
         NEW r \in Nat, r < Cardinality(F)
  PROVE  \E c \in F : Cardinality({d \in F : d < c}) = r
<1> DEFINE below(c) == {d \in F : d < c}
           T == {c \in F : r <= Cardinality(below(c))}
<1>1. \A c : IsFiniteSet(below(c)) /\ Cardinality(below(c)) \in Nat /\ below(c) \subseteq F
  BY FS_Subset, FS_CardinalityType
<1>2. \A c, d : d \in below(c) <=> d \in F /\ d < c
  OBVIOUS
<1>3. \A d \in F : d \in Nat
  OBVIOUS
<1>4. SUFFICES \E c \in F : Cardinality(below(c)) = r
  OBVIOUS
<1>5. \A c \in F : c \in T <=> r <= Cardinality(below(c))
  OBVIOUS
<1>6. T \in SUBSET Nat /\ T \subseteq F
  OBVIOUS
<1> HIDE DEF below, T
<1>7. ASSUME NEW c \in F, NEW S \in SUBSET F, c \notin S, \A d \in F : d \in S => d \in below(c),
             \A d \in below(c) : d \in S
      PROVE  Cardinality(S \cup {c}) = Cardinality(below(c)) + 1
  <2>1. S = below(c)
    BY <1>1, <1>7
  <2> QED BY <1>1, <1>7, <2>1, FS_AddElement
<1>8. T # {}
  <2>1. SUFFICES ASSUME T = {} PROVE FALSE
    OBVIOUS
  <2>2. \A c \in F : Cardinality(below(c)) < r
    BY <1>1, <1>5, <2>1
  <2>3. F # {}
    BY FS_EmptySet
  <2>4. PICK c \in F : \A d \in F : d <= c
    BY <2>3, LargestFact
  <2>5. F = (F \ {c}) \cup {c}
    BY <2>4
  <2>6. \A d \in F : d \in F \ {c} <=> d \in below(c)
    BY <1>2, <1>3, <2>4
  <2>7. Cardinality(F) = Cardinality(below(c)) + 1
    BY <1>1, <1>7, <2>5, <2>6
  <2> QED BY <1>1, <2>2, <2>4, <2>7
<1>9. PICK c \in T : \A d \in T : c <= d
  BY <1>6, <1>8, LeastNat
<1>10. c \in F /\ c \in Nat /\ r <= Cardinality(below(c))
  BY <1>3, <1>5, <1>6, <1>9
<1>11. \A d \in below(c) : d \in F /\ d \in Nat /\ d < c /\ Cardinality(below(d)) < r
  <2> TAKE d \in below(c)
  <2>1. d \in F /\ d < c /\ d \in Nat
    BY <1>2, <1>3
  <2>2. d \notin T
    BY <1>9, <1>10, <2>1
  <2> QED BY <1>1, <1>5, <2>1, <2>2
<1>12. CASE below(c) = {}
  BY <1>10, <1>12, FS_EmptySet
<1>13. CASE below(c) # {}
  <2>1. below(c) \in SUBSET Nat /\ \A d \in below(c) : d <= top
    BY <1>11
  <2>2. PICK e \in below(c) : \A d \in below(c) : d <= e
    BY <1>13, <2>1, LargestFact
  <2>3. e \in F /\ e \in Nat /\ e < c /\ Cardinality(below(e)) < r
    BY <1>11
  <2>4. below(c) = (below(c) \ {e}) \cup {e}
    BY <2>2
  <2>5. \A d \in F : d \in below(c) \ {e} <=> d \in below(e)
    <3> TAKE d \in F
    <3>1. CASE d \in below(c) \ {e}
      <4>1. d <= e /\ d # e /\ d \in Nat
        BY <1>3, <2>2, <3>1
      <4> QED BY <1>2, <2>3, <3>1, <4>1
    <3>2. CASE d \in below(e)
      <4>1. d < e /\ d \in Nat
        BY <1>2, <1>3, <3>2
      <4>2. d < c /\ d # e
        BY <1>10, <2>3, <4>1
      <4> QED BY <1>2, <3>2, <4>2
    <3> QED BY <3>1, <3>2
  <2>6. Cardinality(below(c)) = Cardinality(below(e)) + 1
    BY <1>1, <1>7, <2>3, <2>4, <2>5
  <2> QED BY <1>1, <1>10, <2>3, <2>6
<1> QED BY <1>12, <1>13

\* The clusters claimed are free ones, and as many as were asked for.
LEMMA FreshFact ==
  ASSUME NEW v, NEW n \in Nat, CanClaim(v, n)
  PROVE  ClaimFree(v, n) \in Seq(FreeClusters(v)) /\ Len(ClaimFree(v, n)) = n
<1> DEFINE F == FreeClusters(v)
           top == ClusterCount + 1
<1>1. F \subseteq Clusters /\ IsFiniteSet(F) /\ Cardinality(F) \in Nat /\ n <= Cardinality(F)
  BY FiniteFact DEF CanClaim
<1>2. top \in Nat /\ F \in SUBSET Nat /\ \A c \in F : c <= top
  BY <1>1, FatAssumption DEF Clusters
<1>3. ClaimFree(v, n) =
        [i \in 1 .. n |-> CHOOSE c \in F : Cardinality({d \in F : d < c}) = i - 1]
  BY DEF ClaimFree, InOrder
<1> HIDE DEF F, top
<1>4. ASSUME NEW i \in 1 .. n
      PROVE  (CHOOSE c \in F : Cardinality({d \in F : d < c}) = i - 1) \in F
  <2>1. i - 1 \in Nat /\ i - 1 < Cardinality(F)
    BY <1>1
  <2>2. \E c \in F : Cardinality({d \in F : d < c}) = i - 1
    BY <1>1, <1>2, <2>1, RankFact
  <2> QED BY <2>2
<1> DEFINE e(i) == CHOOSE c \in F : Cardinality({d \in F : d < c}) = i - 1
<1>5. ClaimFree(v, n) = [i \in 1 .. n |-> e(i)] /\ \A i \in 1 .. n : e(i) \in F
  BY <1>3, <1>4
<1> HIDE DEF e
<1> QED BY <1>5 DEF F

\* The work of a verb is a volume, whether it succeeded, a slot and clusters.
WorkOK(w) ==
  /\ w = [v |-> w.v, ok |-> w.ok, slot |-> w.slot, got |-> w.got]
  /\ VolumeOK(w.v)

\* The same work on another volume.
LEMMA WorkVolume ==
  ASSUME NEW w, WorkOK(w), NEW u, VolumeOK(u), NEW x, x = [w EXCEPT !.v = u]
  PROVE  WorkOK(x) /\ x.v = u /\ x.ok = w.ok /\ x.slot = w.slot /\ x.got = w.got
<1>1. PICK a, b, c, d : w = [v |-> a, ok |-> b, slot |-> c, got |-> d]
  BY Zenon DEF WorkOK
<1>2. w.v = a /\ w.ok = b /\ w.slot = c /\ w.got = d /\ VolumeOK(w.v)
  BY <1>1 DEF WorkOK
<1>3. x = [v |-> u, ok |-> b, slot |-> c, got |-> d]
  BY <1>1
<1> QED BY <1>2, <1>3 DEF WorkOK

\* The same work at another slot.
LEMMA WorkSlot ==
  ASSUME NEW w, WorkOK(w), NEW l, NEW x, x = [w EXCEPT !.slot = l]
  PROVE  WorkOK(x) /\ x.v = w.v /\ x.ok = w.ok /\ x.slot = l /\ x.got = w.got
<1>1. PICK a, b, c, d : w = [v |-> a, ok |-> b, slot |-> c, got |-> d]
  BY Zenon DEF WorkOK
<1>2. w.v = a /\ w.ok = b /\ w.slot = c /\ w.got = d /\ VolumeOK(w.v)
  BY <1>1 DEF WorkOK
<1>3. x = [v |-> a, ok |-> b, slot |-> l, got |-> d]
  BY <1>1
<1> QED BY <1>2, <1>3 DEF WorkOK

\* The same work with other clusters.
LEMMA WorkGot ==
  ASSUME NEW w, WorkOK(w), NEW g, NEW x, x = [w EXCEPT !.got = g]
  PROVE  WorkOK(x) /\ x.v = w.v /\ x.ok = w.ok /\ x.slot = w.slot /\ x.got = g
<1>1. PICK a, b, c, d : w = [v |-> a, ok |-> b, slot |-> c, got |-> d]
  BY Zenon DEF WorkOK
<1>2. w.v = a /\ w.ok = b /\ w.slot = c /\ w.got = d /\ VolumeOK(w.v)
  BY <1>1 DEF WorkOK
<1>3. x = [v |-> a, ok |-> b, slot |-> c, got |-> g]
  BY <1>1
<1> QED BY <1>2, <1>3 DEF WorkOK

\* The same work, failed.
LEMMA WorkFails ==
  ASSUME NEW w, WorkOK(w), NEW x, x = [w EXCEPT !.ok = FALSE]
  PROVE  WorkOK(x) /\ x.v = w.v /\ x.ok = FALSE /\ x.slot = w.slot /\ x.got = w.got
<1>1. PICK a, b, c, d : w = [v |-> a, ok |-> b, slot |-> c, got |-> d]
  BY Zenon DEF WorkOK
<1>2. w.v = a /\ w.ok = b /\ w.slot = c /\ w.got = d /\ VolumeOK(w.v)
  BY <1>1 DEF WorkOK
<1>3. x = [v |-> a, ok |-> FALSE, slot |-> c, got |-> d]
  BY <1>1
<1> QED BY <1>2, <1>3 DEF WorkOK

\* Work begins on a volume as it is.
LEMMA WorkFact ==
  ASSUME NEW v, VolumeOK(v), NEW slot, NEW w, w = Work(v, slot)
  PROVE  WorkOK(w) /\ w.v = v /\ w.ok = TRUE /\ w.slot = slot
  BY DEF Work, WorkOK

\* A refusal leaves it so.
LEMMA RefusalFact ==
  ASSUME NEW v, VolumeOK(v), NEW w, w = Refusal(v)
  PROVE  WorkOK(w) /\ w.v = v /\ w.ok = FALSE
<1> DEFINE k == Work(v, NoLoc)
<1>1. WorkOK(k) /\ k.v = v
  BY WorkFact
<1>2. w = [k EXCEPT !.ok = FALSE]
  BY DEF Refusal
<1> HIDE DEF k
<1> QED BY <1>1, <1>2, WorkFails

\* A claim that can be met is, and changes nothing else.
LEMMA ClaimedFact ==
  ASSUME NEW w, WorkOK(w), NEW n \in Nat, NEW x, x = ClaimClusters(w, n)
  PROVE  /\ WorkOK(x) /\ x.v = w.v
         /\ CanClaim(w.v, n) => /\ x.ok = w.ok /\ x.slot = w.slot
                                /\ x.got \in Seq(FreeClusters(w.v)) /\ Len(x.got) = n
                                /\ x.got \in Seq(Clusters)
         /\ ~CanClaim(w.v, n) => x.ok = FALSE
<1>1. CASE CanClaim(w.v, n)
  <2> DEFINE c == ClaimFree(w.v, n)
  <2>1. c \in Seq(FreeClusters(w.v)) /\ Len(c) = n
    BY <1>1, FreshFact
  <2>2. c \in Seq(Clusters)
    BY <2>1, FiniteFact
  <2>3. x = [w EXCEPT !.got = c]
    BY <1>1 DEF ClaimClusters
  <2> HIDE DEF c
  <2>4. WorkOK(x) /\ x.v = w.v /\ x.ok = w.ok /\ x.slot = w.slot /\ x.got = c
    BY <2>3, WorkGot
  <2> QED BY <1>1, <2>1, <2>2, <2>3, <2>4
<1>2. CASE ~CanClaim(w.v, n)
  <2>1. x = [w EXCEPT !.ok = FALSE]
    BY <1>2 DEF ClaimClusters
  <2> QED BY <1>2, <2>1, WorkFails
<1> QED BY <1>1, <1>2

\* A record written names a cluster, or 0.
LEMMA WrittenFact ==
  ASSUME NEW w, WorkOK(w), NEW cell, cell.first \in Int, NEW x, x = WriteRecord(w, cell)
  PROVE  /\ WorkOK(x) /\ x.ok = w.ok /\ x.got = w.got
         /\ FreeClusters(x.v) = FreeClusters(w.v)
<1> DEFINE g == [w.v.cells EXCEPT ![w.slot] = cell]
           u == [w.v EXCEPT !.cells = g]
<1>1. x = [w EXCEPT !.v = u]
  BY Zenon DEF WriteRecord
<1>2. DOMAIN w.v.cells = Locs /\ \A l \in Locs : w.v.cells[l].first \in Int
  BY DEF WorkOK, VolumeOK
<1>3. DOMAIN g = Locs /\ \A l \in Locs : g[l].first \in Int
  <2>1. \A l \in Locs : g[l] = IF l = w.slot THEN cell ELSE w.v.cells[l]
    BY <1>2
  <2>2. DOMAIN g = Locs
    BY <1>2
  <2> HIDE DEF g
  <2> QED BY <1>2, <2>1, <2>2
<1>4. VolumeOK(w.v)
  BY DEF WorkOK
<1> HIDE DEF g
<1>5. VolumeOK(u) /\ FreeClusters(u) = FreeClusters(w.v)
  BY <1>3, <1>4, CellsFact
<1> HIDE DEF u
<1>6. WorkOK(x) /\ x.v = u /\ x.ok = w.ok /\ x.got = w.got
  BY <1>1, <1>5, WorkVolume
<1> QED BY <1>5, <1>6

\* A directory grows by one free cluster, which is enough.
LEMMA GrowFact ==
  ASSUME NEW k, WorkOK(k), k.ok = TRUE, NEW d, ChainOK(k.v, d), d # End, CanClaim(k.v, 1),
         NEW w, w = GrowDirectory(k, d)
  PROVE  /\ WorkOK(w) /\ w.ok = TRUE
         /\ Cardinality(FreeClusters(w.v)) = Cardinality(FreeClusters(k.v)) - 1
<1> DEFINE u     == k.v
           x     == ClaimClusters(k, 1)
           new   == x.got[1]
           cs == Chain(x.v, d)
           last  == cs[Len(cs)]
           f     == [c \in {last, new} |-> IF c = new THEN End ELSE new]
           grown == SetEntries(x.v, f)
           bare  == ZeroCluster(grown, new)
<1>1. \A y : y = ClaimClusters(k, 1) =>
        WorkOK(y) /\ y.v = u /\ y.ok = TRUE /\ y.got \in Seq(FreeClusters(u)) /\ Len(y.got) = 1
  <2> HIDE DEF x, u
  <2> SUFFICES ASSUME NEW y, y = ClaimClusters(k, 1)
               PROVE  /\ WorkOK(y) /\ y.v = u /\ y.ok = TRUE
                      /\ y.got \in Seq(FreeClusters(u)) /\ Len(y.got) = 1
    OBVIOUS
  <2>1. 1 \in Nat
    OBVIOUS
  <2>2. /\ WorkOK(y) /\ y.v = k.v /\ y.ok = k.ok
        /\ y.got \in Seq(FreeClusters(k.v)) /\ Len(y.got) = 1
    BY <2>1, ClaimedFact, Zenon
  <2> QED BY <2>2 DEF u
<1>2. WorkOK(x) /\ x.v = u /\ x.ok = TRUE /\ x.got \in Seq(FreeClusters(u)) /\ Len(x.got) = 1
  BY <1>1
<1>3. w = [x EXCEPT !.v = bare, !.slot = <<new, 0>>]
  BY <1>2, Zenon DEF GrowDirectory, Then
<1>4. new \in FreeClusters(u) /\ new \in Clusters
  BY <1>2, FiniteFact
<1>5. last \in Clusters /\ Entry(u, last) # Free
  <2>1. /\ cs \in Seq(Clusters) /\ Len(cs) > 0
        /\ \A i \in 1 .. Len(cs) : Entry(u, cs[i]) # Free
    BY <1>2, ChainFact
  <2>2. Len(cs) \in 1 .. Len(cs)
    BY <2>1
  <2> HIDE DEF cs
  <2> QED BY <2>1, <2>2
<1> HIDE DEF x, new, last
<1>6. DOMAIN f = {last, new} /\ f[new] = End /\ (last # new => f[last] = new)
  OBVIOUS
<1>7. End \in Int /\ End # Free /\ Free \notin Clusters /\ Clusters \subseteq Int
  BY DEF End, Free, Clusters
<1> HIDE DEF f
<1>8. \A c \in Clusters \cap DOMAIN f : f[c] \in Int
  BY <1>4, <1>6, <1>7
<1> HIDE DEF grown
<1>9. /\ VolumeOK(grown)
      /\ \A c \in Clusters : Entry(grown, c) = IF c \in DOMAIN f THEN f[c] ELSE Entry(u, c)
  <2>1. grown = SetEntries(u, f) /\ VolumeOK(u)
    BY <1>2 DEF grown, WorkOK
  <2> HIDE DEF u
  <2> QED BY <1>8, <2>1, SetFact
<1>10. FreeClusters(grown) = FreeClusters(u) \ {new}
  BY <1>4, <1>5, <1>6, <1>7, <1>9 DEF FreeClusters
<1>11. VolumeOK(bare) /\ FreeClusters(bare) = FreeClusters(grown)
  BY <1>9, WritesFact
<1> HIDE DEF bare
<1>12. Cardinality(FreeClusters(bare)) = Cardinality(FreeClusters(u)) - 1
  <2> DEFINE F == FreeClusters(u)
  <2>1. IsFiniteSet(F) /\ new \in F
    BY <1>4, FiniteFact
  <2>2. FreeClusters(bare) = F \ {new}
    BY <1>10, <1>11
  <2> HIDE DEF F
  <2>3. Cardinality(F \ {new}) = Cardinality(F) - 1
    BY <2>1, FS_RemoveElement
  <2> QED BY <2>2, <2>3 DEF F
<1> DEFINE y == [x EXCEPT !.v = bare]
<1>13. WorkOK(y) /\ y.v = bare /\ y.ok = x.ok
  BY <1>2, <1>11, WorkVolume
<1>14. w = [y EXCEPT !.slot = <<new, 0>>]
  <2>1. PICK a, b, c, e : x = [v |-> a, ok |-> b, slot |-> c, got |-> e]
    BY <1>2, Zenon DEF WorkOK
  <2> QED BY <1>3, <2>1
<1> HIDE DEF y
<1>15. WorkOK(w) /\ w.v = y.v /\ w.ok = y.ok
  BY <1>13, <1>14, WorkSlot
<1> QED BY <1>2, <1>12, <1>13, <1>15 DEF u

\* The record's slot is taken, the directory growing for it where it must, and
\* what was free beyond that still is; or nothing is done.
LEMMA TakeFact ==
  ASSUME NEW u, VolumeOK(u), NEW slot, NEW d, slot = NoLoc => ChainOK(u, d) /\ d # End,
         NEW w, w = TakeSlot(Work(u, slot), d)
  PROVE  /\ WorkOK(w)
         /\ w.ok = TRUE \/ (w.ok = FALSE /\ w.v = u)
         /\ \A want \in Nat : CanClaim(u, want + Growth(slot)) =>
              w.ok = TRUE /\ CanClaim(w.v, want)
         /\ slot # NoLoc => w.ok = TRUE /\ w.v = u
<1> DEFINE k == Work(u, slot)
<1>1. WorkOK(k) /\ k.v = u /\ k.ok = TRUE /\ k.slot = slot
  BY DEF Work, WorkOK
<1>2. w = IF slot = NoLoc THEN GrowDirectory(k, d) ELSE k
  BY <1>1 DEF TakeSlot
<1> HIDE DEF k
<1>3. CASE slot # NoLoc
  <2>1. w = k /\ \A want \in Nat : want + Growth(slot) = want
    BY <1>2, <1>3 DEF Growth
  <2> QED BY <1>1, <1>3, <2>1
<1>4. CASE slot = NoLoc
  <2>1. w = GrowDirectory(k, d) /\ Growth(slot) = 1
    BY <1>2, <1>4 DEF Growth
  <2>2. CASE CanClaim(u, 1)
    <3>1. /\ WorkOK(w) /\ w.ok = TRUE
          /\ Cardinality(FreeClusters(w.v)) = Cardinality(FreeClusters(u)) - 1
      BY <1>1, <1>4, <2>1, <2>2, GrowFact
    <3>2. \A want \in Nat : CanClaim(u, want + 1) => CanClaim(w.v, want)
      BY <3>1, FiniteFact DEF CanClaim
    <3> QED BY <1>4, <2>1, <3>1, <3>2
  <2>3. CASE ~CanClaim(u, 1)
    <3>1. \A x : x = ClaimClusters(k, 1) => WorkOK(x) /\ x.v = u /\ x.ok = FALSE
      BY <1>1, <2>3, ClaimedFact
    <3>2. w = ClaimClusters(k, 1)
      BY <2>1, <3>1, Zenon DEF GrowDirectory, Then
    <3>3. \A want \in Nat : ~CanClaim(u, want + 1)
      BY <2>3, FiniteFact DEF CanClaim
    <3> QED BY <1>4, <2>1, <3>1, <3>2, <3>3
  <2> QED BY <2>2, <2>3
<1> QED BY <1>3, <1>4

\* A directory's records stand in the root or in its clusters.
LEMMA SlotsFact ==
  ASSUME NEW v, NEW d, d # End, DirReadable(v, d)
  PROVE  LET s == DirSlots(v, d)
         IN  DOMAIN s \subseteq Nat /\ \A i \in DOMAIN s : s[i] \in Locs
<1>1. CASE d = 0
  <2>1. DirSlots(v, d) = [i \in 1 .. RootCells |-> <<0, i - 1>>]
    BY <1>1 DEF DirSlots
  <2>2. \A i \in 1 .. RootCells : i - 1 \in 0 .. RootCells - 1
    BY FatAssumption
  <2>3. \A i \in 1 .. RootCells : <<0, i - 1>> \in Locs
    BY <2>2 DEF Locs
  <2> QED BY <2>1, <2>3
<1>2. CASE d # 0
  <2> DEFINE c == Chain(v, d)
             C == ClusterCells
  <2>1. c \in Seq(Clusters)
    BY <1>2, ChainFact DEF DirReadable
  <2>2. DirSlots(v, d) =
          [i \in 1 .. Len(c) * C |-> <<c[(i - 1) \div C + 1], (i - 1) % C>>]
    BY <1>2 DEF DirSlots, ClusterSlots
  <2>3. C \in Nat /\ C > 0
    BY FatAssumption
  <2> HIDE DEF c, C
  <2>4. ASSUME NEW i \in 1 .. Len(c) * C
        PROVE  /\ i \in Nat /\ (i - 1) \div C + 1 \in 1 .. Len(c) /\ (i - 1) % C \in 0 .. C - 1
    <3> DEFINE L == Len(c)
               q == (i - 1) \div C
               r == (i - 1) % C
    <3>1. L \in Nat /\ L * C \in Nat
      BY <2>1, <2>3
    <3>2. i - 1 \in Nat /\ i - 1 < L * C /\ i \in Nat
      BY <3>1
    <3>3. q \in Nat /\ r \in 0 .. C - 1 /\ i - 1 = C * q + r
      BY <2>3, <3>2
    <3> HIDE DEF L, q, r
    <3>4. q < L
      <4>1. SUFFICES ASSUME L <= q PROVE FALSE
        BY <3>1, <3>3
      <4>2. PICK e \in Nat : q = L + e
        <5>1. q - L \in Nat /\ q = L + (q - L)
          BY <3>1, <3>3, <4>1
        <5> QED BY <5>1
      <4>3. C * q = L * C + C * e
        BY <2>3, <3>1, <3>3, <4>2
      <4>4. C * e \in Nat
        BY <2>3, <4>2
      <4> QED BY <3>1, <3>2, <3>3, <4>3, <4>4
    <3>5. q + 1 \in 1 .. L
      BY <3>1, <3>3, <3>4
    <3> QED BY <3>2, <3>3, <3>5 DEF L, q, r
  <2>5. ASSUME NEW i \in 1 .. Len(c) * C
        PROVE  <<c[(i - 1) \div C + 1], (i - 1) % C>> \in Locs
    <3>1. c[(i - 1) \div C + 1] \in Clusters
      BY <2>1, <2>4
    <3>2. (i - 1) % C \in Within
      BY <2>4 DEF Within, C
    <3> QED BY <3>1, <3>2 DEF Locs
  <2> QED BY <2>2, <2>4, <2>5
<1> QED BY <1>1, <1>2

\* A record found is one of the directory's; a place without one has none of
\* its own; and a directory in which a path stands is the root or a chain.
LEMMA PlaceFact ==
  ASSUME NEW v, VolumeOK(v), NEW d, NEW name, NEW k, k = LookIn(v, d, name), k.can
  PROVE  /\ k.slot = NoLoc => k.loc = NoLoc
         /\ k.loc = NoLoc => k.record = Zero
         /\ k.record.first \in Int
         /\ k.parent # 0 => ChainOK(v, k.parent) /\ k.parent # End
         /\ k.parent \in Int
<1>1. d # -1 /\ DirReadable(v, d)
  BY DEF LookIn, Nowhere
<1> DEFINE s == DirSlots(v, d)
           l == FindAmong(v, s, name)
           is == {i \in Listed(v, s) : At(v, s[i]).name = name}
<1>2. k = Placed(v, d, l, FreeRecord(v, s))
  BY <1>1 DEF LookIn, LookAmong
<1>3. DOMAIN s \subseteq Nat /\ \A i \in DOMAIN s : s[i] \in Locs
  BY <1>1, SlotsFact DEF End
<1>4. l = FirstOf(s, is)
  BY DEF FindAmong
<1>5. is \subseteq DOMAIN s
  BY DEF Listed
<1> HIDE DEF s, is
<1>6. l = NoLoc \/ l \in Locs
  <2>1. CASE is = {}
    BY <1>4, <2>1 DEF FirstOf
  <2>2. CASE is # {}
    <3>1. \E i \in is : \A j \in is : i <= j
      BY <1>3, <1>5, <2>2, LeastNat
    <3>2. (CHOOSE i \in is : \A j \in is : i <= j) \in is
      BY <3>1
    <3> QED BY <1>3, <1>4, <1>5, <2>2, <3>2 DEF FirstOf
  <2> QED BY <2>1, <2>2
<1> HIDE DEF l
<1>7. /\ k.parent = d /\ k.loc = l
      /\ k.slot = IF l = NoLoc THEN FreeRecord(v, s) ELSE l
      /\ k.record = IF l = NoLoc THEN Zero ELSE At(v, l)
  BY <1>2 DEF Placed
<1>8. k.record.first \in Int
  <2>1. Zero.first = 0
    BY DEF Zero, Cell
  <2>2. l \in Locs => At(v, l).first \in Int
    BY DEF VolumeOK, At
  <2> QED BY <1>6, <1>7, <2>1, <2>2
<1>9. d # 0 => ChainOK(v, d) /\ d # End
  BY <1>1 DEF DirReadable, End
<1>10. d \in Int
  <2>1. d # 0 => d \in Clusters
    BY <1>9, ChainFact
  <2> QED BY <2>1 DEF Clusters
<1> QED BY <1>7, <1>8, <1>9, <1>10

\* The clusters of a file that can be read: none is free, none stands twice.
LEMMA FileChainFact ==
  ASSUME NEW v, NEW r, r.first \in Int, FileChainOK(v, r)
  PROVE  LET c == FileChain(v, r)
         IN  /\ c \in Seq(Clusters)
             /\ \A i \in 1 .. Len(c) : Entry(v, c[i]) # Free
             /\ \A i, j \in 1 .. Len(c) : c[i] = c[j] => i = j
             /\ r.first = 0 => c = <<>>
<1>1. CASE r.first >= 2
  <2>1. ChainOK(v, r.first) /\ r.first # End
    BY <1>1 DEF FileChainOK, End
  <2>2. FileChain(v, r) = Chain(v, r.first)
    BY <1>1 DEF FileChain
  <2> QED BY <1>1, <2>1, <2>2, ChainFact
<1>2. CASE ~(r.first >= 2)
  <2>1. FileChain(v, r) = <<>>
    BY <1>2 DEF FileChain
  <2>2. <<>> \in Seq(Clusters) /\ Len(<<>>) = 0
    OBVIOUS
  <2> QED BY <2>1, <2>2
<1> QED BY <1>1, <1>2

\* A size takes a whole number of clusters.
LEMMA SizeFact ==
  ASSUME NEW n \in Nat
  PROVE  CellsFor(n) \in Nat
<1>1. n + ClusterCells - 1 \in Nat /\ ClusterCells \in Nat /\ ClusterCells > 0
  BY FatAssumption
<1> DEFINE m == n + ClusterCells - 1
           C == ClusterCells
<1>2. m \in Nat /\ C \in Nat /\ C > 0
  BY <1>1
<1> HIDE DEF m, C
<1>3. m \div C \in Nat
  BY <1>2
<1> QED BY <1>3 DEF CellsFor, m, C

\* What a call may do: it leaves a volume, and the one there was if it refuses.
Safe(v, r) == VolumeOK(r.v) /\ (r.ok = TRUE \/ (r.ok = FALSE /\ r.v = v))

LEMMA RefusalSafe ==
  ASSUME NEW v, VolumeOK(v)
  PROVE  Safe(v, Refusal(v))
BY RefusalFact DEF Safe, WorkOK

\* The first cluster of a chain, as a record holds it.
LEMMA FirstClusterFact ==
  ASSUME NEW c \in Seq(Clusters)
  PROVE  FirstCluster(c) \in Int
<1>1. CASE c = <<>>
  BY <1>1 DEF FirstCluster
<1>2. CASE c # <<>>
  <2>1. c[1] \in Clusters
    BY <1>2
  <2> QED BY <1>2, <2>1 DEF FirstCluster, Clusters
<1> QED BY <1>1, <1>2

\* write_file: once the clusters were counted, each later step succeeds.
LEMMA WriteSafe ==
  ASSUME NEW v, VolumeOK(v), NEW d, NEW name, NEW b \in Payloads,
         NEW k, k = LookIn(v, d, name)
  PROVE  Safe(v, WriteInto(v, name, b, k))
<1>0. PICK slot, dir : slot = k.slot /\ dir = k.parent
  OBVIOUS
<1> DEFINE old    == FileChain(v, k.record)
           needed == CellsFor(Len(b))
           u      == Release(v, old)
           w      == TakeSlot(Work(u, slot), dir)
           x      == ClaimClusters(w, needed)
           y      == [x EXCEPT !.v = Fill(LinkChain(x.v, x.got), x.got, b)]
           r      == WriteInto(v, name, b, k)
           gives  == \/ ~MayPlace(v, name, k)
                     \/ Cardinality(FreeClusters(v)) + Len(old) < needed + Growth(slot)
<1>1. CASE gives
  <2>1. r = Refusal(v)
    BY <1>0, <1>1, Zenon DEF WriteInto, WriteAs
  <2> QED BY <2>1, RefusalSafe
<1>2. CASE ~gives
  <2>1. needed \in Nat
    BY FatAssumption, SizeFact
  <2>2. /\ k.can /\ (k.loc # NoLoc => FileChainOK(v, k.record))
        /\ (slot = NoLoc => dir # 0)
    BY <1>0, <1>2 DEF MayPlace
  <2>3. /\ slot = NoLoc => k.loc = NoLoc
        /\ k.loc = NoLoc => k.record = Zero
        /\ k.record.first \in Int
        /\ dir # 0 => ChainOK(v, dir) /\ dir # End
    BY <1>0, <2>2, PlaceFact
  <2>4. Zero.first = 0
    BY DEF Zero, Cell
  <2>5. FileChainOK(v, k.record)
    BY <2>2, <2>3, <2>4 DEF FileChainOK
  <2>6. /\ old \in Seq(Clusters)
        /\ \A i \in 1 .. Len(old) : Entry(v, old[i]) # Free
        /\ \A i, j \in 1 .. Len(old) : old[i] = old[j] => i = j
        /\ k.record.first = 0 => old = <<>>
    BY <2>3, <2>5, FileChainFact
  <2>7. Len(old) \in Nat
    BY <2>6
  <2>8. ~(Cardinality(FreeClusters(v)) + Len(old) < needed + Growth(slot))
    BY <1>2
  <2>9. ~gives
    BY <1>2
  <2>10. r = Then(w, LAMBDA ww :
                Then(ClaimClusters(ww, needed), LAMBDA xx :
                  WriteRecord([xx EXCEPT !.v = Fill(LinkChain(xx.v, xx.got), xx.got, b)],
                              FileAt(name, FirstCluster(xx.got), Len(b)))))
    BY <1>0, <2>9, Zenon DEF WriteInto, WriteAs
  <2>11. w.ok /\ x.ok => r = WriteRecord(y, FileAt(name, FirstCluster(x.got), Len(b)))
    BY <2>10, Zenon DEF Then
  <2> HIDE DEF gives, old, needed, r
  <2>12. VolumeOK(u) /\ Cardinality(FreeClusters(u)) = Cardinality(FreeClusters(v)) + Len(old)
    BY <2>6, ReleaseFact
  <2>13. slot = NoLoc => u = v
    BY <2>3, <2>4, <2>6, ReleaseNone
  <2>14. CanClaim(u, needed + Growth(slot))
    BY <2>1, <2>7, <2>8, <2>12, FiniteFact DEF CanClaim, Growth
  <2>15. slot = NoLoc => ChainOK(u, dir) /\ dir # End
    BY <2>2, <2>3, <2>13
  <2> HIDE DEF u
  <2> HIDE DEF w, x, y
  <2>16. WorkOK(w) /\ w.ok = TRUE /\ CanClaim(w.v, needed)
    <3>1. w = TakeSlot(Work(u, slot), dir)
      BY DEF w
    <3>2. \A want \in Nat : CanClaim(u, want + Growth(slot)) => w.ok = TRUE /\ CanClaim(w.v, want)
      BY <2>12, <2>15, <3>1, TakeFact
    <3>3. WorkOK(w)
      BY <2>12, <2>15, <3>1, TakeFact
    <3> QED BY <2>1, <2>14, <3>2, <3>3
  <2> USE DEF x, y
  <2>17. WorkOK(x) /\ x.ok = w.ok /\ x.got \in Seq(Clusters)
    BY <2>1, <2>16, ClaimedFact
  <2> HIDE DEF x
  <2>18. VolumeOK(LinkChain(x.v, x.got))
    BY <2>17, LinkFact DEF WorkOK
  <2>19. VolumeOK(Fill(LinkChain(x.v, x.got), x.got, b))
    BY <2>18, WritesFact
  <2>20. WorkOK(y) /\ y.ok = x.ok
    BY <2>17, <2>19, WorkVolume
  <2> HIDE DEF y
  <2>21. FileAt(name, FirstCluster(x.got), Len(b)).first \in Int
    BY <2>17, FirstClusterFact DEF FileAt, Cell
  <2>22. r = WriteRecord(y, FileAt(name, FirstCluster(x.got), Len(b)))
    BY <2>11, <2>16, <2>17
  <2>23. WorkOK(r) /\ r.ok = y.ok
    BY <2>20, <2>21, <2>22, WrittenFact
  <2> QED BY <2>16, <2>17, <2>20, <2>23 DEF Safe, WorkOK, r
<1> QED BY <1>1, <1>2

\* resize_file: likewise; what is claimed is the difference alone.
LEMMA ResizeSafe ==
  ASSUME NEW v, VolumeOK(v), NEW d, NEW name, NEW size \in Nat,
         NEW k, k = LookIn(v, d, name)
  PROVE  Safe(v, ResizeInto(v, name, size, k))
<1>0. PICK slot, dir : slot = k.slot /\ dir = k.parent
  OBVIOUS
<1> DEFINE old    == FileChain(v, k.record)
           needed == CellsFor(size)
           n      == IF Len(old) < needed THEN Len(old) ELSE needed
           kept   == SubSeq(old, 1, n)
           rest   == SubSeq(old, n + 1, Len(old))
           u      == Release(v, rest)
           w      == TakeSlot(Work(u, slot), dir)
           x      == ClaimClusters(w, needed - n)
           grown  == Extend(x.v, kept, x.got, k.record.size)
           cs  == kept \o x.got
           y      == [x EXCEPT !.v = LinkChain(grown, cs)]
           cell   == FileAt(name, FirstCluster(cs), size)
           r      == ResizeInto(v, name, size, k)
           gives  == \/ ~MayPlace(v, name, k)
                     \/ needed > n /\ ~CanClaim(v, needed - n + Growth(slot))
<1>1. CASE gives
  <2>1. r = Refusal(v)
    BY <1>0, <1>1, Zenon DEF ResizeInto, ResizeOver, ResizeAs
  <2> QED BY <2>1, RefusalSafe
<1>2. CASE ~gives
  <2>1. needed \in Nat
    BY SizeFact
  <2>2. /\ k.can /\ (k.loc # NoLoc => FileChainOK(v, k.record))
        /\ (slot = NoLoc => dir # 0)
    BY <1>0, <1>2 DEF MayPlace
  <2>3. /\ slot = NoLoc => k.loc = NoLoc
        /\ k.loc = NoLoc => k.record = Zero
        /\ k.record.first \in Int
        /\ dir # 0 => ChainOK(v, dir) /\ dir # End
    BY <1>0, <2>2, PlaceFact
  <2>4. Zero.first = 0
    BY DEF Zero, Cell
  <2>5. FileChainOK(v, k.record)
    BY <2>2, <2>3, <2>4 DEF FileChainOK
  <2>6. old \in Seq(Clusters) /\ (k.record.first = 0 => old = <<>>)
    BY <2>3, <2>5, FileChainFact
  <2>7. ~(needed > n /\ ~CanClaim(v, needed - n + Growth(slot)))
    BY <1>2
  <2>8. r = Then(w, LAMBDA ww :
              Then(ClaimClusters(ww, needed - n), LAMBDA xx :
                WriteRecord([xx EXCEPT !.v = LinkChain(Extend(xx.v, kept, xx.got, k.record.size),
                                                       kept \o xx.got)],
                            FileAt(name, FirstCluster(kept \o xx.got), size))))
    BY <1>0, <1>2, Zenon DEF ResizeInto, ResizeOver, ResizeAs
  <2>9. /\ ~w.ok => r = w
        /\ w.ok /\ x.ok => r = WriteRecord(y, cell)
    BY <2>8, Zenon DEF Then
  <2> HIDE DEF gives, old, needed, r
  <2>10. Len(old) \in Nat /\ n \in Nat /\ n <= Len(old) /\ n <= needed
         /\ (needed > n => n = Len(old))
    BY <2>1, <2>6
  <2> HIDE DEF n
  <2>11. kept \in Seq(Clusters) /\ rest \in Seq(Clusters)
    BY <2>6, <2>10
  <2>12. n = Len(old) => rest = <<>>
    BY <2>6, <2>10
  <2> HIDE DEF kept, rest
  <2>13. VolumeOK(u)
    BY <2>11, ReleaseFact
  <2>14. rest = <<>> => u = v
    BY ReleaseNone
  <2>15. slot = NoLoc => u = v
    <3>1. slot = NoLoc => Len(old) = 0
      BY <2>3, <2>4, <2>6
    <3> QED BY <2>10, <2>12, <2>14, <3>1
  <2>16. slot = NoLoc => ChainOK(u, dir) /\ dir # End
    BY <2>2, <2>3, <2>15
  <2>17. needed - n \in Nat
    BY <2>1, <2>10
  <2>18. needed > n => CanClaim(u, needed - n + Growth(slot))
    BY <2>7, <2>10, <2>12, <2>14
  <2> HIDE DEF u
  <2>19. /\ WorkOK(w)
         /\ w.ok = TRUE \/ (w.ok = FALSE /\ w.v = u)
         /\ CanClaim(u, (needed - n) + Growth(slot)) => w.ok = TRUE /\ CanClaim(w.v, needed - n)
         /\ slot # NoLoc => w.ok = TRUE /\ w.v = u
    <3> HIDE DEF w, x, y, grown, cs, cell
    <3>1. w = TakeSlot(Work(u, slot), dir)
      BY DEF w
    <3>2. WorkOK(w)
      BY <2>13, <2>16, <3>1, TakeFact
    <3>3. w.ok = TRUE \/ (w.ok = FALSE /\ w.v = u)
      BY <2>13, <2>16, <3>1, TakeFact
    <3>4. \A want \in Nat : CanClaim(u, want + Growth(slot)) => w.ok = TRUE /\ CanClaim(w.v, want)
      BY <2>13, <2>16, <3>1, TakeFact
    <3>5. ASSUME slot # NoLoc PROVE w.ok = TRUE /\ w.v = u
      <4>1. w = Work(u, slot)
        BY <3>1, <3>5 DEF TakeSlot, Work
      <4> QED BY <2>13, <4>1, WorkFact
    <3> QED BY <2>17, <3>2, <3>3, <3>4, <3>5
  <2> HIDE DEF w
  <2>20. CASE w.ok = FALSE
    <3>1. slot = NoLoc /\ u = v /\ r = w
      BY <2>9, <2>15, <2>19, <2>20
    <3> QED BY <2>13, <2>19, <2>20, <3>1 DEF Safe, r
  <2>21. CASE w.ok = TRUE
    <3>1. CanClaim(w.v, needed - n)
      <4>1. CASE needed > n
        BY <2>18, <2>19, <4>1
      <4>2. CASE ~(needed > n)
        <5>1. needed - n = 0
          BY <2>1, <2>10, <4>2
        <5> QED BY <5>1, FiniteFact DEF CanClaim
      <4> QED BY <4>1, <4>2
    <3>2. WorkOK(x) /\ x.ok = w.ok /\ x.got \in Seq(Clusters)
      BY <2>17, <2>19, <3>1, ClaimedFact
    <3> HIDE DEF x
    <3>3. cs \in Seq(Clusters)
      BY <2>11, <3>2, ConcatProperties
    <3> HIDE DEF cs
    <3>4. VolumeOK(grown)
      <4>1. VolumeOK(Fill(x.v, x.got, <<>>))
        BY <3>2, WritesFact DEF WorkOK
      <4> QED BY <4>1, WritesFact DEF Extend
    <3> HIDE DEF grown
    <3>5. VolumeOK(LinkChain(grown, cs))
      BY <3>3, <3>4, LinkFact
    <3>6. WorkOK(y) /\ y.ok = x.ok
      BY <3>2, <3>5, WorkVolume
    <3> HIDE DEF y
    <3>7. cell.first \in Int
      BY <3>3, FirstClusterFact DEF FileAt, Cell
    <3> HIDE DEF cell
    <3>8. r = WriteRecord(y, cell)
      BY <2>9, <2>21, <3>2
    <3>9. WorkOK(r) /\ r.ok = y.ok
      BY <3>6, <3>7, <3>8, WrittenFact
    <3> QED BY <2>21, <3>2, <3>6, <3>9 DEF Safe, WorkOK, r
  <2> QED BY <2>19, <2>20, <2>21
<1> QED BY <1>1, <1>2

\* write_file_at: it changes bytes within the file, or nothing.
LEMMA WriteAtSafe ==
  ASSUME NEW v, VolumeOK(v), NEW at, NEW b, NEW k
  PROVE  Safe(v, WriteOver(v, at, b, k))
<1> DEFINE c     == FileChain(v, k.record)
           u     == Overwritten(v, at, b, c)
           gives == ~k.can \/ ~SpanOK(v, k, at, Len(b))
           r     == WriteOver(v, at, b, k)
<1>1. CASE gives
  <2>1. r = Refusal(v)
    BY <1>1, Zenon DEF WriteOver
  <2> QED BY <2>1, RefusalSafe
<1>2. CASE ~gives
  <2>1. r = Work(u, NoLoc)
    BY <1>2, Zenon DEF WriteOver
  <2>2. VolumeOK(u)
    BY WritesFact
  <2> HIDE DEF u, r
  <2>3. WorkOK(r) /\ r.v = u /\ r.ok = TRUE
    BY <2>1, <2>2, WorkFact
  <2> QED BY <2>2, <2>3 DEF Safe, r
<1> QED BY <1>1, <1>2

\* One entry set: a free cluster ended is free no more.
LEMMA EndedFact ==
  ASSUME NEW v, VolumeOK(v), NEW c \in FreeClusters(v)
  PROVE  /\ VolumeOK(SetEntry(v, c, End))
         /\ FreeClusters(SetEntry(v, c, End)) = FreeClusters(v) \ {c}
<1> DEFINE f == [e \in {c} |-> End]
           u == SetEntries(v, f)
<1>1. SetEntry(v, c, End) = u
  <2> DEFINE s == [k \in Copies |-> [v.fats[k] EXCEPT ![c] = End]]
             t == [k \in Copies |-> [e \in Clusters |-> IF e \in DOMAIN f THEN f[e] ELSE v.fats[k][e]]]
  <2>1. \A k \in Copies : [v.fats[k] EXCEPT ![c] = End]
                          = [e \in Clusters |-> IF e \in DOMAIN f THEN f[e] ELSE v.fats[k][e]]
    BY DEF VolumeOK
  <2>2. s = t
    BY <2>1
  <2>3. SetEntry(v, c, End) = [v EXCEPT !.fats = s]
    BY Zenon DEF SetEntry
  <2>4. u = [v EXCEPT !.fats = t]
    BY Zenon DEF SetEntries
  <2> HIDE DEF s, t, u
  <2> QED BY <2>2, <2>3, <2>4
<1>2. DOMAIN f = {c} /\ f[c] = End
  OBVIOUS
<1>3. End \in Int /\ End # Free /\ Free \notin Clusters
  BY DEF End, Free, Clusters
<1> HIDE DEF f
<1>4. \A e \in Clusters \cap DOMAIN f : f[e] \in Int
  BY <1>2, <1>3
<1>5. /\ VolumeOK(u)
      /\ \A e \in Clusters : Entry(u, e) = IF e \in DOMAIN f THEN f[e] ELSE Entry(v, e)
  BY <1>4, SetFact
<1> HIDE DEF u
<1>6. FreeClusters(u) = FreeClusters(v) \ {c}
  BY <1>2, <1>3, <1>5 DEF FreeClusters
<1> QED BY <1>1, <1>5, <1>6

\* A directory is created in one free cluster, which is enough.
LEMMA CreateFact ==
  ASSUME NEW w, WorkOK(w), w.ok = TRUE, NEW d \in Int, NEW name, CanClaim(w.v, 1),
         NEW r, r = CreateDirectory(w, d, name)
  PROVE  /\ WorkOK(r) /\ r.ok = TRUE
         /\ r.got \in Seq(Clusters) /\ Len(r.got) = 1
         /\ Cardinality(FreeClusters(r.v)) = Cardinality(FreeClusters(w.v)) - 1
<1> DEFINE x     == ClaimClusters(w, 1)
           c     == x.got[1]
           ended == SetEntry(x.v, c, End)
           made  == ZeroCluster(ended, c)
           first == DirAt(".", c)
           above == DirAt("..", d)
           one   == [made.cells EXCEPT ![<<c, 0>>] = first]
           two   == [one EXCEPT ![<<c, 1>>] = above]
           dots  == [made EXCEPT !.cells[<<c, 0>>] = first, !.cells[<<c, 1>>] = above]
           y     == [x EXCEPT !.v = dots]
           z     == WriteRecord(y, DirAt(name, c))
<1>1. /\ WorkOK(x) /\ x.v = w.v /\ x.ok = TRUE
      /\ x.got \in Seq(FreeClusters(w.v)) /\ Len(x.got) = 1 /\ x.got \in Seq(Clusters)
  <2> HIDE DEF x
  <2>1. 1 \in Nat /\ x = ClaimClusters(w, 1)
    BY DEF x
  <2> QED BY <2>1, ClaimedFact, Zenon
<1>2. r = [z EXCEPT !.slot = <<c, 2>>]
  <2>1. r = IF x.ok THEN [z EXCEPT !.slot = <<c, 2>>] ELSE x
    BY Zenon DEF CreateDirectory, Then
  <2> QED BY <1>1, <2>1, Zenon
<1> HIDE DEF x
<1>3. c \in FreeClusters(w.v) /\ c \in Int
  <2>1. c \in FreeClusters(w.v)
    BY <1>1
  <2>2. c \in Clusters
    BY <2>1, FiniteFact
  <2> QED BY <2>1, <2>2 DEF Clusters
<1> HIDE DEF c
<1>4. VolumeOK(ended) /\ FreeClusters(ended) = FreeClusters(w.v) \ {c}
  BY <1>1, <1>3, EndedFact DEF WorkOK
<1> HIDE DEF ended
<1>5. VolumeOK(made) /\ FreeClusters(made) = FreeClusters(ended)
  BY <1>4, WritesFact
<1> HIDE DEF made
<1>6. first.first \in Int /\ above.first \in Int /\ DirAt(name, c).first \in Int
  BY <1>3 DEF DirAt, Cell
<1> HIDE DEF first, above
<1>7. DOMAIN two = Locs /\ \A l \in Locs : two[l].first \in Int
  <2>1. DOMAIN made.cells = Locs /\ \A l \in Locs : made.cells[l].first \in Int
    BY <1>5 DEF VolumeOK
  <2> DEFINE a == <<c, 0>>
             b == <<c, 1>>
             g == made.cells
  <2> HIDE DEF a, b, g
  <2>2. DOMAIN g = Locs /\ \A l \in Locs : g[l].first \in Int
    BY <2>1 DEF g
  <2>3. one = [g EXCEPT ![a] = first] /\ two = [one EXCEPT ![b] = above]
    BY DEF g, a, b
  <2> HIDE DEF one, two
  <2>4. DOMAIN one = Locs /\ \A l \in Locs : one[l] = IF l = a THEN first ELSE g[l]
    BY <2>2, <2>3
  <2>5. DOMAIN two = Locs /\ \A l \in Locs : two[l] = IF l = b THEN above ELSE one[l]
    BY <2>3, <2>4
  <2> QED BY <1>6, <2>2, <2>4, <2>5
<1>8. dots = [made EXCEPT !.cells = two]
  <2>1. PICK p, q, s : made = [fats |-> p, cells |-> q, boot |-> s]
    BY <1>5, Zenon DEF VolumeOK
  <2> QED BY <2>1
<1> HIDE DEF dots, two
<1>9. VolumeOK(dots) /\ FreeClusters(dots) = FreeClusters(made)
  BY <1>5, <1>7, <1>8, CellsFact
<1>10. WorkOK(y) /\ y.v = dots /\ y.ok = TRUE /\ y.got = x.got
  BY <1>1, <1>9, WorkVolume
<1> HIDE DEF y
<1>11. WorkOK(z) /\ z.ok = y.ok /\ z.got = y.got /\ FreeClusters(z.v) = FreeClusters(y.v)
  BY <1>6, <1>10, WrittenFact
<1> HIDE DEF z
<1>12. WorkOK(r) /\ r.v = z.v /\ r.ok = z.ok /\ r.got = z.got
  BY <1>2, <1>11, WorkSlot
<1>13. Cardinality(FreeClusters(r.v)) = Cardinality(FreeClusters(w.v)) - 1
  <2> DEFINE F == FreeClusters(w.v)
  <2>1. IsFiniteSet(F) /\ c \in F
    BY <1>3, FiniteFact
  <2>2. FreeClusters(r.v) = F \ {c}
    BY <1>4, <1>5, <1>9, <1>10, <1>11, <1>12
  <2> HIDE DEF F
  <2>3. Cardinality(F \ {c}) = Cardinality(F) - 1
    BY <2>1, FS_RemoveElement
  <2> QED BY <2>2, <2>3 DEF F
<1> QED BY <1>1, <1>10, <1>11, <1>12, <1>13

\* The directories made of a row of names: f[i] is the work with i of them made.
Making(w, d, names, f, m) ==
  f = [i \in 0 .. m |-> IF i = 0 THEN [TakeSlot(w, d) EXCEPT !.got = <<>>]
                        ELSE CreateInside(f[i - 1], d, names[i])]

\* The row is defined at every length.
LEMMA MakingExists ==
  ASSUME NEW w, NEW d, NEW names
  PROVE  \A m \in Nat : \E f : Making(w, d, names, f, m)
<1> DEFINE T     == {m \in Nat : ~\E f : Making(w, d, names, f, m)}
           begun == [TakeSlot(w, d) EXCEPT !.got = <<>>]
<1>1. SUFFICES ASSUME T # {} PROVE FALSE
  OBVIOUS
<1>2. PICK m \in T : \A n \in T : m <= n
  BY <1>1, LeastNat
<1>3. m \in Nat /\ ~\E f : Making(w, d, names, f, m)
  BY <1>2
<1> HIDE DEF begun
<1>4. CASE m = 0
  <2>1. Making(w, d, names, [n \in 0 .. 0 |-> begun], 0)
    BY DEF Making, begun
  <2> QED BY <2>1, <1>3, <1>4
<1>5. CASE m # 0
  <2>1. m - 1 \in Nat /\ m - 1 \notin T
    BY <1>2, <1>3, <1>5
  <2>2. PICK f : Making(w, d, names, f, m - 1)
    BY <2>1
  <2> HIDE DEF T
  <2> DEFINE g == [n \in 0 .. m |-> IF n < m THEN f[n] ELSE CreateInside(f[m - 1], d, names[m])]
  <2>3. \A n \in 0 .. m - 1 : f[n] = IF n = 0 THEN begun ELSE CreateInside(f[n - 1], d, names[n])
    BY <2>2, Zenon DEF Making, begun
  <2>4. \A n \in 0 .. m : g[n] = IF n = 0 THEN begun ELSE CreateInside(g[n - 1], d, names[n])
    <3> TAKE n \in 0 .. m
    <3>1. CASE n = m
      <4>1. g[n] = CreateInside(f[n - 1], d, names[n])
        BY <3>1, <1>3
      <4>2. n # 0 /\ g[n - 1] = f[n - 1]
        BY <3>1, <1>3, <1>5
      <4> QED BY <4>1, <4>2
    <3>2. CASE n # m
      <4>1. n \in 0 .. m - 1 /\ g[n] = f[n]
        BY <3>2, <1>3
      <4>2. n # 0 => g[n - 1] = f[n - 1]
        BY <4>1, <1>3
      <4> QED BY <4>1, <4>2, <2>3
    <3> QED BY <3>1, <3>2
  <2>5. g = [n \in 0 .. m |-> IF n = 0 THEN begun ELSE CreateInside(g[n - 1], d, names[n])]
    BY <2>4, Zenon
  <2>6. Making(w, d, names, g, m)
    BY <2>5, Zenon DEF Making, begun
  <2> QED BY <2>6, <1>3
<1> QED BY <1>3, <1>4, <1>5

\* A row of directories takes a cluster each.
LEMMA MakingFact ==
  ASSUME NEW w, NEW d \in Int, NEW names, NEW N \in Nat, NEW f, Making(w, d, names, f, N),
         NEW b, b = TakeSlot(w, d), WorkOK(b), b.ok = TRUE, CanClaim(b.v, N)
  PROVE  WorkOK(f[N]) /\ f[N].ok = TRUE
<1> DEFINE Good(i) ==
             /\ WorkOK(f[i]) /\ f[i].ok = TRUE
             /\ f[i].got = <<>> \/ (f[i].got \in Seq(Clusters) /\ Len(f[i].got) = 1)
             /\ CanClaim(f[i].v, N - i)
           T == {i \in Nat : i \in 0 .. N /\ ~Good(i)}
<1>1. \A i \in 0 .. N : f[i] = IF i = 0 THEN [b EXCEPT !.got = <<>>]
                               ELSE CreateInside(f[i - 1], d, names[i])
  BY Zenon DEF Making
<1>2. Good(0)
  <2>1. f[0] = [b EXCEPT !.got = <<>>]
    BY <1>1
  <2> DEFINE z == f[0]
  <2>2. z = [b EXCEPT !.got = <<>>]
    BY <2>1
  <2> HIDE DEF z
  <2>3. WorkOK(z) /\ z.v = b.v /\ z.ok = b.ok /\ z.got = <<>>
    <3> DEFINE g == <<>>
    <3>1. z = [b EXCEPT !.got = g]
      BY <2>2
    <3> HIDE DEF g, Good, T
    <3>2. WorkOK(z) /\ z.v = b.v /\ z.ok = b.ok /\ z.got = g
      BY <3>1, WorkGot
    <3> QED BY <3>2 DEF g
  <2>4. N - 0 = N
    OBVIOUS
  <2> QED BY <2>3, <2>4 DEF z
<1>3. ASSUME NEW i \in 1 .. N, Good(i - 1) PROVE Good(i)
  <2> DEFINE x    == f[i - 1]
             z    == f[i]
             into == IF x.got = <<>> THEN d ELSE x.got[1]
             more == N - i
  <2>1. z = CreateInside(x, d, names[i])
    BY <1>1
  <2>2. /\ WorkOK(x) /\ x.ok = TRUE
        /\ x.got = <<>> \/ (x.got \in Seq(Clusters) /\ Len(x.got) = 1)
        /\ CanClaim(x.v, N - (i - 1))
    BY <1>3
  <2>3. more \in Nat /\ N - (i - 1) = more + 1
    OBVIOUS
  <2> HIDE DEF Good, x, z, more
  <2>4. into \in Int
    <3>1. x.got # <<>> => x.got[1] \in Clusters
      BY <2>2
    <3> QED BY <3>1 DEF Clusters
  <2>5. CanClaim(x.v, more + 1)
    BY <2>2, <2>3
  <2>6. CanClaim(x.v, 1)
    BY <2>3, <2>5, FiniteFact DEF CanClaim
  <2>7. z = CreateDirectory(x, into, names[i])
    BY <2>1, <2>2, Zenon DEF CreateInside, Then
  <2> HIDE DEF into
  <2>8. /\ WorkOK(z) /\ z.ok = TRUE
        /\ z.got \in Seq(Clusters) /\ Len(z.got) = 1
        /\ Cardinality(FreeClusters(z.v)) = Cardinality(FreeClusters(x.v)) - 1
    BY <2>2, <2>4, <2>6, <2>7, CreateFact
  <2>9. CanClaim(z.v, more)
    BY <2>3, <2>5, <2>8, FiniteFact DEF CanClaim
  <2> QED BY <2>8, <2>9 DEF Good, z, more
<1>4. T = {}
  <2> HIDE DEF Good
  <2>1. SUFFICES ASSUME T # {} PROVE FALSE
    OBVIOUS
  <2>2. PICK i \in T : \A n \in T : i <= n
    BY <2>1, LeastNat
  <2>3. i \in 0 .. N /\ ~Good(i) /\ i # 0
    BY <1>2, <2>2
  <2>4. i \in 1 .. N /\ i - 1 \in Nat /\ i - 1 \in 0 .. N /\ i - 1 \notin T
    BY <2>2, <2>3
  <2>5. Good(i - 1)
    BY <2>4
  <2> QED BY <1>3, <2>3, <2>4, <2>5
<1>5. Good(N)
  <2> HIDE DEF Good
  <2> QED BY <1>4
<1> QED BY <1>5

\* The missing directories of a path are made once each has its cluster.
LEMMA AllFact ==
  ASSUME NEW w, NEW d \in Int, NEW names, Len(names) \in Nat,
         NEW b, b = TakeSlot(w, d), WorkOK(b), b.ok = TRUE, CanClaim(b.v, Len(names)),
         NEW r, r = CreateAll(w, d, names)
  PROVE  WorkOK(r) /\ r.ok = TRUE
<1> DEFINE N == Len(names)
           f == CHOOSE g : g = [i \in 0 .. Len(names) |->
                                  IF i = 0 THEN [TakeSlot(w, d) EXCEPT !.got = <<>>]
                                  ELSE CreateInside(g[i - 1], d, names[i])]
<1>1. r = f[N]
  BY Zenon DEF CreateAll
<1>2. \E g : g = [i \in 0 .. Len(names) |->
                    IF i = 0 THEN [TakeSlot(w, d) EXCEPT !.got = <<>>]
                    ELSE CreateInside(g[i - 1], d, names[i])]
  <2>1. \E g : Making(w, d, names, g, Len(names))
    BY MakingExists
  <2> QED BY <2>1, Zenon DEF Making
<1>3. Making(w, d, names, f, Len(names))
  BY <1>2, Zenon DEF Making
<1> HIDE DEF f
<1>4. WorkOK(f[N]) /\ f[N].ok = TRUE
  BY <1>3, MakingFact
<1> QED BY <1>1, <1>4

\* make_directory below what there is: every cluster was counted beforehand.
LEMMA MakeSafe ==
  ASSUME NEW v, VolumeOK(v), NEW d, NEW name, NEW names \in Seq(STRING),
         NEW k, k = LookIn(v, d, name)
  PROVE  Safe(v, MakeBelow(v, names, k))
<1>0. PICK slot, dir : slot = k.slot /\ dir = k.parent
  OBVIOUS
<1> DEFINE N     == Len(names)
           w     == Work(v, slot)
           b     == TakeSlot(Work(v, slot), dir)
           r     == MakeBelow(v, names, k)
           gives == \/ ~k.can \/ k.loc # NoLoc
                    \/ Seqs(names) \cap Unstorable # {}
                    \/ slot = NoLoc /\ dir = 0
                    \/ ~CanClaim(v, N + Growth(slot))
<1>1. CASE gives
  <2>1. r = Refusal(v)
    BY <1>0, <1>1, Zenon DEF MakeBelow
  <2> QED BY <2>1, RefusalSafe
<1>2. CASE ~gives
  <2>1. r = CreateAll(w, dir, names)
    BY <1>0, <1>2, Zenon DEF MakeBelow
  <2>2. k.can /\ (slot = NoLoc => dir # 0) /\ CanClaim(v, N + Growth(slot))
    BY <1>2
  <2>3. (dir # 0 => ChainOK(v, dir) /\ dir # End) /\ dir \in Int
    BY <1>0, <2>2, PlaceFact
  <2>4. slot = NoLoc => ChainOK(v, dir) /\ dir # End
    BY <2>2, <2>3
  <2>5. N \in Nat
    OBVIOUS
  <2> HIDE DEF gives, r, b, N
  <2>6. b = TakeSlot(Work(v, slot), dir)
    BY DEF b
  <2>7. \A want \in Nat : CanClaim(v, want + Growth(slot)) => b.ok = TRUE /\ CanClaim(b.v, want)
    BY <2>4, <2>6, TakeFact
  <2>8. WorkOK(b)
    BY <2>4, <2>6, TakeFact
  <2>9. b.ok = TRUE /\ CanClaim(b.v, N)
    BY <2>2, <2>5, <2>7
  <2> HIDE DEF w
  <2>10. b = TakeSlot(w, dir)
    BY <2>6 DEF w
  <2>11. WorkOK(r) /\ r.ok = TRUE
    BY <2>1, <2>3, <2>5, <2>8, <2>9, <2>10, AllFact DEF N
  <2> QED BY <2>11 DEF Safe, WorkOK, r
<1> QED BY <1>1, <1>2

\* make_directory: below the last directory of the path there is.
LEMMA MakeDirectorySafe ==
  ASSUME NEW v, VolumeOK(v), NEW p \in Seq(STRING)
  PROVE  Safe(v, MakeDirectory(v, p))
<1> DEFINE N    == Len(p)
           ds   == [n \in 0 .. Len(p) |-> Directory(v, p, n)]
           F    == {n \in 0 .. N : ds[n] # -1}
           is(n) == ds[n] # -1 /\ \A m \in n + 1 .. Len(p) : ds[m] = -1
           have == CHOOSE n \in DOMAIN ds : is(n)
           k    == LookIn(v, ds[have], p[have + 1])
           names == SubSeq(p, have + 1, Len(p))
           r    == MakeDirectory(v, p)
<1>1. r = IF have = Len(p) THEN Work(v, NoLoc) ELSE MakeBelow(v, names, k)
  BY Zenon DEF MakeDirectory, MakeAlong
<1>2. Directory(v, p, 0) = 0
  <2> DEFINE g == CHOOSE g : g = [i \in 0 .. 0 |-> IF i = 0 THEN 0 ELSE Below(v, g[i - 1], p[i])]
  <2>1. \E h : h = [i \in 0 .. 0 |-> IF i = 0 THEN 0 ELSE Below(v, h[i - 1], p[i])]
    <3>1. [i \in 0 .. 0 |-> 0] = [i \in 0 .. 0 |-> IF i = 0 THEN 0
                                   ELSE Below(v, [j \in 0 .. 0 |-> 0][i - 1], p[i])]
      OBVIOUS
    <3> QED BY <3>1
  <2>2. g = [i \in 0 .. 0 |-> IF i = 0 THEN 0 ELSE Below(v, g[i - 1], p[i])]
    BY <2>1, Zenon
  <2>3. Directory(v, p, 0) = g[0]
    BY Zenon DEF Directory
  <2> HIDE DEF g
  <2> QED BY <2>2, <2>3
<1>3. N \in Nat /\ DOMAIN ds = 0 .. N /\ ds[0] = 0
  BY <1>2
<1> HIDE DEF ds
<1>4. PICK n \in F : \A m \in F : m <= n
  <2>1. 0 \in F /\ F \in SUBSET Nat /\ \A m \in F : m <= N
    BY <1>3
  <2> HIDE DEF F, N
  <2> QED BY <1>3, <2>1, LargestFact
<1>5. n \in DOMAIN ds /\ is(n)
  <2>1. n \in 0 .. N /\ ds[n] # -1
    BY <1>4
  <2>2. ASSUME NEW m \in n + 1 .. Len(p), ds[m] # -1 PROVE FALSE
    <3>1. m \in F
      BY <1>3, <2>1, <2>2
    <3> QED BY <1>3, <1>4, <2>1, <3>1
  <2> QED BY <1>3, <2>1, <2>2
<1>6. have \in 0 .. N
  <2> HIDE DEF is
  <2>1. have \in DOMAIN ds
    BY <1>5
  <2> QED BY <1>3, <2>1
<1> HIDE DEF have, r
<1>7. CASE have = Len(p)
  <2>1. r = Work(v, NoLoc)
    BY <1>1, <1>7
  <2>2. WorkOK(r) /\ r.v = v /\ r.ok = TRUE
    BY <2>1, WorkFact
  <2> QED BY <2>2 DEF Safe, WorkOK, r
<1>8. CASE have # Len(p)
  <2>1. names \in Seq(STRING)
    BY <1>3, <1>6
  <2> DEFINE e == ds[have]
             q == p[have + 1]
  <2>2. r = MakeBelow(v, names, k) /\ k = LookIn(v, e, q)
    BY <1>1, <1>8
  <2> HIDE DEF names, k, e, q
  <2>3. Safe(v, MakeBelow(v, names, k))
    BY <2>1, <2>2, MakeSafe
  <2> QED BY <2>2, <2>3 DEF r
<1> QED BY <1>7, <1>8

\* set_label and remove_label write one record, or nothing.
LEMMA LabelSafe ==
  ASSUME NEW v, VolumeOK(v), NEW l
  PROVE  Safe(v, SetLabel(v, l)) /\ Safe(v, RemoveLabel(v))
<1>1. ASSUME NEW slot, NEW cell, cell.first = 0
      PROVE  Safe(v, WriteRecord(Work(v, slot), cell))
  <2> DEFINE w == Work(v, slot)
             r == WriteRecord(w, cell)
  <2>1. WorkOK(w) /\ w.ok = TRUE
    BY WorkFact
  <2> HIDE DEF w
  <2>2. cell.first \in Int
    BY <1>1
  <2>3. WorkOK(r) /\ r.ok = w.ok
    BY <2>1, <2>2, WrittenFact
  <2> QED BY <2>1, <2>3 DEF Safe, WorkOK, w
<1>2. LabelOf(l).first = 0 /\ Deleted.first = 0
  BY DEF LabelOf, Deleted, Cell
<1>3. ASSUME NEW slot PROVE Safe(v, Relabel(v, l, slot))
  <2>1. \/ Relabel(v, l, slot) = Refusal(v)
        \/ Relabel(v, l, slot) = WriteRecord(Work(v, slot), LabelOf(l))
    BY Zenon DEF Relabel
  <2> QED BY <1>1, <1>2, <2>1, RefusalSafe
<1>4. Safe(v, Work(v, NoLoc))
  BY WorkFact DEF Safe, WorkOK
<1>5. \/ RemoveLabel(v) = Work(v, NoLoc)
      \/ RemoveLabel(v) = WriteRecord(Work(v, LabelRecord(v)), Deleted)
  BY Zenon DEF RemoveLabel
<1> QED BY <1>1, <1>2, <1>3, <1>4, <1>5 DEF SetLabel

\* A call that is safe keeps the invariant, and refused changes nothing.
LEMMA CalledFact ==
  ASSUME NEW verb, NEW p, NEW at, NEW b, NEW w, Safe(vol, w), Called(verb, p, at, b, w)
  PROVE  FatIInv' /\ (call'.accepted \/ vol' = vol)
BY DEF Called, Asked, Safe, FatIInv

\* Every verb is safe.
LEMMA FatStep ==
  ASSUME FatIInv, FatNext
  PROVE  FatIInv' /\ (call'.accepted \/ vol' = vol)
<1>1. VolumeOK(vol)
  BY DEF FatIInv
<1>2. CASE CallWrite
  <2>1. PICK p \in Paths, b \in Payloads : Called("write", p, 0, b, WriteFile(vol, p, b))
    BY <1>2 DEF CallWrite
  <2>2. Safe(vol, WriteFile(vol, p, b))
    BY <1>1, WriteSafe DEF WriteFile, Locate
  <2> QED BY <2>1, <2>2, CalledFact
<1>3. CASE CallWriteAt
  <2>1. PICK p \in Paths, at \in Sizes, b \in Payloads \ {<<>>} :
          Called("writeAt", p, at, b, WriteFileAt(vol, p, at, b))
    BY <1>3 DEF CallWriteAt
  <2>2. Safe(vol, WriteFileAt(vol, p, at, b))
    BY <1>1, WriteAtSafe DEF WriteFileAt
  <2> QED BY <2>1, <2>2, CalledFact
<1>4. CASE CallResize
  <2>1. PICK p \in Paths, n \in Sizes : Called("resize", p, n, <<>>, ResizeFile(vol, p, n))
    BY <1>4 DEF CallResize
  <2>2. n \in Nat
    BY FatAssumption
  <2>3. Safe(vol, ResizeFile(vol, p, n))
    BY <1>1, <2>2, ResizeSafe DEF ResizeFile, Locate
  <2> QED BY <2>1, <2>3, CalledFact
<1>5. CASE CallMakeDirectory
  <2>1. PICK p \in Paths : Called("mkdir", p, 0, <<>>, MakeDirectory(vol, p))
    BY <1>5 DEF CallMakeDirectory
  <2>2. p \in Seq(STRING)
    BY FatAssumption
  <2>3. Safe(vol, MakeDirectory(vol, p))
    BY <1>1, <2>2, MakeDirectorySafe
  <2> QED BY <2>1, <2>3, CalledFact
<1>6. CASE CallSetLabel
  <2>1. PICK l \in Labels : Called("label", l, 0, <<>>, SetLabel(vol, l))
    BY <1>6 DEF CallSetLabel
  <2>2. Safe(vol, SetLabel(vol, l))
    BY <1>1, LabelSafe
  <2> QED BY <2>1, <2>2, CalledFact
<1>7. CASE CallRemoveLabel
  <2>1. Safe(vol, RemoveLabel(vol))
    BY <1>1, LabelSafe
  <2> QED BY <1>7, <2>1, CalledFact DEF CallRemoveLabel
<1>8. CASE CallReadAt
  <2>1. PICK p \in Paths, at \in Sizes, n \in Sizes : ReadAt(p, at, n, Locate(vol, p))
    BY <1>8 DEF CallReadAt
  <2>2. PICK b, w : Called("readAt", p, at, b, w) /\ (w = Work(vol, NoLoc) \/ w = Refusal(vol))
    BY <2>1, Zenon DEF ReadAt
  <2>3. Safe(vol, Work(vol, NoLoc)) /\ Safe(vol, Refusal(vol))
    BY <1>1, WorkFact, RefusalSafe DEF Safe, WorkOK
  <2>4. Safe(vol, w)
    BY <2>2, <2>3
  <2> QED BY <2>2, <2>4, CalledFact
<1> QED BY <1>2, <1>3, <1>4, <1>5, <1>6, <1>7, <1>8 DEF FatNext

\* The invariant holds of every volume the verbs reach.
LEMMA FatInvariant == FatSpec => []FatIInv
<1>1. FatInit => FatIInv
  BY FatAssumption DEF FatInit, FatIInv
<1>2. FatIInv /\ [FatNext]_vars => FatIInv'
  <2>1. ASSUME FatIInv, UNCHANGED vars PROVE FatIInv'
    BY <2>1 DEF vars, FatIInv
  <2> QED BY <2>1, FatStep
<1> QED BY <1>1, <1>2, PTL DEF FatSpec

\* A call a FAT volume refuses has changed no byte of it: what a later step of
\* a verb could refuse - the clusters, the record slot and its growth - was
\* counted before the first write, on any volume, corrupt ones included
\* (write_file, resize_file, make_directory, grow_directory).
THEOREM RefusalTheorem == FatSpec => RefusalChangesNothing
<1>1. FatIInv /\ [FatNext]_vars => [call'.accepted \/ vol' = vol]_vars
  BY FatStep
<1> QED BY <1>1, FatInvariant, PTL DEF FatSpec, RefusalChangesNothing

\* However far the program has gone and whatever it was refused, the copies of a
\* volume's table that started in step are in step: every entry a verb sets, it
\* sets in each of them (set_fat_entry).
THEOREM CopiesTheorem == ASSUME InStep PROVE FatSpec => []CopiesAgree
<1>1. FatIInv => CopiesAgree
  BY DEF FatIInv, VolumeOK, CopiesAgree
<1> QED BY <1>1, FatInvariant, PTL
=============================================================================
