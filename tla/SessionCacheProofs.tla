-------------------------- MODULE SessionCacheProofs --------------------------
(***************************************************************************)
(* Proofs about the session cache, for every disk, extent size, bound and  *)
(* number of offloads in flight.                                           *)
(***************************************************************************)
EXTENDS SessionCache, SequenceTheorems, FiniteSetTheorems, WellFoundedInduction, TLAPS

-----------------------------------------------------------------------------
(* Helpers *)

\* Every block lies in an extent of the disk.
LEMMA ExtentOfType ==
  ASSUME NEW b \in Blocks
  PROVE  ExtentOf(b) \in Extents
<1> DEFINE q == b \div ExtentBlocks
<1>1. /\ b \in Nat /\ q \in Nat /\ q * ExtentBlocks <= b
      /\ b < NExtents * ExtentBlocks
  BY SizesAssumption DEF Blocks
<1>2. q < NExtents
  <2>1. SUFFICES ASSUME NExtents <= q PROVE FALSE
    BY <1>1, SizesAssumption
  <2>2. NExtents * ExtentBlocks <= q * ExtentBlocks
    BY <2>1, <1>1, SizesAssumption
  <2>3. QED BY <2>2, <1>1, SizesAssumption
<1>3. QED BY <1>1, <1>2, SizesAssumption DEF ExtentOf, Extents

LEMMA FirstPlaces == 0 \in Blocks /\ 0 \in Extents
<1>1. NExtents * ExtentBlocks >= 1 BY SizesAssumption
<1>2. QED BY <1>1, SizesAssumption DEF Blocks, Extents

LEMMA NextExtent ==
  ASSUME NEW a \in Extents, NEW b \in Extents, a < b
  PROVE  a + 1 \in Extents
BY SizesAssumption DEF Extents

LEMMA NoOpType == NoOp \in [kind : {"none", "read", "write"}, from : Blocks, to : Blocks, val : Vals]
BY ValsAssumption, FirstPlaces DEF NoOp

\* A set of naturals has a least element.
LEMMA LeastNat ==
  ASSUME NEW T \in SUBSET Nat, T # {}
  PROVE  \E m \in T : \A n \in T : m <= n
<1> DEFINE Less == {ss \in Nat \X Nat : ss[1] < ss[2]}
<1>1. IsWellFoundedOn(Less, Nat) BY NatLessThanWellFounded, Zenon DEF OpToRel
<1> HIDE DEF Less
<1>2. PICK m \in T : \A n \in T : ~(<<n, m>> \in Less)
  BY <1>1, WFMin, Zenon
<1>3. \A n \in T : ~(n < m)
  <2>1. SUFFICES ASSUME NEW n \in T, n < m PROVE FALSE OBVIOUS
  <2>2. <<n, m>> \in Less BY <2>1 DEF Less
  <2>3. QED BY <1>2, <2>2
<1>4. m \in Nat /\ \A n \in T : n \in Nat OBVIOUS
<1>5. QED BY <1>3, <1>4

\* The least recently used of some resident extents is one of them.
LEMMA OldestIn ==
  ASSUME cache \in [Extents -> Entry \cup {Absent}], NEW S \in SUBSET Resident, S # {}
  PROVE  Oldest(S) \in S
<1> DEFINE T == {cache[e].used : e \in S}
<1>1. \A e \in S : cache[e] \in Entry BY DEF Resident
<1>2. T \in SUBSET Nat /\ T # {} BY <1>1 DEF Entry
<1>3. PICK m \in T : \A n \in T : m <= n BY <1>2, LeastNat
<1>4. PICK e \in S : cache[e].used = m OBVIOUS
<1>5. \A d \in S : cache[e].used <= cache[d].used BY <1>3, <1>4
<1>6. QED BY <1>5 DEF Oldest

LEMMA HeadTail ==
  ASSUME NEW S, NEW s \in Seq(S), s # <<>>
  PROVE  /\ Len(s) \in Nat \ {0} /\ Head(s) \in S /\ Head(s) = s[1]
         /\ Tail(s) \in Seq(S) /\ Len(Tail(s)) = Len(s) - 1
         /\ \A i \in 1 .. Len(Tail(s)) : Tail(s)[i] = s[i + 1]
BY HeadTailProperties, EmptySeq, LenProperties

LEMMA Appended ==
  ASSUME NEW S, NEW s \in Seq(S), NEW x \in S
  PROVE  /\ Append(s, x) \in Seq(S) /\ Len(Append(s, x)) = Len(s) + 1
         /\ \A i \in 1 .. Len(s) : Append(s, x)[i] = s[i]
         /\ Append(s, x)[Len(s) + 1] = x
BY AppendProperties

-----------------------------------------------------------------------------
(* Types *)

LEMMA OverwrittenType ==
  ASSUME NEW c \in Contents, NEW e, NEW o, o.val \in Vals
  PROVE  Overwritten(c, e, o) \in Contents
BY DEF Overwritten, Contents

LEMMA ApplyOffloadType ==
  ASSUME TypeOK, ApplyOffload
  PROVE  /\ cache' \in [Extents -> Entry \cup {Absent}]
         /\ inFlight' \in [Extents -> Nat] /\ prespilled' \in [Extents -> Nat]
         /\ jobs' \in Seq(Job) /\ done' \in Seq(Done)
<1>1. done # <<>> /\ done \in Seq(Done) BY DEF ApplyOffload, TypeOK
<1>2. Head(done) \in Done /\ Tail(done) \in Seq(Done) BY <1>1, HeadTail
<1>3. Head(done).version \in Nat BY <1>2 DEF Done
<1>4. QED BY <1>2, <1>3 DEF ApplyOffload, TypeOK

LEMMA TypeStep ==
  ASSUME TypeOK, ServedOK, [Next]_vars
  PROVE  TypeOK'
<1> USE DEF TypeOK, worker, store, call
<1>1. CASE UNCHANGED vars BY <1>1 DEF vars
<1>2. ASSUME NEW kind \in {"read", "write"}, NEW from \in Blocks, NEW to \in Blocks, NEW v \in Vals,
             Begin(kind, from, to, v)
      PROVE  TypeOK'
  BY <1>2, ExtentOfType DEF Begin
<1>3. CASE BeginCommit \/ BeginRollback BY <1>3 DEF BeginCommit, BeginRollback
<1>4. CASE Drain BY <1>4, ApplyOffloadType DEF Drain
<1>5. CASE EvictClean BY <1>5 DEF EvictClean
<1>6. CASE EvictDirty
  <2>1. Oldest(Dirty \ InFlight) \in Dirty
    <3>1. Dirty \ InFlight # {} /\ Dirty \ InFlight \in SUBSET Resident
      BY <1>6 DEF EvictDirty, Dirty
    <3>2. QED BY <3>1, OldestIn
  <2> DEFINE e == Oldest(Dirty \ InFlight)
  <2>2. e \in Extents /\ cache[e].data \in Contents
    BY <2>1 DEF Dirty, Resident, Entry
  <2>3. cache' = [cache EXCEPT ![e] = Absent] BY <1>6 DEF EvictDirty
  <2>4. /\ UNCHANGED <<clock, enabled, inFlight, jobs, done, base, expected>>
    BY <1>6 DEF EvictDirty
  <2>5. /\ spill' = spill \/ spill' = [spill EXCEPT ![e] = cache[e].data]
             \/ spill' = [spill EXCEPT ![e] = IF @ = NoSlot THEN Blank ELSE @]
        /\ spillOpen' \in BOOLEAN
    BY <1>6 DEF EvictDirty
  <2>6. prespilled' = prespilled \/ prespilled' = [prespilled EXCEPT ![e] = 0]
    BY <1>6 DEF EvictDirty
  <2>7. UNCHANGED call \/ Refuse BY <1>6 DEF EvictDirty
  <2>8. faults' \in Nat BY <1>6 DEF EvictDirty, Works, Fails
  <2>9. spill' \in [Extents -> Contents \cup {NoSlot, Blank}] BY <2>2, <2>5
  <2>10. /\ pc' \in {"idle", "drain", "serve", "touch", "offload", "commit", "rollback"}
         /\ op' \in [kind : {"none", "read", "write"}, from : Blocks, to : Blocks, val : Vals]
         /\ at' \in Extents /\ result' \in {"none", "ok", "err"}
    BY <2>7, NoOpType, FirstPlaces DEF Refuse
  <2>11. cache' \in [Extents -> Entry \cup {Absent}] BY <2>3
  <2>12. prespilled' \in [Extents -> Nat]
    <3>1. [prespilled EXCEPT ![e] = 0] \in [Extents -> Nat] OBVIOUS
    <3>2. QED BY <2>6, <3>1
  <2>13. QED BY <2>4, <2>5, <2>8, <2>9, <2>10, <2>11, <2>12
<1>7. CASE EvictJoin BY <1>7, ApplyOffloadType DEF EvictJoin
<1>8. CASE Load
  <2>1. CASE Refuse /\ UNCHANGED <<clock, cache>>
    BY <1>8, <2>1, NoOpType, FirstPlaces DEF Load, Refuse, Fails, Works
  <2>2. CASE ~(Refuse /\ UNCHANGED <<clock, cache>>)
    <3>1. PICK c \in Contents :
            cache' = [cache EXCEPT ![at] =
              [data |-> c, dirty |-> at \in Slots, used |-> clock', version |-> clock']]
      BY <1>8, <2>2 DEF Load
    <3>2. clock' = clock + 1 /\ pc' = "touch"
      BY <1>8, <2>2 DEF Load
    <3>3. [data |-> c, dirty |-> at \in Slots, used |-> clock', version |-> clock'] \in Entry
      BY <3>2 DEF Entry
    <3>4. cache' \in [Extents -> Entry \cup {Absent}] BY <3>1, <3>3
    <3>5. /\ UNCHANGED <<op, at, result>> /\ faults' \in Nat
          /\ UNCHANGED <<spill, spillOpen, enabled, worker, base, expected>>
      BY <1>8, <2>2 DEF Load, Works
    <3>6. QED BY <3>2, <3>4, <3>5
  <2>3. QED BY <2>1, <2>2
<1>9. CASE Hit BY <1>9 DEF Hit
<1>10. CASE Touch /\ at \in Resident
  <2>1. cache[at] \in Entry BY <1>10 DEF Resident
  <2>2. Overwritten(cache[at].data, at, op) \in Contents /\ Overwritten(expected[at], at, op) \in Contents
    BY <2>1, OverwrittenType DEF Entry
  <2>3. cache' \in [Extents -> Entry \cup {Absent}]
    <3>1. CASE op.kind = "write"
      <4>1. [data |-> Overwritten(cache[at].data, at, op), dirty |-> TRUE,
             used |-> clock', version |-> clock'] \in Entry
        BY <2>2, <1>10 DEF Touch, Entry
      <4>2. QED BY <3>1, <4>1, <1>10 DEF Touch
    <3>2. CASE op.kind # "write"
      <4>1. [cache[at] EXCEPT !.used = clock'] \in Entry
        <5>1. clock' \in Nat BY <1>10 DEF Touch
        <5>2. QED BY <2>1, <5>1 DEF Entry
      <4>2. cache' = [cache EXCEPT ![at] = [cache[at] EXCEPT !.used = clock']]
        BY <3>2, <1>10 DEF Touch
      <4>3. QED BY <4>1, <4>2
    <3>3. QED BY <3>1, <3>2
  <2>4. expected' \in [Extents -> Contents] BY <2>2, <1>10 DEF Touch
  <2>5. /\ pc' \in {"idle", "drain", "serve", "touch", "offload", "commit", "rollback"}
        /\ op' \in [kind : {"none", "read", "write"}, from : Blocks, to : Blocks, val : Vals]
        /\ result' \in {"none", "ok", "err"}
    BY <1>10, NoOpType DEF Touch
  <2>6. at' \in Extents
    <3>1. ExtentOf(op.to) \in Extents BY ExtentOfType
    <3>2. at' = at \/ at' = 0 \/ (at' = at + 1 /\ at < ExtentOf(op.to))
      BY <1>10 DEF Touch
    <3>3. at \in Extents OBVIOUS
    <3>4. QED BY <3>1, <3>2, <3>3, FirstPlaces, NextExtent
  <2>7. clock' \in Nat BY <1>10 DEF Touch
  <2>8. UNCHANGED <<spill, spillOpen, enabled, worker, base, faults>> BY <1>10 DEF Touch
  <2>9. QED BY <2>3, <2>4, <2>5, <2>6, <2>7, <2>8
<1>11. CASE Offload
  <2>1. Oldest(Candidates) \in Dirty
    <3>1. Candidates # {} /\ Candidates \in SUBSET Dirty /\ Dirty \in SUBSET Resident
      BY <1>11 DEF Offload, MayOffload, Candidates, Dirty
    <3>2. QED BY <3>1, OldestIn
  <2> DEFINE e == Oldest(Candidates)
  <2>2. /\ e \in Extents /\ cache[e].data \in Contents /\ cache[e].version \in Nat
    BY <2>1 DEF Dirty, Resident, Entry
  <2>3. [ext |-> e, version |-> cache[e].version, data |-> cache[e].data] \in Job
    BY <2>2 DEF Job
  <2>4. jobs' \in Seq(Job)
    <3>1. jobs' = jobs \/ \E x \in Job : jobs' = Append(jobs, x)
      BY <1>11, <2>3 DEF Offload
    <3>2. ASSUME NEW x \in Job PROVE Append(jobs, x) \in Seq(Job)
      BY Appended DEF TypeOK
    <3>3. QED BY <3>1, <3>2
  <2>5. inFlight' \in [Extents -> Nat] BY <1>11, <2>2 DEF Offload
  <2>6. spill' \in [Extents -> Contents \cup {NoSlot, Blank}] BY <1>11 DEF Offload
  <2>7. spillOpen' \in BOOLEAN /\ enabled' \in BOOLEAN /\ faults' \in Nat
    <3>1. spillOpen' \in {TRUE, spillOpen} /\ enabled' \in {FALSE, enabled}
      BY <1>11 DEF Offload
    <3>2. faults' = faults \/ faults' = faults + 1 BY <1>11 DEF Offload, Works, Fails
    <3>3. spillOpen' \in BOOLEAN /\ enabled' \in BOOLEAN BY <3>1, Zenon
    <3>4. QED BY <3>2, <3>3
  <2>8. UNCHANGED <<cache, clock, prespilled, done, base, call, expected>>
    BY <1>11 DEF Offload
  <2>9. QED BY <2>4, <2>5, <2>6, <2>7, <2>8
<1>12. CASE OffloadDone BY <1>12, NoOpType, FirstPlaces DEF OffloadDone
<1>13. CASE JoinOffloads BY <1>13, ApplyOffloadType DEF JoinOffloads
<1>14. CASE Commit
  <2>1. CASE result' = "err" BY <1>14, <2>1 DEF Commit, Works, Fails
  <2>2. CASE result' # "err"
    <3>1. /\ \A e \in Extents : Altered(e) # Blank
          /\ base' = [e \in Extents |-> Altered(e)]
          /\ cache' = [e \in Extents |->
               IF e \in Resident THEN [cache[e] EXCEPT !.dirty = FALSE] ELSE Absent]
          /\ ReleaseSpill /\ Works /\ pc' = "idle" /\ result' = "ok"
      BY <1>14, <2>2 DEF Commit
    <3>2. \A e \in Extents : Altered(e) \in Contents
      BY <3>1 DEF Altered, Dirty, Resident, Slots, Entry
    <3>3. \A e \in Resident : [cache[e] EXCEPT !.dirty = FALSE] \in Entry
      BY DEF Resident, Entry
    <3>4. cache' \in [Extents -> Entry \cup {Absent}] BY <3>1, <3>3
    <3>5. base' \in [Extents -> Contents] BY <3>1, <3>2
    <3>6. /\ spill' \in [Extents -> Contents \cup {NoSlot, Blank}] /\ spillOpen' \in BOOLEAN
          /\ prespilled' \in [Extents -> Nat]
      BY <3>1 DEF ReleaseSpill
    <3>7. QED BY <1>14, <3>1, <3>4, <3>5, <3>6 DEF Commit, Works
  <2>3. QED BY <2>1, <2>2
<1>15. CASE Rollback
  <2>1. cache' \in [Extents -> Entry \cup {Absent}]
    BY <1>15 DEF Rollback, Clean, Resident
  <2>2. /\ spill' \in [Extents -> Contents \cup {NoSlot, Blank}] /\ spillOpen' \in BOOLEAN
        /\ prespilled' \in [Extents -> Nat]
    BY <1>15 DEF Rollback, ReleaseSpill
  <2>3. QED BY <1>15, <2>1, <2>2 DEF Rollback
<1>16. CASE Worker
  <2>1. jobs # <<>> /\ Head(jobs) \in Job /\ Tail(jobs) \in Seq(Job)
    BY <1>16, HeadTail DEF Worker
  <2> DEFINE j == Head(jobs)
  <2>2. j.ext \in Extents /\ j.version \in Nat /\ j.data \in Contents BY <2>1 DEF Job
  <2>3. \A k \in BOOLEAN : [ext |-> j.ext, version |-> j.version, ok |-> k] \in Done
    BY <2>2 DEF Done
  <2>4. done' \in Seq(Done)
    <3>1. PICK k \in BOOLEAN : done' = Append(done, [ext |-> j.ext, version |-> j.version, ok |-> k])
      BY <1>16 DEF Worker
    <3>2. QED BY <2>3, <3>1, Appended
  <2>5. spill' \in [Extents -> Contents \cup {NoSlot, Blank}] BY <1>16, <2>2 DEF Worker
  <2>6. faults' \in Nat BY <1>16 DEF Worker, Works, Fails
  <2>7. /\ jobs' \in Seq(Job)
        /\ UNCHANGED <<cache, clock, spillOpen, enabled, inFlight, prespilled, base, call, expected>>
    BY <1>16, <2>1 DEF Worker
  <2>8. QED BY <2>4, <2>5, <2>6, <2>7
<1>17. CASE Calls
  <2>1. NoOp.val \in Vals BY NoOpType
  <2>2. QED BY <1>2, <1>3, <1>17, <2>1 DEF Calls
<1>18. QED
  BY <1>1, <1>17, <1>4, <1>5, <1>6, <1>7, <1>8, <1>9, <1>10, <1>11, <1>12, <1>13,
     <1>14, <1>15, <1>16 DEF Next, Session, ServedOK, Touch

-----------------------------------------------------------------------------
(* The invariant: what keeps each of its parts *)

\* The channels hold while no extent handed out leaves memory, loses what the
\* worker answered, or changes under the version it was handed out with.
LEMMA ChannelsFrame ==
  ASSUME TypeOK, ChannelsOK, UNCHANGED <<inFlight, jobs, done>>,
         clock' \in Nat, clock <= clock',
         \A e \in Dirty : inFlight[e] \in 1 .. clock =>
           /\ e \in Dirty' /\ spill'[e] = spill[e]
           /\ cache'[e].version = inFlight[e] =>
                cache'[e].version = cache[e].version /\ cache'[e].data = cache[e].data
  PROVE  ChannelsOK'
<1>1. ASSUME NEW i \in 1 .. Len(jobs)
      PROVE  /\ jobs[i].ext \in Dirty'
             /\ inFlight[jobs[i].ext] = jobs[i].version /\ jobs[i].version \in 1 .. clock'
             /\ cache'[jobs[i].ext].version = jobs[i].version =>
                  cache'[jobs[i].ext].data = jobs[i].data
  <2>1. /\ jobs[i].ext \in Dirty /\ jobs[i].version \in 1 .. clock
        /\ inFlight[jobs[i].ext] = jobs[i].version
        /\ cache[jobs[i].ext].version = jobs[i].version => cache[jobs[i].ext].data = jobs[i].data
    BY <1>1 DEF ChannelsOK
  <2>2. jobs[i].version \in 1 .. clock' BY <2>1 DEF TypeOK
  <2>3. QED BY <2>1, <2>2
<1>2. ASSUME NEW i \in 1 .. Len(done)
      PROVE  /\ done[i].ext \in Dirty'
             /\ inFlight[done[i].ext] = done[i].version /\ done[i].version \in 1 .. clock'
             /\ done[i].ok /\ cache'[done[i].ext].version = done[i].version =>
                  spill'[done[i].ext] = cache'[done[i].ext].data
  <2>1. /\ done[i].ext \in Dirty /\ done[i].version \in 1 .. clock
        /\ inFlight[done[i].ext] = done[i].version
        /\ done[i].ok /\ cache[done[i].ext].version = done[i].version =>
             spill[done[i].ext] = cache[done[i].ext].data
    BY <1>2 DEF ChannelsOK
  <2>2. done[i].version \in 1 .. clock' BY <2>1 DEF TypeOK
  <2>3. QED BY <2>1, <2>2
<1>3. QED BY <1>1, <1>2 DEF ChannelsOK

\* With nothing in flight the channels are empty.
LEMMA NothingInFlight ==
  ASSUME TypeOK, ChannelsOK, InFlight = {}
  PROVE  jobs = <<>> /\ done = <<>>
<1>1. \A e \in Extents : inFlight[e] = 0 BY DEF InFlight
<1>2. ~(1 \in 1 .. Len(jobs)) /\ ~(1 \in 1 .. Len(done))
  BY <1>1 DEF ChannelsOK, Dirty, Resident
<1>3. QED BY <1>2, EmptySeq, LenProperties DEF TypeOK

\* A call that leaves the store alone keeps what is said of it.
LEMMA StoreStill ==
  ASSUME TypeOK, IInv,
         UNCHANGED <<cache, clock, spill, inFlight, prespilled, jobs, done, base>>
  PROVE  VersionsOK' /\ ChannelsOK' /\ CleanOK'
BY DEF IInv, VersionsOK, ChannelsOK, CleanOK, Resident, Dirty, Clean

LEMMA ApplyOffloadInv ==
  ASSUME TypeOK, IInv, ApplyOffload, UNCHANGED <<clock, spill, base>>
  PROVE  VersionsOK' /\ ChannelsOK' /\ CleanOK'
<1> DEFINE d == done[1]
<1>1. /\ done # <<>> /\ Len(done) \in Nat \ {0} /\ Head(done) = d /\ done' = Tail(done)
      /\ Len(done') = Len(done) - 1 /\ \A i \in 1 .. Len(done') : done'[i] = done[i + 1]
      /\ d \in Done
  BY HeadTail DEF ApplyOffload, TypeOK
<1>2. /\ d.ext \in Dirty /\ d.ext \in Extents /\ inFlight[d.ext] = d.version
      /\ d.version \in 1 .. clock
  BY <1>1 DEF IInv, ChannelsOK, Done
<1>3. /\ inFlight' = [inFlight EXCEPT ![d.ext] = 0] /\ jobs' = jobs
      /\ \/ /\ d.ok /\ cache[d.ext].version = d.version
            /\ prespilled' = [prespilled EXCEPT ![d.ext] = d.version]
            /\ cache' = [cache EXCEPT ![d.ext] = Absent]
         \/ UNCHANGED <<prespilled, cache>>
  BY <1>1 DEF ApplyOffload
<1>4. /\ \A e \in Extents \ {d.ext} : cache'[e] = cache[e] /\ inFlight'[e] = inFlight[e]
                                       /\ prespilled'[e] = prespilled[e]
      /\ cache'[d.ext] \in {Absent, cache[d.ext]}
      /\ prespilled'[d.ext] \in {d.version, prespilled[d.ext]}
      /\ prespilled'[d.ext] # prespilled[d.ext] => cache'[d.ext] = Absent
  BY <1>2, <1>3 DEF TypeOK
<1>5. VersionsOK'
  <2>1. \A e \in Resident' : e \in Resident /\ cache'[e] = cache[e]
    BY <1>2, <1>4 DEF Resident
  <2>2. \A e \in Resident' : prespilled'[e] = prespilled[e]
    BY <1>2, <1>4 DEF Resident
  <2>3. d.version <= clock BY <1>2 DEF TypeOK
  <2>4. \A e \in Extents : prespilled'[e] <= clock
    BY <1>4, <2>3 DEF IInv, VersionsOK
  <2>5. QED BY <2>1, <2>2, <2>4 DEF IInv, VersionsOK
<1>6. \A e \in Dirty \ {d.ext} : e \in Dirty' /\ cache'[e] = cache[e] /\ inFlight'[e] = inFlight[e]
  BY <1>4 DEF Dirty, Resident
<1>7. ChannelsOK'
  <2>1. \A i \in 1 .. Len(jobs) : jobs[i].ext \in Dirty \ {d.ext}
    BY <1>1 DEF IInv, ChannelsOK
  <2>2. \A i \in 1 .. Len(done') : i + 1 \in 1 .. Len(done) /\ done'[i] = done[i + 1]
    BY <1>1
  <2>3. \A i \in 1 .. Len(done') : done'[i].ext \in Dirty \ {d.ext}
    <3>1. SUFFICES ASSUME NEW i \in 1 .. Len(done') PROVE done[i + 1].ext \in Dirty \ {d.ext}
      BY <2>2
    <3>2. i + 1 \in 1 .. Len(done) /\ i + 1 # 1 /\ 1 \in 1 .. Len(done) BY <2>2, <1>1
    <3>3. QED BY <3>2 DEF IInv, ChannelsOK
  <2>4. ASSUME NEW i \in 1 .. Len(jobs)
        PROVE  /\ jobs[i].ext \in Dirty'
               /\ inFlight'[jobs[i].ext] = jobs[i].version /\ jobs[i].version \in 1 .. clock
               /\ cache'[jobs[i].ext].version = jobs[i].version =>
                    cache'[jobs[i].ext].data = jobs[i].data
    BY <1>6, <2>1 DEF IInv, ChannelsOK
  <2>5. ASSUME NEW i \in 1 .. Len(done')
        PROVE  /\ done'[i].ext \in Dirty'
               /\ inFlight'[done'[i].ext] = done'[i].version /\ done'[i].version \in 1 .. clock
               /\ done'[i].ok /\ cache'[done'[i].ext].version = done'[i].version =>
                    spill[done'[i].ext] = cache'[done'[i].ext].data
    BY <1>6, <2>2, <2>3 DEF IInv, ChannelsOK
  <2>6. \A i, k \in 1 .. Len(done') : done'[i].ext = done'[k].ext => i = k
    <3>1. SUFFICES ASSUME NEW i \in 1 .. Len(done'), NEW k \in 1 .. Len(done'),
                          done[i + 1].ext = done[k + 1].ext
                   PROVE  i = k
      BY <2>2
    <3>2. i + 1 = k + 1 BY <3>1, <2>2 DEF IInv, ChannelsOK
    <3>3. QED BY <3>2
  <2>7. \A i \in 1 .. Len(jobs), k \in 1 .. Len(done') : jobs[i].ext # done'[k].ext
    BY <2>2 DEF IInv, ChannelsOK
  <2>8. \A i, k \in 1 .. Len(jobs) : jobs[i].ext = jobs[k].ext => i = k
    BY DEF IInv, ChannelsOK
  <2>9. QED BY <1>3, <2>4, <2>5, <2>6, <2>7, <2>8 DEF ChannelsOK
<1>8. CleanOK'
  <2>1. \A e \in Clean' : e \in Clean /\ cache'[e] = cache[e]
    BY <1>2, <1>4 DEF Clean, Dirty, Resident
  <2>2. QED BY <2>1 DEF IInv, CleanOK
<1>9. QED BY <1>5, <1>7, <1>8

LEMMA EvictCleanInv ==
  ASSUME TypeOK, IInv, EvictClean
  PROVE  IInv'
<1> DEFINE e == Oldest(Clean)
<1>1. e \in Clean
  <2>1. Clean # {} /\ Clean \in SUBSET Resident BY DEF EvictClean, Clean
  <2>2. QED BY <2>1, OldestIn DEF TypeOK
<1>2. /\ cache' = [cache EXCEPT ![e] = Absent] /\ pc' # "touch"
      /\ UNCHANGED <<clock, spill, inFlight, prespilled, jobs, done, base>>
  BY DEF EvictClean, Crowded, worker, call
<1>3. e \in Extents /\ e \notin Dirty BY <1>1 DEF Clean, Resident
<1>4. /\ cache'[e] = Absent
      /\ \A x \in Extents \ {e} : cache'[x] = cache[x]
  BY <1>2, <1>3 DEF TypeOK
<1>5. VersionsOK' BY <1>2, <1>4 DEF IInv, VersionsOK, Resident
<1>6. \A x \in Dirty : x \in Dirty' /\ cache'[x] = cache[x]
  BY <1>3, <1>4 DEF Dirty, Resident
<1>7. ChannelsOK' BY <1>2, <1>6, ChannelsFrame DEF TypeOK, IInv
<1>8. CleanOK'
  <2>1. \A x \in Clean' : x \in Clean /\ cache'[x] = cache[x]
    BY <1>3, <1>4 DEF Clean, Dirty, Resident
  <2>2. QED BY <1>2, <2>1 DEF IInv, CleanOK
<1>9. QED BY <1>2, <1>5, <1>7, <1>8 DEF IInv, ServedOK

LEMMA EvictDirtyInv ==
  ASSUME TypeOK, IInv, EvictDirty
  PROVE  IInv'
<1> DEFINE e == Oldest(Dirty \ InFlight)
<1>1. e \in Dirty \ InFlight
  <2>1. Dirty \ InFlight # {} /\ Dirty \ InFlight \in SUBSET Resident
    BY DEF EvictDirty, Dirty
  <2>2. QED BY <2>1, OldestIn DEF TypeOK
<1>2. e \in Extents /\ e \in Dirty /\ inFlight[e] = 0
  BY <1>1 DEF Dirty, Resident, InFlight
<1>3. /\ cache' = [cache EXCEPT ![e] = Absent] /\ pc' # "touch"
      /\ UNCHANGED <<clock, inFlight, jobs, done, base>>
      /\ prespilled' = prespilled \/ prespilled' = [prespilled EXCEPT ![e] = 0]
  BY DEF EvictDirty, Crowded, Refuse, call
<1>4. \A x \in Extents \ {e} : spill'[x] = spill[x]
  BY DEF EvictDirty, TypeOK
<1>5. /\ cache'[e] = Absent
      /\ \A x \in Extents \ {e} : cache'[x] = cache[x] /\ prespilled'[x] = prespilled[x]
      /\ prespilled'[e] \in {prespilled[e], 0}
  BY <1>2, <1>3 DEF TypeOK
<1>6. VersionsOK'
  <2>1. \A x \in Resident' : x \in Resident /\ x # e /\ cache'[x] = cache[x]
    BY <1>2, <1>5 DEF Resident
  <2>2. \A x \in Resident' : prespilled'[x] = prespilled[x]
    BY <1>5, <2>1 DEF Resident
  <2>3. \A x \in Extents : prespilled'[x] \in {prespilled[x], 0}
    BY <1>5
  <2>4. ASSUME NEW x \in Extents PROVE prespilled'[x] <= clock
    <3>1. prespilled[x] <= clock /\ 0 <= clock BY DEF IInv, VersionsOK, TypeOK
    <3>2. QED BY <2>3, <3>1
  <2>5. QED BY <1>3, <2>1, <2>2, <2>4 DEF IInv, VersionsOK
<1>7. \A x \in Dirty : inFlight[x] \in 1 .. clock =>
        x \in Dirty' /\ cache'[x] = cache[x] /\ spill'[x] = spill[x]
  BY <1>2, <1>4, <1>5 DEF Dirty, Resident
<1>8. ChannelsOK'
  <2>1. clock' \in Nat /\ clock <= clock' BY <1>3 DEF TypeOK
  <2>2. \A x \in Dirty : inFlight[x] \in 1 .. clock =>
          /\ x \in Dirty' /\ spill'[x] = spill[x]
          /\ cache'[x].version = inFlight[x] =>
               cache'[x].version = cache[x].version /\ cache'[x].data = cache[x].data
    BY <1>7, Zenon
  <2>3. QED BY <1>3, <2>1, <2>2, ChannelsFrame DEF IInv
<1>9. CleanOK'
  <2>1. \A x \in Clean' : x \in Clean /\ x # e /\ x \in Extents /\ cache'[x] = cache[x]
    BY <1>2, <1>5 DEF Clean, Dirty, Resident
  <2>2. QED BY <1>3, <1>4, <2>1 DEF IInv, CleanOK
<1>10. QED BY <1>3, <1>6, <1>8, <1>9 DEF IInv, ServedOK

LEMMA LoadInv ==
  ASSUME TypeOK, IInv, Load
  PROVE  IInv'
<1>1. CASE Refuse /\ UNCHANGED <<clock, cache>>
  <2>1. /\ UNCHANGED <<cache, clock, spill, inFlight, prespilled, jobs, done, base>>
        /\ pc' # "touch"
    BY <1>1 DEF Load, Refuse, worker
  <2>2. QED BY <2>1, StoreStill DEF IInv, ServedOK
<1>2. CASE ~(Refuse /\ UNCHANGED <<clock, cache>>)
  <2>1. PICK c \in Contents :
          /\ (IF at \in Slots THEN spill[at] ELSE base[at]) # Blank =>
               c = (IF at \in Slots THEN spill[at] ELSE base[at])
          /\ cache' = [cache EXCEPT ![at] =
               [data |-> c, dirty |-> at \in Slots, used |-> clock', version |-> clock']]
    BY <1>2 DEF Load
  <2>2. /\ clock' = clock + 1 /\ at \notin Resident
        /\ UNCHANGED <<spill, inFlight, prespilled, jobs, done, base, at>>
    BY <1>2 DEF Load, worker
  <2>3. at \in Extents /\ clock \in Nat BY DEF TypeOK
  <2>4. /\ cache'[at] = [data |-> c, dirty |-> at \in Slots, used |-> clock', version |-> clock']
        /\ \A x \in Extents \ {at} : cache'[x] = cache[x]
    BY <2>1, <2>3 DEF TypeOK
  <2>5. cache'[at] # Absent
    <3>1. cache'[at] \in Entry BY <2>2, <2>3, <2>4 DEF Entry
    <3>2. QED BY <3>1, MarksAssumption
  <2>6. VersionsOK'
    <3>1. cache'[at].version \in 1 .. clock' /\ cache'[at].version # prespilled[at]
      BY <2>2, <2>3, <2>4 DEF IInv, VersionsOK, TypeOK
    <3>2. \A x \in Resident' \ {at} :
            cache'[x].version \in 1 .. clock' /\ cache'[x].version # prespilled[x]
      BY <2>2, <2>3, <2>4 DEF IInv, VersionsOK, Resident, TypeOK
    <3>3. \A x \in Extents : prespilled[x] <= clock'
      BY <2>2, <2>3 DEF IInv, VersionsOK, TypeOK
    <3>4. QED BY <2>2, <3>1, <3>2, <3>3 DEF VersionsOK
  <2>7. \A x \in Dirty : x \in Dirty' /\ cache'[x] = cache[x]
    BY <2>2, <2>4 DEF Dirty, Resident
  <2>8. ChannelsOK' BY <2>2, <2>3, <2>7, ChannelsFrame DEF IInv
  <2>9. CleanOK'
    <3>1. \A x \in Clean' : x # at => x \in Clean /\ cache'[x] = cache[x]
      BY <2>4 DEF Clean, Dirty, Resident
    <3>2. at \in Clean' => at \notin Slots
      <4>1. cache'[at].dirty = (at \in Slots) BY <2>4
      <4>2. at \in Resident' BY <2>3, <2>5 DEF Resident
      <4>3. QED BY <4>1, <4>2 DEF Clean, Dirty
    <3>3. base[at] # Blank BY <2>3, MarksAssumption DEF TypeOK
    <3>4. at \in Clean' => spill[at] = NoSlot /\ cache'[at].data = base[at]
      BY <2>1, <2>3, <2>4, <3>2, <3>3 DEF Slots
    <3>5. QED BY <2>2, <3>1, <3>4 DEF IInv, CleanOK
  <2>10. ServedOK' BY <2>2, <2>3, <2>5 DEF ServedOK, Resident
  <2>11. QED BY <2>6, <2>8, <2>9, <2>10 DEF IInv
<1>3. QED BY <1>1, <1>2

LEMMA TouchInv ==
  ASSUME TypeOK, IInv, Touch
  PROVE  IInv'
<1>1. /\ at \in Resident /\ at \in Extents /\ clock' = clock + 1 /\ clock \in Nat
      /\ pc' # "touch" /\ UNCHANGED <<spill, inFlight, prespilled, jobs, done, base>>
  BY DEF Touch, IInv, ServedOK, TypeOK, worker
<1>2. cache[at] \in Entry /\ cache[at] # Absent
  BY <1>1 DEF TypeOK, Resident
<1>3. \A x \in Extents \ {at} : cache'[x] = cache[x]
  BY <1>1 DEF Touch, TypeOK
<1>4. \/ cache'[at] = [data |-> Overwritten(cache[at].data, at, op), dirty |-> TRUE,
                       used |-> clock', version |-> clock']
      \/ cache'[at] = [cache[at] EXCEPT !.used = clock']
  BY <1>1 DEF Touch, TypeOK
<1>5. cache'[at] # Absent
  <2>1. cache'[at] \in Entry
    <3>1. Overwritten(cache[at].data, at, op) \in Contents
      BY <1>2, OverwrittenType DEF Entry, TypeOK
    <3>2. clock' \in Nat BY <1>1
    <3>3. CASE cache'[at] = [data |-> Overwritten(cache[at].data, at, op), dirty |-> TRUE,
                             used |-> clock', version |-> clock']
      BY <3>1, <3>2, <3>3 DEF Entry
    <3>4. CASE cache'[at] = [cache[at] EXCEPT !.used = clock']
      BY <1>2, <3>2, <3>4 DEF Entry
    <3>5. QED BY <1>4, <3>3, <3>4
  <2>2. QED BY <2>1, MarksAssumption
<1>6. \/ cache'[at].version = clock' /\ cache'[at].dirty
      \/ /\ cache'[at].version = cache[at].version /\ cache'[at].dirty = cache[at].dirty
         /\ cache'[at].data = cache[at].data
  BY <1>2, <1>4 DEF Entry
<1>7. VersionsOK'
  <2>1. cache'[at].version \in 1 .. clock' /\ cache'[at].version # prespilled[at]
    BY <1>1, <1>6 DEF IInv, VersionsOK, TypeOK
  <2>2. \A x \in Resident' \ {at} :
          cache'[x].version \in 1 .. clock' /\ cache'[x].version # prespilled[x]
    BY <1>1, <1>3 DEF IInv, VersionsOK, Resident, TypeOK
  <2>3. \A x \in Extents : prespilled[x] <= clock'
    BY <1>1 DEF IInv, VersionsOK, TypeOK
  <2>4. QED BY <1>1, <2>1, <2>2, <2>3 DEF VersionsOK
<1>8. ChannelsOK'
  <2>1. \A x \in Dirty : x # at => x \in Dirty' /\ cache'[x] = cache[x]
    BY <1>3 DEF Dirty, Resident
  <2>2. at \in Dirty => at \in Dirty'
    BY <1>1, <1>5, <1>6 DEF Dirty, Resident
  <2>3. inFlight[at] \in 1 .. clock /\ cache'[at].version = inFlight[at] =>
          cache'[at].version = cache[at].version /\ cache'[at].data = cache[at].data
    BY <1>1, <1>6
  <2>4. QED BY <1>1, <2>1, <2>2, <2>3, ChannelsFrame DEF IInv
<1>9. CleanOK'
  <2>1. \A x \in Clean' : x # at => x \in Clean /\ cache'[x] = cache[x]
    BY <1>3 DEF Clean, Dirty, Resident
  <2>2. at \in Clean' => at \in Clean /\ cache'[at].data = cache[at].data
    BY <1>1, <1>5, <1>6 DEF Clean, Dirty, Resident
  <2>3. QED BY <1>1, <2>1, <2>2 DEF IInv, CleanOK
<1>10. QED BY <1>1, <1>7, <1>8, <1>9 DEF IInv, ServedOK

LEMMA OffloadInv ==
  ASSUME TypeOK, IInv, Offload
  PROVE  IInv'
<1> DEFINE e == Oldest(Candidates)
           x == [ext |-> e, version |-> cache[e].version, data |-> cache[e].data]
<1>1. e \in Dirty /\ inFlight[e] = 0
  <2>1. Candidates # {} /\ Candidates \in SUBSET Resident
    BY DEF Offload, MayOffload, Candidates, Dirty
  <2>2. e \in Candidates BY <2>1, OldestIn DEF TypeOK
  <2>3. QED BY <2>2 DEF Candidates, InFlight, Dirty, Resident
<1>2. /\ pc' # "touch" /\ UNCHANGED <<cache, clock, prespilled, done, base>>
  BY DEF Offload, call
<1>3. CASE UNCHANGED <<spill, jobs, inFlight>>
  BY <1>2, <1>3, StoreStill DEF IInv, ServedOK
<1>4. CASE ~UNCHANGED <<spill, jobs, inFlight>>
  <2>1. /\ jobs' = Append(jobs, x)
        /\ inFlight' = [inFlight EXCEPT ![e] = cache[e].version]
        /\ spill' = [spill EXCEPT ![e] = IF @ = NoSlot THEN Blank ELSE @]
    BY <1>4 DEF Offload
  <2>2. e \in Extents /\ cache[e] \in Entry BY <1>1 DEF Dirty, Resident, TypeOK
  <2>3. x \in Job BY <2>2 DEF Job, Entry
  <2>4. /\ Len(jobs) \in Nat /\ Len(jobs') = Len(jobs) + 1
        /\ \A i \in 1 .. Len(jobs) : jobs'[i] = jobs[i]
        /\ jobs'[Len(jobs) + 1] = x
    BY <2>1, <2>3, Appended, LenProperties DEF TypeOK
  <2>5. VersionsOK' BY <1>2 DEF IInv, VersionsOK, Resident
  <2>6. /\ \A y \in Extents \ {e} : spill'[y] = spill[y] /\ inFlight'[y] = inFlight[y]
        /\ inFlight'[e] = cache[e].version
    BY <2>1, <2>2 DEF TypeOK
  <2>7. /\ \A i \in 1 .. Len(jobs) : jobs[i].ext # e /\ jobs[i].ext \in Extents
        /\ \A i \in 1 .. Len(done) : done[i].ext # e /\ done[i].ext \in Extents
    BY <1>1 DEF IInv, ChannelsOK, Dirty, Resident
  <2>8. cache[e].version \in 1 .. clock BY <1>1 DEF IInv, VersionsOK, Dirty
  <2>9. ASSUME NEW i \in 1 .. Len(jobs')
        PROVE  /\ jobs'[i].ext \in Dirty'
               /\ inFlight'[jobs'[i].ext] = jobs'[i].version /\ jobs'[i].version \in 1 .. clock
               /\ cache[jobs'[i].ext].version = jobs'[i].version =>
                    cache[jobs'[i].ext].data = jobs'[i].data
    <3>1. CASE i \in 1 .. Len(jobs)
      BY <3>1, <1>2, <2>4, <2>6, <2>7 DEF IInv, ChannelsOK, Dirty, Resident
    <3>2. CASE i = Len(jobs) + 1
      BY <3>2, <1>1, <1>2, <2>4, <2>6, <2>8 DEF Dirty, Resident
    <3>3. QED BY <3>1, <3>2, <2>4
  <2>10. ASSUME NEW i \in 1 .. Len(done)
         PROVE  /\ done[i].ext \in Dirty'
                /\ inFlight'[done[i].ext] = done[i].version /\ done[i].version \in 1 .. clock
                /\ done[i].ok /\ cache[done[i].ext].version = done[i].version =>
                     spill'[done[i].ext] = cache[done[i].ext].data
    BY <1>2, <2>6, <2>7 DEF IInv, ChannelsOK, Dirty, Resident
  <2>11. \A i, k \in 1 .. Len(jobs') : jobs'[i].ext = jobs'[k].ext => i = k
    <3>1. SUFFICES ASSUME NEW i \in 1 .. Len(jobs'), NEW k \in 1 .. Len(jobs'),
                          jobs'[i].ext = jobs'[k].ext
                   PROVE  i = k
      OBVIOUS
    <3>2. CASE i \in 1 .. Len(jobs) /\ k \in 1 .. Len(jobs)
      BY <3>1, <3>2, <2>4 DEF IInv, ChannelsOK
    <3>3. QED BY <3>1, <3>2, <2>4, <2>7
  <2>12. \A i \in 1 .. Len(jobs'), k \in 1 .. Len(done) : jobs'[i].ext # done[k].ext
    BY <2>4, <2>7 DEF IInv, ChannelsOK
  <2>13. \A i, k \in 1 .. Len(done) : done[i].ext = done[k].ext => i = k
    BY DEF IInv, ChannelsOK
  <2>14. ChannelsOK' BY <1>2, <2>9, <2>10, <2>11, <2>12, <2>13 DEF ChannelsOK
  <2>15. CleanOK'
    BY <1>1, <1>2, <2>6 DEF IInv, CleanOK, Clean, Dirty, Resident
  <2>16. QED BY <1>2, <2>5, <2>14, <2>15 DEF IInv, ServedOK
<1>5. QED BY <1>3, <1>4

LEMMA WorkerInv ==
  ASSUME TypeOK, IInv, Worker
  PROVE  IInv'
<1> DEFINE j == jobs[1]
<1>1. /\ Len(jobs) \in Nat \ {0} /\ Head(jobs) = j /\ j \in Job /\ jobs' = Tail(jobs)
      /\ Len(jobs') = Len(jobs) - 1 /\ \A i \in 1 .. Len(jobs') : jobs'[i] = jobs[i + 1]
  BY HeadTail DEF Worker, TypeOK
<1>2. /\ j.ext \in Dirty /\ j.ext \in Extents /\ inFlight[j.ext] = j.version
      /\ j.version \in 1 .. clock
      /\ cache[j.ext].version = j.version => cache[j.ext].data = j.data
  BY <1>1 DEF IInv, ChannelsOK, Job
<1>3. UNCHANGED <<cache, clock, inFlight, prespilled, base, pc, at>>
  BY DEF Worker, call
<1>4. PICK k \in BOOLEAN :
        /\ done' = Append(done, [ext |-> j.ext, version |-> j.version, ok |-> k])
        /\ k => spill' = [spill EXCEPT ![j.ext] = j.data]
        /\ \A y \in Extents \ {j.ext} : spill'[y] = spill[y]
  BY <1>1, <1>2 DEF Worker, TypeOK
<1> DEFINE x == [ext |-> j.ext, version |-> j.version, ok |-> k]
<1>5. x \in Done BY <1>1 DEF Job, Done
<1>6. /\ Len(done) \in Nat /\ Len(done') = Len(done) + 1
      /\ \A i \in 1 .. Len(done) : done'[i] = done[i]
      /\ done'[Len(done) + 1] = x
  BY <1>4, <1>5, Appended, LenProperties DEF TypeOK
<1>7. \A i \in 1 .. Len(jobs') : i + 1 \in 1 .. Len(jobs) /\ jobs'[i] = jobs[i + 1]
  BY <1>1
<1>8. \A i \in 1 .. Len(jobs') : jobs'[i].ext # j.ext
  <2>1. SUFFICES ASSUME NEW i \in 1 .. Len(jobs') PROVE jobs[i + 1].ext # j.ext
    BY <1>7
  <2>2. i + 1 \in 1 .. Len(jobs) /\ i + 1 # 1 /\ 1 \in 1 .. Len(jobs) BY <1>7, <1>1
  <2>3. QED BY <2>2 DEF IInv, ChannelsOK
<1>9. \A i \in 1 .. Len(done) : done[i].ext # j.ext /\ done[i].ext \in Extents
  <2>1. 1 \in 1 .. Len(jobs) BY <1>1
  <2>2. QED BY <2>1 DEF IInv, ChannelsOK, Dirty, Resident
<1>10. Dirty' = Dirty BY <1>3 DEF Dirty, Resident
<1>11. ASSUME NEW i \in 1 .. Len(jobs')
       PROVE  /\ jobs'[i].ext \in Dirty
              /\ inFlight[jobs'[i].ext] = jobs'[i].version /\ jobs'[i].version \in 1 .. clock
              /\ cache[jobs'[i].ext].version = jobs'[i].version =>
                   cache[jobs'[i].ext].data = jobs'[i].data
  BY <1>7 DEF IInv, ChannelsOK
<1>12. ASSUME NEW i \in 1 .. Len(done')
       PROVE  /\ done'[i].ext \in Dirty
              /\ inFlight[done'[i].ext] = done'[i].version /\ done'[i].version \in 1 .. clock
              /\ done'[i].ok /\ cache[done'[i].ext].version = done'[i].version =>
                   spill'[done'[i].ext] = cache[done'[i].ext].data
  <2>1. CASE i \in 1 .. Len(done)
    BY <2>1, <1>4, <1>6, <1>9 DEF IInv, ChannelsOK
  <2>2. CASE i = Len(done) + 1
    <3>1. k => spill'[j.ext] = j.data BY <1>2, <1>4 DEF TypeOK
    <3>2. done'[i].ext = j.ext /\ done'[i].version = j.version /\ done'[i].ok = k
      BY <2>2, <1>6
    <3>3. QED BY <3>1, <3>2, <1>2
  <2>3. QED BY <2>1, <2>2, <1>6
<1>13. \A i, n \in 1 .. Len(jobs') : jobs'[i].ext = jobs'[n].ext => i = n
  <2>1. SUFFICES ASSUME NEW i \in 1 .. Len(jobs'), NEW n \in 1 .. Len(jobs'),
                        jobs[i + 1].ext = jobs[n + 1].ext
                 PROVE  i = n
    BY <1>7
  <2>2. i + 1 = n + 1 BY <2>1, <1>7 DEF IInv, ChannelsOK
  <2>3. QED BY <2>2
<1>14. \A i, n \in 1 .. Len(done') : done'[i].ext = done'[n].ext => i = n
  <2>1. SUFFICES ASSUME NEW i \in 1 .. Len(done'), NEW n \in 1 .. Len(done'),
                        done'[i].ext = done'[n].ext
                 PROVE  i = n
    OBVIOUS
  <2>2. CASE i \in 1 .. Len(done) /\ n \in 1 .. Len(done)
    BY <2>1, <2>2, <1>6 DEF IInv, ChannelsOK
  <2>3. QED BY <2>1, <2>2, <1>6, <1>9
<1>15. \A i \in 1 .. Len(jobs'), n \in 1 .. Len(done') : jobs'[i].ext # done'[n].ext
  <2>1. SUFFICES ASSUME NEW i \in 1 .. Len(jobs'), NEW n \in 1 .. Len(done')
                 PROVE  jobs'[i].ext # done'[n].ext
    OBVIOUS
  <2>2. CASE n \in 1 .. Len(done) BY <2>2, <1>6, <1>7 DEF IInv, ChannelsOK
  <2>3. CASE n = Len(done) + 1 BY <2>3, <1>6, <1>8
  <2>4. QED BY <2>2, <2>3, <1>6
<1>16. ChannelsOK'
  BY <1>3, <1>10, <1>11, <1>12, <1>13, <1>14, <1>15 DEF ChannelsOK
<1>17. VersionsOK' BY <1>3 DEF IInv, VersionsOK, Resident
<1>18. CleanOK'
  BY <1>2, <1>3, <1>4 DEF IInv, CleanOK, Clean, Dirty, Resident
<1>19. ServedOK' BY <1>3 DEF IInv, ServedOK, Resident
<1>20. QED BY <1>16, <1>17, <1>18, <1>19 DEF IInv

LEMMA CommitInv ==
  ASSUME TypeOK, IInv, Commit
  PROVE  IInv'
<1>1. jobs = <<>> /\ done = <<>> BY NothingInFlight DEF Commit, IInv
<1>2. /\ UNCHANGED <<clock, inFlight, jobs, done>> /\ pc' # "touch"
  BY DEF Commit
<1>3. CASE UNCHANGED <<base, cache, spill, prespilled>>
  BY <1>2, <1>3, StoreStill DEF IInv, ServedOK
<1>4. CASE ~UNCHANGED <<base, cache, spill, prespilled>>
  <2>1. /\ base' = [e \in Extents |-> Altered(e)]
        /\ cache' = [e \in Extents |->
             IF e \in Resident THEN [cache[e] EXCEPT !.dirty = FALSE] ELSE Absent]
        /\ spill' = [e \in Extents |-> NoSlot] /\ prespilled' = [e \in Extents |-> 0]
    BY <1>4 DEF Commit, ReleaseSpill
  <2>2. \A e \in Resident : cache[e] \in Entry BY DEF Resident, TypeOK
  <2>3. \A e \in Resident' :
          /\ e \in Resident /\ cache'[e].version = cache[e].version
          /\ cache'[e].data = cache[e].data
    BY <2>1, <2>2 DEF Resident, Entry
  <2>4. VersionsOK'
    <3>1. \A e \in Resident : cache[e].version \in 1 .. clock BY DEF IInv, VersionsOK
    <3>2. \A e \in Resident' : cache'[e].version \in 1 .. clock /\ prespilled'[e] = 0
      BY <2>1, <2>3, <3>1 DEF Resident
    <3>3. \A e \in Extents : prespilled'[e] <= clock BY <2>1 DEF TypeOK
    <3>4. QED BY <1>2, <3>2, <3>3 DEF VersionsOK
  <2>5. ChannelsOK' BY <1>1, <1>2 DEF ChannelsOK
  <2>6. CleanOK'
    <3>1. \A e \in Resident : Altered(e) = cache[e].data
      BY DEF Altered, IInv, CleanOK, Clean, Slots
    <3>2. \A e \in Resident : base'[e] = cache[e].data BY <2>1, <3>1 DEF Resident
    <3>3. \A e \in Clean' : e \in Resident' /\ e \in Extents BY DEF Clean, Resident
    <3>4. QED BY <2>1, <2>3, <3>2, <3>3 DEF CleanOK
  <2>7. QED BY <1>2, <2>4, <2>5, <2>6 DEF IInv, ServedOK
<1>5. QED BY <1>3, <1>4

LEMMA RollbackInv ==
  ASSUME TypeOK, IInv, Rollback
  PROVE  IInv'
<1>1. jobs = <<>> /\ done = <<>> BY NothingInFlight DEF Rollback, IInv
<1>2. /\ UNCHANGED <<clock, inFlight, jobs, done, base>> /\ pc' # "touch"
      /\ cache' = [e \in Extents |-> IF e \in Clean THEN cache[e] ELSE Absent]
      /\ spill' = [e \in Extents |-> NoSlot] /\ prespilled' = [e \in Extents |-> 0]
  BY DEF Rollback, ReleaseSpill
<1>3. \A e \in Resident' : e \in Clean /\ e \in Resident /\ e \in Extents /\ cache'[e] = cache[e]
  BY <1>2 DEF Resident, Clean
<1>4. VersionsOK'
  <2>1. \A e \in Resident : cache[e].version \in 1 .. clock BY DEF IInv, VersionsOK
  <2>2. \A e \in Resident' : cache'[e].version \in 1 .. clock /\ prespilled'[e] = 0
    BY <1>2, <1>3, <2>1
  <2>3. \A e \in Extents : prespilled'[e] <= clock BY <1>2 DEF TypeOK
  <2>4. QED BY <1>2, <2>2, <2>3 DEF VersionsOK
<1>5. ChannelsOK' BY <1>1, <1>2 DEF ChannelsOK
<1>6. CleanOK'
  <2>1. \A e \in Clean' : e \in Resident' BY DEF Clean
  <2>2. QED BY <1>2, <1>3, <2>1 DEF IInv, CleanOK
<1>7. QED BY <1>2, <1>4, <1>5, <1>6 DEF IInv, ServedOK

\* The invariant is inductive, whatever fails.
LEMMA InvStep ==
  ASSUME TypeOK, IInv, [Next]_vars
  PROVE  IInv'
<1>1. CASE UNCHANGED vars
  BY <1>1 DEF IInv, VersionsOK, ChannelsOK, CleanOK, ServedOK, Resident, Dirty, Clean,
     vars, store, worker, call
<1>2. CASE Calls
  <2>1. /\ UNCHANGED <<cache, clock, spill, inFlight, prespilled, jobs, done, base>>
        /\ pc' # "touch"
    BY <1>2 DEF Calls, Begin, BeginCommit, BeginRollback, store, worker
  <2>2. QED BY <2>1, StoreStill DEF IInv, ServedOK
<1>3. CASE Drain
  <2>1. CASE done # <<>>
    BY <1>3, <2>1, ApplyOffloadInv DEF Drain, IInv, ServedOK
  <2>2. CASE done = <<>>
    BY <1>3, <2>2, StoreStill DEF Drain, IInv, ServedOK, worker
  <2>3. QED BY <2>1, <2>2
<1>4. CASE EvictJoin
  BY <1>4, ApplyOffloadInv DEF EvictJoin, Crowded, IInv, ServedOK, call
<1>5. CASE JoinOffloads
  BY <1>5, ApplyOffloadInv DEF JoinOffloads, IInv, ServedOK, call
<1>6. CASE Hit
  <2>1. /\ UNCHANGED <<cache, clock, spill, inFlight, prespilled, jobs, done, base>>
        /\ at' = at /\ at \in Resident
    BY <1>6 DEF Hit, store, worker
  <2>2. ServedOK' BY <2>1 DEF ServedOK, Resident
  <2>3. QED BY <2>1, <2>2, StoreStill DEF IInv
<1>7. CASE OffloadDone
  BY <1>7, StoreStill DEF OffloadDone, IInv, ServedOK, store, worker
<1>8. QED
  BY <1>1, <1>2, <1>3, <1>4, <1>5, <1>6, <1>7, EvictCleanInv, EvictDirtyInv, LoadInv,
     TouchInv, OffloadInv, CommitInv, RollbackInv, WorkerInv DEF Next, Session

LEMMA InitOK ==
  ASSUME Init
  PROVE  TypeOK /\ IInv
<1>1. Resident = {} BY DEF Init, Resident
<1>2. TypeOK
  BY NoOpType, FirstPlaces, EmptySeq, KindsAssumption DEF Init, TypeOK
<1>3. IInv
  BY <1>1 DEF Init, IInv, VersionsOK, ChannelsOK, CleanOK, ServedOK, Clean
<1>4. QED BY <1>2, <1>3

-----------------------------------------------------------------------------
(* Theorems, whatever the host refuses *)

\* The types and the inductive invariant: versions are stamps given once, the
\* channels carry each extent at most once, and an extent that was never
\* altered is what the disk holds.
THEOREM CacheTheorem == Spec => [](TypeOK /\ IInv)
<1>1. Init => TypeOK /\ IInv BY InitOK
<1>2. TypeOK /\ IInv /\ [Next]_vars => (TypeOK /\ IInv)'
  BY TypeStep, InvStep DEF IInv
<1>3. QED BY <1>1, <1>2, PTL DEF Spec

\* The worker has each slot to itself until its completion is taken
\* (cache.rs:446-447), also when its own writes fail.
THEOREM WorkerTheorem == Spec => []WorkerOwnsSlot
<1>1. IInv => WorkerOwnsSlot BY DEF IInv, ChannelsOK, WorkerOwnsSlot
<1>2. QED BY <1>1, CacheTheorem, PTL

\* An unmodified session has nothing that a commit would skip
\* (commit.rs:45-47).
THEOREM SavedTheorem == Spec => []UnmodifiedIsSaved
<1>1. ASSUME TypeOK, IInv, ~Modified PROVE View = base
  <2>1. Dirty = {} /\ Slots = {} BY <1>1 DEF Modified
  <2>2. \A e \in Extents : View[e] = base[e]
    BY <1>1, <2>1 DEF View, IInv, CleanOK, Clean
  <2>3. QED BY <1>1, <2>2 DEF View, TypeOK
<1>2. TypeOK /\ IInv => UnmodifiedIsSaved BY <1>1 DEF UnmodifiedIsSaved
<1>3. QED BY <1>2, CacheTheorem, PTL

LEMMA Sizes ==
  ASSUME NEW S \in SUBSET Extents
  PROVE  IsFiniteSet(S) /\ Cardinality(S) \in Nat
<1>1. IsFiniteSet(Extents)
  BY FS_Interval, SizesAssumption DEF Extents
<1>2. IsFiniteSet(S) BY <1>1, FS_Subset
<1>3. QED BY <1>2, FS_CardinalityType

\* The resident extents of a step that loads nothing are among the earlier.
LEMMA NoneLoaded ==
  ASSUME TypeOK, IInv, [Next]_vars, ~Load
  PROVE  Resident' \subseteq Resident
<1> USE DEF Resident, store, worker, call
<1>1. CASE UNCHANGED vars \/ Calls
  BY <1>1 DEF vars, Calls, Begin, BeginCommit, BeginRollback
<1>2. CASE Hit \/ Offload \/ OffloadDone \/ Worker
  BY <1>2 DEF Hit, Offload, OffloadDone, Worker
<1>3. CASE Drain \/ EvictJoin \/ JoinOffloads
  <2>1. cache' = cache \/ \E e : cache' = [cache EXCEPT ![e] = Absent]
    BY <1>3 DEF Drain, EvictJoin, JoinOffloads, ApplyOffload
  <2>2. QED BY <2>1 DEF TypeOK
<1>4. CASE EvictClean \/ EvictDirty
  <2>1. \E e : cache' = [cache EXCEPT ![e] = Absent]
    BY <1>4 DEF EvictClean, EvictDirty
  <2>2. QED BY <2>1 DEF TypeOK
<1>5. CASE Touch
  <2>1. \E x : cache' = [cache EXCEPT ![at] = x] BY <1>5 DEF Touch
  <2>2. at \in Resident BY <1>5 DEF Touch, IInv, ServedOK
  <2>3. QED BY <2>1, <2>2 DEF TypeOK
<1>6. CASE Commit BY <1>6 DEF Commit
<1>7. CASE Rollback BY <1>7 DEF Rollback, Clean
<1>8. QED BY <1>1, <1>2, <1>3, <1>4, <1>5, <1>6, <1>7 DEF Next, Session

\* The resident working set stays within the declared bound (cache.rs:38-40).
THEOREM BoundTheorem == Spec => []WithinBound
<1>1. Init => WithinBound
  <2>1. Init => Resident = {} BY DEF Init, Resident
  <2>2. QED BY <2>1, FS_EmptySet, SizesAssumption DEF WithinBound
<1>2. ASSUME TypeOK, IInv, WithinBound, [Next]_vars PROVE WithinBound'
  <2>1. /\ IsFiniteSet(Resident) /\ Cardinality(Resident) \in Nat
        /\ Cardinality(Resident') \in Nat
    BY Sizes DEF Resident
  <2>2. CASE Load
    <3>1. Cardinality(Resident) < Bound /\ at \notin Resident
      BY <2>2 DEF Load
    <3>2. Resident' \subseteq Resident \cup {at}
      <4>1. cache' = cache \/ \E x : cache' = [cache EXCEPT ![at] = x]
        BY <2>2 DEF Load
      <4>2. \A x, e : e \in Extents \ {at} => [cache EXCEPT ![at] = x][e] = cache[e]
        BY DEF TypeOK
      <4>3. \A e \in Extents \ {at} : cache'[e] = cache[e] BY <4>1, <4>2, Zenon
      <4>4. QED BY <4>3 DEF Resident
    <3>3. /\ IsFiniteSet(Resident \cup {at})
          /\ Cardinality(Resident \cup {at}) = Cardinality(Resident) + 1
      BY <2>1, <3>1, FS_AddElement
    <3>4. Cardinality(Resident') <= Cardinality(Resident \cup {at})
      BY <3>2, <3>3, FS_Subset
    <3>5. QED BY <2>1, <3>1, <3>3, <3>4, SizesAssumption DEF WithinBound
  <2>3. CASE ~Load
    <3>1. Cardinality(Resident') <= Cardinality(Resident)
      BY <1>2, <2>1, <2>3, NoneLoaded, FS_Subset
    <3>2. QED BY <1>2, <2>1, <3>1, SizesAssumption DEF WithinBound
  <2>4. QED BY <2>2, <2>3
<1>3. QED BY <1>1, <1>2, CacheTheorem, PTL DEF Spec

\* An extent counted as in flight is in one of the channels.
Tracked == \A e \in Extents :
  inFlight[e] # 0 => \/ \E i \in 1 .. Len(jobs) : jobs[i].ext = e
                     \/ \E i \in 1 .. Len(done) : done[i].ext = e

LEMMA TrackedStep ==
  ASSUME TypeOK, IInv, Tracked, [Next]_vars
  PROVE  Tracked'
<1>1. CASE UNCHANGED <<inFlight, jobs, done>> BY <1>1 DEF Tracked
<1>2. CASE ApplyOffload
  <2> DEFINE d == done[1]
  <2>1. /\ Head(done) = d /\ Len(done) \in Nat \ {0} /\ Len(done') = Len(done) - 1
        /\ \A i \in 1 .. Len(done') : done'[i] = done[i + 1]
    BY <1>2, HeadTail DEF ApplyOffload, TypeOK
  <2>2. inFlight' = [inFlight EXCEPT ![d.ext] = 0] /\ jobs' = jobs
    BY <1>2, <2>1 DEF ApplyOffload
  <2>3. SUFFICES ASSUME NEW e \in Extents, inFlight'[e] # 0
                 PROVE  \/ \E i \in 1 .. Len(jobs) : jobs[i].ext = e
                        \/ \E i \in 1 .. Len(done') : done'[i].ext = e
    BY <2>2 DEF Tracked
  <2>4. inFlight[e] # 0 /\ e # d.ext BY <2>2, <2>3 DEF TypeOK
  <2>5. ASSUME NEW i \in 1 .. Len(done), done[i].ext = e
        PROVE  \E k \in 1 .. Len(done') : done'[k].ext = e
    <3>1. i # 1 BY <2>4, <2>5
    <3>2. i - 1 \in 1 .. Len(done') /\ (i - 1) + 1 = i BY <2>1, <3>1
    <3>3. done'[i - 1] = done[i] BY <2>1, <3>2
    <3>4. QED BY <2>5, <3>2, <3>3
  <2>6. QED BY <2>4, <2>5 DEF Tracked
<1>3. CASE Offload /\ ~UNCHANGED <<inFlight, jobs, done>>
  <2> DEFINE e == Oldest(Candidates)
             x == [ext |-> e, version |-> cache[e].version, data |-> cache[e].data]
  <2>1. e \in Dirty
    <3>1. Candidates # {} /\ Candidates \in SUBSET Resident /\ Candidates \subseteq Dirty
      BY <1>3 DEF Offload, MayOffload, Candidates, Dirty
    <3>2. QED BY <3>1, OldestIn DEF TypeOK
  <2>2. jobs' = Append(jobs, x) /\ done' = done
        /\ inFlight' = [inFlight EXCEPT ![e] = cache[e].version]
    BY <1>3 DEF Offload
  <2>3. x \in Job
    <3>1. e \in Extents /\ cache[e] \in Entry BY <2>1 DEF Dirty, Resident, TypeOK
    <3>2. QED BY <3>1 DEF Job, Entry
  <2>4. /\ Len(jobs) \in Nat /\ Len(jobs') = Len(jobs) + 1
        /\ \A i \in 1 .. Len(jobs) : jobs'[i] = jobs[i]
        /\ jobs'[Len(jobs) + 1].ext = e
    BY <2>2, <2>3, Appended, LenProperties DEF TypeOK
  <2>5. \A i \in 1 .. Len(jobs) : i \in 1 .. Len(jobs') /\ jobs'[i] = jobs[i]
    BY <2>4
  <2>6. \A y \in Extents \ {e} : inFlight'[y] = inFlight[y] BY <2>2 DEF TypeOK
  <2>7. Len(jobs) + 1 \in 1 .. Len(jobs') BY <2>4
  <2>8. QED BY <2>2, <2>4, <2>5, <2>6, <2>7 DEF Tracked
<1>4. CASE Worker
  <2> DEFINE j == jobs[1]
  <2>1. /\ Head(jobs) = j /\ j \in Job /\ Len(jobs) \in Nat \ {0} /\ Len(jobs') = Len(jobs) - 1
        /\ \A i \in 1 .. Len(jobs') : jobs'[i] = jobs[i + 1]
    BY <1>4, HeadTail DEF Worker, TypeOK
  <2>2. PICK k \in BOOLEAN : done' = Append(done, [ext |-> j.ext, version |-> j.version, ok |-> k])
    BY <1>4, <2>1 DEF Worker
  <2>3. [ext |-> j.ext, version |-> j.version, ok |-> k] \in Done BY <2>1 DEF Job, Done
  <2>4. /\ Len(done) \in Nat /\ Len(done') = Len(done) + 1
        /\ \A i \in 1 .. Len(done) : done'[i] = done[i]
        /\ done'[Len(done) + 1].ext = j.ext
    BY <2>2, <2>3, Appended, LenProperties DEF TypeOK
  <2>5. Len(done) + 1 \in 1 .. Len(done') BY <2>4
  <2>6. ASSUME NEW i \in 1 .. Len(done)
        PROVE  \E n \in 1 .. Len(done') : done'[n].ext = done[i].ext
    <3>1. i \in 1 .. Len(done') /\ done'[i] = done[i] BY <2>4
    <3>2. QED BY <3>1
  <2>7. ASSUME NEW i \in 1 .. Len(jobs), i # 1
        PROVE  \E n \in 1 .. Len(jobs') : jobs'[n].ext = jobs[i].ext
    <3>1. i - 1 \in 1 .. Len(jobs') /\ (i - 1) + 1 = i BY <2>1, <2>7
    <3>2. jobs'[i - 1] = jobs[i] BY <2>1, <3>1
    <3>3. QED BY <3>1, <3>2
  <2>8. inFlight' = inFlight BY <1>4 DEF Worker
  <2>9. SUFFICES ASSUME NEW e \in Extents, inFlight[e] # 0
                 PROVE  \/ \E i \in 1 .. Len(jobs') : jobs'[i].ext = e
                        \/ \E i \in 1 .. Len(done') : done'[i].ext = e
    BY <2>8 DEF Tracked
  <2>10. CASE \E i \in 1 .. Len(done) : done[i].ext = e
    BY <2>6, <2>10
  <2>11. CASE \E i \in 1 .. Len(jobs) : jobs[i].ext = e
    BY <2>4, <2>5, <2>7, <2>11
  <2>12. QED BY <2>9, <2>10, <2>11 DEF Tracked
<1>5. [Next]_vars => \/ UNCHANGED <<inFlight, jobs, done>> \/ ApplyOffload
                     \/ Offload \/ Worker
  BY DEF Next, Session, Calls, Begin, BeginCommit, BeginRollback, Drain, EvictClean,
     EvictDirty, EvictJoin, Load, Hit, Touch, OffloadDone, JoinOffloads, Commit, Rollback,
     vars, worker
<1>6. QED BY <1>1, <1>2, <1>3, <1>4, <1>5

\* What is in flight is in a channel and nothing else is: a call that waits
\* for a completion waits for one that is coming.
THEOREM TrackedTheorem == Spec => []OffloadsAreTracked
<1>1. Init => Tracked BY DEF Init, Tracked
<1>2. TypeOK /\ IInv /\ Tracked /\ [Next]_vars => Tracked' BY TrackedStep
<1>3. ASSUME IInv, Tracked PROVE OffloadsAreTracked
  <2>1. \A i \in 1 .. Len(jobs) : inFlight[jobs[i].ext] # 0 BY <1>3 DEF IInv, ChannelsOK
  <2>2. \A i \in 1 .. Len(done) : inFlight[done[i].ext] # 0 BY <1>3 DEF IInv, ChannelsOK
  <2>3. QED BY <1>3, <2>1, <2>2 DEF Tracked, OffloadsAreTracked
<1>4. IInv /\ Tracked => OffloadsAreTracked BY <1>3
<1>5. QED BY <1>1, <1>2, <1>4, CacheTheorem, PTL DEF Spec

-----------------------------------------------------------------------------
(* What reads see.  A spill that fails in an eviction loses the extent it   *)
(* was to save (cache.rs:472-488 takes it out of memory first), so what     *)
(* follows is said of sessions whose spill file never fails the session's   *)
(* own thread; the worker's writes, reads and commits may fail.             *)

SpillsHold == {"spillCreate", "spillWrite"} \cap FaultKinds = {}

\* What is read of each extent, by where it is.
LEMMA ViewAt ==
  ASSUME NEW e \in Extents
  PROVE  /\ e \in Resident => View[e] = cache[e].data
         /\ e \notin Resident /\ e \in Slots => View[e] = spill[e]
         /\ e \notin Resident /\ e \notin Slots => View[e] = base[e]
BY DEF View

LEMMA ViewType == TypeOK /\ ReadsSeeWrites => View \in [Extents -> Contents]
BY DEF TypeOK, ReadsSeeWrites

\* The view is kept by a step that keeps it at every extent.
LEMMA ViewStill ==
  ASSUME \A e \in Extents : View'[e] = View[e]
  PROVE  View' = View
BY DEF View

\* A completion taken for the version still held leaves memory for its slot.
LEMMA ApplyOffloadView ==
  ASSUME TypeOK, IInv, ApplyOffload, UNCHANGED <<spill, base>>
  PROVE  View' = View
<1> DEFINE d == done[1]
<1>1. Head(done) = d /\ 1 \in 1 .. Len(done) /\ d \in Done
  BY HeadTail DEF ApplyOffload, TypeOK
<1>2. /\ d.ext \in Dirty /\ d.ext \in Extents
      /\ d.ok /\ cache[d.ext].version = d.version => spill[d.ext] = cache[d.ext].data
  BY <1>1 DEF IInv, ChannelsOK, Done
<1>3. CASE UNCHANGED cache
  BY <1>3 DEF View, Resident, Slots
<1>4. CASE ~UNCHANGED cache
  <2>1. d.ok /\ cache[d.ext].version = d.version /\ cache' = [cache EXCEPT ![d.ext] = Absent]
    BY <1>1, <1>4 DEF ApplyOffload
  <2>2. cache'[d.ext] = Absent /\ \A e \in Extents \ {d.ext} : cache'[e] = cache[e]
    BY <1>2, <2>1 DEF TypeOK
  <2>3. View'[d.ext] = View[d.ext]
    <3>1. d.ext \in Resident /\ spill[d.ext] = cache[d.ext].data /\ cache[d.ext] \in Entry
      BY <1>2, <2>1 DEF Dirty, Resident, TypeOK
    <3>2. d.ext \notin Resident' BY <2>2 DEF Resident
    <3>3. d.ext \in Slots'
      BY <1>2, <3>1, MarksAssumption DEF Slots, Entry
    <3>4. QED BY <1>2, <3>1, <3>2, <3>3 DEF View
  <2>4. \A e \in Extents \ {d.ext} : View'[e] = View[e]
    BY <2>2 DEF View, Resident, Slots
  <2>5. QED BY <2>3, <2>4, ViewStill
<1>5. QED BY <1>3, <1>4

\* A clean extent is dropped for what the disk holds, an altered one for the
\* slot it is written to.
LEMMA EvictView ==
  ASSUME TypeOK, IInv, SpillsHold, EvictClean \/ EvictDirty
  PROVE  View' = View
<1>1. CASE EvictClean
  <2> DEFINE e == Oldest(Clean)
  <2>1. e \in Clean
    <3>1. Clean # {} /\ Clean \in SUBSET Resident BY <1>1 DEF EvictClean, Clean
    <3>2. QED BY <3>1, OldestIn DEF TypeOK
  <2>2. e \in Extents /\ e \in Resident /\ spill[e] = NoSlot /\ cache[e].data = base[e]
    BY <2>1 DEF IInv, CleanOK, Clean, Resident
  <2>3. /\ cache'[e] = Absent /\ \A x \in Extents \ {e} : cache'[x] = cache[x]
        /\ UNCHANGED <<spill, base>>
    BY <1>1, <2>2 DEF EvictClean, TypeOK
  <2>4. View'[e] = View[e] BY <2>2, <2>3 DEF View, Resident, Slots
  <2>5. \A x \in Extents \ {e} : View'[x] = View[x]
    BY <2>3 DEF View, Resident, Slots
  <2>6. QED BY <2>4, <2>5, ViewStill
<1>2. CASE EvictDirty
  <2> DEFINE e == Oldest(Dirty \ InFlight)
  <2>1. e \in Dirty
    <3>1. Dirty \ InFlight # {} /\ Dirty \ InFlight \in SUBSET Resident
      BY <1>2 DEF EvictDirty, Dirty
    <3>2. QED BY <3>1, OldestIn DEF TypeOK
  <2>2. /\ e \in Extents /\ e \in Resident /\ cache[e] \in Entry
        /\ prespilled[e] # cache[e].version
    BY <2>1 DEF IInv, VersionsOK, Dirty, Resident, TypeOK
  <2>3. /\ cache' = [cache EXCEPT ![e] = Absent] /\ UNCHANGED base
        /\ spill' = [spill EXCEPT ![e] = cache[e].data]
    BY <1>2, <2>2 DEF EvictDirty, Fails, SpillsHold
  <2>4. /\ cache'[e] = Absent /\ spill'[e] = cache[e].data
        /\ \A x \in Extents \ {e} : cache'[x] = cache[x] /\ spill'[x] = spill[x]
    BY <2>2, <2>3 DEF TypeOK
  <2>5. View'[e] = View[e]
    <3>1. e \in Slots' BY <2>2, <2>4, MarksAssumption DEF Slots, Entry
    <3>2. e \notin Resident' BY <2>4 DEF Resident
    <3>3. QED BY <2>2, <2>4, <3>1, <3>2 DEF View
  <2>6. \A x \in Extents \ {e} : View'[x] = View[x]
    BY <2>3, <2>4 DEF View, Resident, Slots
  <2>7. QED BY <2>5, <2>6, ViewStill
<1>3. QED BY <1>1, <1>2

\* A load takes what a read would have returned.
LEMMA LoadView ==
  ASSUME TypeOK, IInv, ReadsSeeWrites, Load
  PROVE  View' = View
<1>1. UNCHANGED <<spill, base>> BY DEF Load
<1>2. CASE UNCHANGED cache BY <1>1, <1>2 DEF View, Resident, Slots
<1>3. CASE ~UNCHANGED cache
  <2> DEFINE from == IF at \in Slots THEN spill[at] ELSE base[at]
  <2>1. at \in Extents /\ at \notin Resident BY DEF Load, TypeOK
  <2>2. View[at] = from /\ from # Blank
    BY <2>1, ViewAt, ViewType, MarksAssumption
  <2>3. cache' = [cache EXCEPT ![at] =
          [data |-> from, dirty |-> at \in Slots, used |-> clock', version |-> clock']]
    BY <1>3, <2>2 DEF Load
  <2>4. clock' \in Nat /\ from \in Contents
    <3>1. clock' = clock + 1 BY <1>3 DEF Load
    <3>2. View[at] \in Contents BY <2>1, ViewType
    <3>3. QED BY <2>2, <3>1, <3>2 DEF TypeOK
  <2> HIDE DEF from
  <2>5. /\ cache'[at].data = from /\ cache'[at] \in Entry
        /\ \A e \in Extents \ {at} : cache'[e] = cache[e]
    BY <2>1, <2>3, <2>4 DEF TypeOK, Entry
  <2>6. View'[at] = View[at]
    <3>1. at \in Resident' BY <2>1, <2>5, MarksAssumption DEF Resident
    <3>2. QED BY <2>1, <2>2, <2>5, <3>1 DEF View
  <2>7. \A e \in Extents \ {at} : View'[e] = View[e]
    BY <1>1, <2>5 DEF View, Resident, Slots
  <2>8. QED BY <2>6, <2>7, ViewStill
<1>4. QED BY <1>2, <1>3

\* A hand-off and the worker's writes touch only slots of altered extents in
\* memory, which nothing reads.
LEMMA WorkerView ==
  ASSUME TypeOK, IInv, Offload \/ Worker
  PROVE  View' = View
<1>1. PICK e \in Dirty : \A x \in Extents \ {e} : spill'[x] = spill[x]
  <2>1. CASE Offload
    <3>1. Candidates # {} /\ Candidates \in SUBSET Resident /\ Candidates \subseteq Dirty
      BY <2>1 DEF Offload, MayOffload, Candidates, Dirty
    <3>2. Oldest(Candidates) \in Dirty BY <3>1, OldestIn DEF TypeOK
    <3>3. \A x \in Extents \ {Oldest(Candidates)} : spill'[x] = spill[x]
      BY <2>1 DEF Offload, TypeOK
    <3>4. QED BY <3>2, <3>3
  <2>2. CASE Worker
    <3>1. Head(jobs) = jobs[1] /\ 1 \in 1 .. Len(jobs)
      BY <2>2, HeadTail DEF Worker, TypeOK
    <3>2. Head(jobs).ext \in Dirty BY <3>1 DEF IInv, ChannelsOK
    <3>3. \A x \in Extents \ {Head(jobs).ext} : spill'[x] = spill[x]
      BY <2>2 DEF Worker, TypeOK
    <3>4. QED BY <3>2, <3>3
  <2>3. QED BY <2>1, <2>2
<1>2. UNCHANGED <<cache, base>> BY DEF Offload, Worker
<1>3. e \in Resident BY <1>1 DEF Dirty
<1>4. \A x \in Extents : View'[x] = View[x]
  BY <1>1, <1>2, <1>3 DEF View, Resident, Slots
<1>5. QED BY <1>4, ViewStill

\* A write changes what is read of its extent, in what was read before.
LEMMA TouchView ==
  ASSUME TypeOK, IInv, ReadsSeeWrites, Touch
  PROVE  /\ ReadsSeeWrites'
         /\ View' = View \/ \E c \in Contents : View' = [View EXCEPT ![at] = c]
<1>1. at \in Resident /\ at \in Extents /\ cache[at] \in Entry
  BY DEF Touch, IInv, ServedOK, TypeOK, Resident
<1>2. UNCHANGED <<spill, base>> /\ clock' \in Nat BY DEF Touch, TypeOK
<1>3. View[at] = cache[at].data BY <1>1, ViewAt
<1>4. View \in [Extents -> Contents] BY ViewType
<1>5. \A e \in Extents \ {at} : cache'[e] = cache[e] BY DEF Touch, TypeOK
<1>6. \A e \in Extents \ {at} : View'[e] = View[e]
  BY <1>2, <1>5 DEF View, Resident, Slots
<1>7. CASE op.kind = "write"
  <2> DEFINE c == Overwritten(cache[at].data, at, op)
  <2>1. c \in Contents BY <1>1, OverwrittenType DEF Entry, TypeOK
  <2>2. cache'[at] = [data |-> c, dirty |-> TRUE, used |-> clock', version |-> clock']
    BY <1>1, <1>7 DEF Touch, TypeOK
  <2> HIDE DEF c
  <2>3. cache'[at].data = c /\ at \in Resident'
    <3>1. cache'[at] \in Entry BY <1>2, <2>1, <2>2 DEF Entry
    <3>2. QED BY <1>1, <2>2, <3>1, MarksAssumption DEF Resident
  <2>4. View'[at] = c BY <1>1, <2>3 DEF View
  <2>5. View' = [View EXCEPT ![at] = c]
    <3>1. \A e \in Extents : View'[e] = [View EXCEPT ![at] = c][e]
      BY <1>1, <1>4, <1>6, <2>4
    <3>2. View' = [e \in Extents |-> View'[e]] BY DEF View
    <3>3. [View EXCEPT ![at] = c] = [e \in Extents |-> [View EXCEPT ![at] = c][e]]
      BY <1>4
    <3>4. QED BY <3>1, <3>2, <3>3
  <2>6. expected' = [View EXCEPT ![at] = c]
    <3>1. expected' = [expected EXCEPT ![at] = Overwritten(expected[at], at, op)]
      BY <1>7 DEF Touch
    <3>2. QED BY <1>3, <3>1 DEF ReadsSeeWrites, c
  <2>7. QED BY <2>1, <2>5, <2>6 DEF ReadsSeeWrites
<1>8. CASE op.kind # "write"
  <2>1. cache'[at] = [cache[at] EXCEPT !.used = clock'] /\ expected' = expected
    BY <1>1, <1>8 DEF Touch, TypeOK
  <2>2. cache'[at].data = cache[at].data /\ at \in Resident'
    <3>1. cache'[at] \in Entry BY <1>1, <1>2, <2>1 DEF Entry
    <3>2. QED BY <1>1, <2>1, <3>1, MarksAssumption DEF Resident, Entry
  <2>3. View'[at] = View[at] BY <1>1, <1>3, <2>2 DEF View
  <2>4. View' = View BY <1>6, <2>3, ViewStill
  <2>5. QED BY <2>1, <2>4 DEF ReadsSeeWrites
<1>9. QED BY <1>7, <1>8

\* A commit makes the disk what reads saw, or leaves all as it was.
LEMMA CommitView ==
  ASSUME TypeOK, IInv, Commit
  PROVE  View' = View /\ base' \in {base, View} /\ expected' = expected
<1>1. CASE UNCHANGED <<base, cache, spill>>
  BY <1>1 DEF Commit, View, Resident, Slots
<1>2. CASE ~UNCHANGED <<base, cache, spill>>
  <2>1. /\ base' = [e \in Extents |-> Altered(e)]
        /\ cache' = [e \in Extents |->
             IF e \in Resident THEN [cache[e] EXCEPT !.dirty = FALSE] ELSE Absent]
        /\ spill' = [e \in Extents |-> NoSlot]
    BY <1>2 DEF Commit, ReleaseSpill
  <2>2. ASSUME NEW e \in Extents PROVE Altered(e) = View[e]
    <3>1. CASE e \in Dirty BY <3>1, ViewAt DEF Altered, Dirty
    <3>2. CASE e \in Clean
      BY <3>2, ViewAt DEF Altered, IInv, CleanOK, Clean, Slots
    <3>3. CASE e \notin Resident
      BY <3>3, ViewAt DEF Altered, Dirty
    <3>4. QED BY <3>1, <3>2, <3>3 DEF Clean
  <2>3. base' = View BY <2>1, <2>2 DEF View
  <2>4. \A e \in Resident' : e \in Resident /\ cache'[e].data = cache[e].data
    <3>1. \A e \in Resident : cache[e] \in Entry BY DEF Resident, TypeOK
    <3>2. QED BY <2>1, <3>1 DEF Resident, Entry
  <2>5. \A e \in Extents : View'[e] = View[e]
    <3>1. SUFFICES ASSUME NEW e \in Extents PROVE View'[e] = View[e] OBVIOUS
    <3>2. base'[e] = View[e] /\ spill'[e] = NoSlot BY <2>1, <2>3
    <3>3. CASE e \in Resident'
      BY <2>4, <3>3, ViewAt DEF View
    <3>4. CASE e \notin Resident'
      BY <3>2, <3>4 DEF View, Slots
    <3>5. QED BY <3>3, <3>4
  <2>6. QED BY <2>3, <2>5, ViewStill DEF Commit
<1>3. QED BY <1>1, <1>2

LEMMA RollbackView ==
  ASSUME TypeOK, IInv, Rollback
  PROVE  View' = base /\ base' = base /\ expected' = base
<1>1. /\ cache' = [e \in Extents |-> IF e \in Clean THEN cache[e] ELSE Absent]
      /\ spill' = [e \in Extents |-> NoSlot] /\ base' = base /\ expected' = base
  BY DEF Rollback, ReleaseSpill
<1>2. \A e \in Resident' : e \in Clean /\ cache'[e].data = base[e]
  BY <1>1 DEF Resident, IInv, CleanOK
<1>3. \A e \in Extents : View'[e] = base[e]
  BY <1>1, <1>2 DEF View, Slots
<1>4. base = [e \in Extents |-> base[e]] BY DEF TypeOK
<1>5. View' = [e \in Extents |-> View'[e]] BY DEF View
<1>6. QED BY <1>1, <1>3, <1>4, <1>5

\* Every step is a step of the buffered disk or one that it does not see, and
\* leaves reads what they must be.
LEMMA BufferedStep ==
  ASSUME TypeOK, IInv, ReadsSeeWrites, SpillsHold, [Next]_vars
  PROVE  ReadsSeeWrites' /\ [Buffered!Next]_<<View, base>>
<1>1. CASE UNCHANGED vars \/ Calls \/ Hit \/ OffloadDone
  <2>1. UNCHANGED <<cache, spill, base, expected>>
    BY <1>1 DEF vars, Calls, Begin, BeginCommit, BeginRollback, Hit, OffloadDone, store
  <2>2. View' = View BY <2>1 DEF View, Resident, Slots
  <2>3. QED BY <2>1, <2>2 DEF ReadsSeeWrites
<1>2. CASE Drain \/ EvictJoin \/ JoinOffloads
  <2>1. UNCHANGED <<spill, base, expected>> BY <1>2 DEF Drain, EvictJoin, JoinOffloads
  <2>2. ApplyOffload \/ UNCHANGED cache BY <1>2 DEF Drain, EvictJoin, JoinOffloads
  <2>3. View' = View
    <3>1. CASE ApplyOffload BY <2>1, <3>1, ApplyOffloadView
    <3>2. CASE UNCHANGED cache BY <2>1, <3>2 DEF View, Resident, Slots
    <3>3. QED BY <2>2, <3>1, <3>2
  <2>4. QED BY <2>1, <2>3 DEF ReadsSeeWrites
<1>3. CASE EvictClean \/ EvictDirty
  <2>1. UNCHANGED <<base, expected>> BY <1>3 DEF EvictClean, EvictDirty
  <2>2. QED BY <1>3, <2>1, EvictView DEF ReadsSeeWrites
<1>4. CASE Load
  BY <1>4, LoadView DEF Load, ReadsSeeWrites
<1>5. CASE Touch
  <2>1. base' = base /\ at \in Extents BY <1>5 DEF Touch, TypeOK
  <2>2. QED BY <1>5, <2>1, TouchView DEF Buffered!Next, Buffered!Write
<1>6. CASE Offload \/ Worker
  <2>1. UNCHANGED <<base, expected>> BY <1>6 DEF Offload, Worker
  <2>2. QED BY <1>6, <2>1, WorkerView DEF ReadsSeeWrites
<1>7. CASE Commit
  <2>1. View' = View /\ expected' = expected /\ (base' = base \/ base' = View)
    BY <1>7, CommitView
  <2>2. QED BY <2>1 DEF ReadsSeeWrites, Buffered!Next, Buffered!Commit
<1>8. CASE Rollback
  BY <1>8, RollbackView DEF ReadsSeeWrites, Buffered!Next, Buffered!Rollback
<1>9. QED
  BY <1>1, <1>2, <1>3, <1>4, <1>5, <1>6, <1>7, <1>8 DEF Next, Session

LEMMA BufferedInit ==
  ASSUME Init
  PROVE  ReadsSeeWrites /\ Buffered!Init
<1>1. Resident = {} /\ Slots = {} BY DEF Init, Resident, Slots
<1>2. base \in [Extents -> Contents] /\ expected = base BY DEF Init
<1>3. View = base BY <1>1, <1>2 DEF View
<1>4. QED BY <1>2, <1>3 DEF ReadsSeeWrites, Buffered!Init

\* Reads see the session's own writes and nothing else, wherever each extent
\* is (cache.rs:443-447).
THEOREM ReadsTheorem == SpillsHold => (Spec => []ReadsSeeWrites)
<1> SUFFICES ASSUME SpillsHold PROVE Spec => []ReadsSeeWrites
  OBVIOUS
<1>1. Init => ReadsSeeWrites BY BufferedInit
<1>2. TypeOK /\ IInv /\ ReadsSeeWrites /\ [Next]_vars => ReadsSeeWrites'
  BY BufferedStep
<1>3. QED BY <1>1, <1>2, CacheTheorem, PTL DEF Spec

\* The cache implements a buffered disk: what is evicted, spilled, offloaded
\* and joined is not to be seen in what reads and the disk show.
THEOREM BufferedTheorem == SpillsHold => (Spec => BufferedSpec)
<1> SUFFICES ASSUME SpillsHold PROVE Spec => BufferedSpec
  OBVIOUS
<1>1. Init => Buffered!Init BY BufferedInit
<1>2. TypeOK /\ IInv /\ ReadsSeeWrites /\ [Next]_vars => [Buffered!Next]_<<View, base>>
  <2>1. SUFFICES ASSUME TypeOK, IInv, ReadsSeeWrites, [Next]_vars
                 PROVE  [Buffered!Next]_<<View, base>>
    OBVIOUS
  <2>2. QED BY <2>1, BufferedStep, Zenon
<1>3. QED BY <1>1, <1>2, CacheTheorem, ReadsTheorem, PTL DEF Spec, BufferedSpec, Buffered!Spec
=============================================================================
