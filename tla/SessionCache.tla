---------------------------- MODULE SessionCache ----------------------------
(***************************************************************************)
(* The bounded session cache over one virtual disk                         *)
(* (crates/remanence/src/io/cache.rs): demand loading, eviction by         *)
(* recency, spilling to private session storage, and the worker thread     *)
(* that spills ahead of memory pressure.                                   *)
(*                                                                         *)
(* The disk is a row of blocks grouped into extents.  The session's thread *)
(* runs one call at a time, in the steps between which the worker can be   *)
(* seen; the worker takes jobs from one channel and answers in another.    *)
(***************************************************************************)
EXTENDS Integers, Sequences, FiniteSets

CONSTANTS
  NExtents,        \* extents of the virtual disk
  ExtentBlocks,    \* blocks per extent (EXTENT)
  Vals,            \* block contents
  Absent, NoSlot, Blank,   \* not resident; no slot; a slot never written
  Bound,           \* resident extents allowed
  Offloading,      \* TRUE: with_bytes_offloading
  OffloadFloor,    \* the least bound that offloads (4 in the code)
  InFlightMax,     \* OFFLOAD_IN_FLIGHT (4 in the code)
  FaultKinds,      \* host calls that may fail
  MaxFaults,       \* bound: failed calls in a behaviour
  MaxClock,        \* bound: recency stamps in a behaviour
  MaxSpan          \* bound: blocks in one read or write

AllFaults == {"baseRead", "spillCreate", "spillWrite", "spillRead",
              "offloadCreate", "offloadWrite", "writeThrough"}

Extents  == 0 .. NExtents - 1
Blocks   == 0 .. NExtents * ExtentBlocks - 1
Contents == [0 .. ExtentBlocks - 1 -> Vals]
Entry    == [data : Contents, dirty : BOOLEAN, used : Nat, version : Nat]

ASSUME SizesAssumption ==
  /\ NExtents \in Nat \ {0} /\ ExtentBlocks \in Nat \ {0}
  /\ Bound \in Nat \ {0} /\ OffloadFloor \in Nat /\ InFlightMax \in Nat \ {0}
  /\ MaxFaults \in Nat /\ MaxClock \in Nat /\ MaxSpan \in Nat \ {0}
ASSUME ValsAssumption == Vals # {}
ASSUME KindsAssumption == Offloading \in BOOLEAN /\ FaultKinds \subseteq AllFaults
ASSUME MarksAssumption ==
  /\ Absent \notin Entry
  /\ NoSlot \notin Contents /\ Blank \notin Contents /\ NoSlot # Blank

VARIABLES
  cache,        \* resident: the entry of each extent, or Absent
  clock,        \* the last stamp handed out
  spill,        \* what each extent's slot holds
  spillOpen,    \* whether the spill file exists
  enabled,      \* offload_enabled
  inFlight,     \* version handed to a job in flight, 0 for none
  prespilled,   \* version whose slot the worker wrote, 0 for none
  jobs, done,   \* the channels to the worker and back
  base,         \* what the virtual disk holds
  pc, op, at,   \* the step being run, its call, the extent it is serving
  result,       \* what the last call returned
  expected,     \* history: what reads must return
  faults

worker == <<inFlight, prespilled, jobs, done>>
store  == <<cache, spill, spillOpen, enabled>>
call   == <<pc, op, at, result>>
vars   == <<store, clock, worker, base, call, expected, faults>>

-----------------------------------------------------------------------------

ExtentOf(b) == b \div ExtentBlocks
Resident    == {e \in Extents : cache[e] # Absent}
Dirty       == {e \in Resident : cache[e].dirty}
Clean       == Resident \ Dirty
InFlight    == {e \in Extents : inFlight[e] # 0}
Slots       == {e \in Extents : spill[e] # NoSlot}

\* modified: altered extents exist, resident or spilled.
Modified == Dirty # {} \/ Slots # {}

\* The least recently used of a set of resident extents.
Oldest(S) == CHOOSE e \in S : \A d \in S : cache[e].used <= cache[d].used

\* An extent's blocks with those of the call's span overwritten.
Overwritten(c, e, o) ==
  [i \in 0 .. ExtentBlocks - 1 |->
     IF e * ExtentBlocks + i \in o.from .. o.to THEN o.val ELSE c[i]]

\* What the altered set holds of extent e: a resident copy is the newest.
Altered(e) ==
  IF e \in Dirty THEN cache[e].data
  ELSE IF e \in Slots THEN spill[e] ELSE base[e]

\* What a read of extent e returns now.
View == [e \in Extents |-> IF e \in Resident THEN cache[e].data
                           ELSE IF e \in Slots THEN spill[e] ELSE base[e]]

Job  == [ext : Extents, version : Nat, data : Contents]
Done == [ext : Extents, version : Nat, ok : BOOLEAN]
NoOp == [kind |-> "none", from |-> 0, to |-> 0, val |-> CHOOSE v \in Vals : TRUE]

TypeOK ==
  /\ cache \in [Extents -> Entry \cup {Absent}]
  /\ clock \in Nat
  /\ spill \in [Extents -> Contents \cup {NoSlot, Blank}]
  /\ spillOpen \in BOOLEAN /\ enabled \in BOOLEAN
  /\ inFlight \in [Extents -> Nat] /\ prespilled \in [Extents -> Nat]
  /\ jobs \in Seq(Job) /\ done \in Seq(Done)
  /\ base \in [Extents -> Contents]
  /\ pc \in {"idle", "drain", "serve", "touch", "offload", "commit", "rollback"}
  /\ op \in [kind : {"none", "read", "write"}, from : Blocks, to : Blocks, val : Vals]
  /\ at \in Extents
  /\ result \in {"none", "ok", "err"}
  /\ expected \in [Extents -> Contents]
  /\ faults \in Nat

Init ==
  /\ base \in [Extents -> Contents]
  /\ cache = [e \in Extents |-> Absent] /\ clock = 0
  /\ spill = [e \in Extents |-> NoSlot] /\ spillOpen = FALSE
  /\ enabled = Offloading
  /\ inFlight = [e \in Extents |-> 0] /\ prespilled = [e \in Extents |-> 0]
  /\ jobs = <<>> /\ done = <<>>
  /\ pc = "idle" /\ op = NoOp /\ at = 0 /\ result = "none"
  /\ expected = base
  /\ faults = 0

Works    == UNCHANGED faults
Fails(k) == k \in FaultKinds /\ faults < MaxFaults /\ faults' = faults + 1

\* The call returns its error; what it has done so far stays.
Refuse ==
  /\ pc' = "idle" /\ op' = NoOp /\ at' = 0 /\ result' = "err"

-----------------------------------------------------------------------------
(* read_at and write_at *)

Begin(kind, from, to, v) ==
  /\ pc = "idle"
  /\ from <= to /\ to < from + MaxSpan
  /\ clock + 2 * (ExtentOf(to) - ExtentOf(from) + 1) <= MaxClock
  /\ op' = [kind |-> kind, from |-> from, to |-> to, val |-> v]
  /\ at' = ExtentOf(from)
  /\ pc' = "drain" /\ result' = "none"
  /\ UNCHANGED <<store, clock, worker, base, expected, faults>>

\* Mutant of ApplyOffload: the versions are not compared.
ApplyOffloadUnchecked ==
  LET d == Head(done) IN
  /\ done # <<>>
  /\ done' = Tail(done)
  /\ inFlight' = [inFlight EXCEPT ![d.ext] = 0]
  /\ IF d.ok /\ d.ext \in Dirty
       THEN /\ prespilled' = [prespilled EXCEPT ![d.ext] = d.version]
            /\ cache' = [cache EXCEPT ![d.ext] = Absent]
       ELSE UNCHANGED <<prespilled, cache>>
  /\ UNCHANGED jobs

\* Mutants of ApplyOffload: the completion is looked at and not taken, and an
\* outdated completion stays in flight.
ApplyOffloadPeeks ==
  /\ done # <<>>
  /\ inFlight' = [inFlight EXCEPT ![Head(done).ext] = 0]
  /\ UNCHANGED <<prespilled, cache, jobs, done>>
ApplyOffloadKeeps ==
  LET d == Head(done) IN
  /\ done # <<>>
  /\ done' = Tail(done)
  /\ IF d.ok /\ d.ext \in Dirty /\ cache[d.ext].version = d.version
       THEN /\ inFlight' = [inFlight EXCEPT ![d.ext] = 0]
            /\ prespilled' = [prespilled EXCEPT ![d.ext] = d.version]
            /\ cache' = [cache EXCEPT ![d.ext] = Absent]
       ELSE UNCHANGED <<inFlight, prespilled, cache>>
  /\ UNCHANGED jobs

\* apply_offload: a completed job whose extent has not changed since lets the
\* extent leave memory; any other completion changes nothing.
ApplyOffload ==
  LET d == Head(done)
      current == /\ inFlight[d.ext] = d.version /\ d.ok
                 /\ d.ext \in Dirty /\ cache[d.ext].version = d.version
  IN /\ done # <<>>
     /\ done' = Tail(done)
     /\ inFlight' = [inFlight EXCEPT ![d.ext] = 0]
     /\ IF current
          THEN /\ prespilled' = [prespilled EXCEPT ![d.ext] = d.version]
               /\ cache' = [cache EXCEPT ![d.ext] = Absent]
          ELSE UNCHANGED <<prespilled, cache>>
     /\ UNCHANGED jobs

\* drain_offloads: whatever has finished, without blocking.
Drain ==
  /\ pc = "drain"
  /\ IF done # <<>>
       THEN ApplyOffload /\ UNCHANGED pc
       ELSE pc' = "serve" /\ UNCHANGED <<cache, worker>>
  /\ UNCHANGED <<clock, spill, spillOpen, enabled, base, op, at, result, expected, faults>>

\* make_room runs while the extent is missing and the bound is reached.
Crowded == pc = "serve" /\ at \notin Resident /\ Cardinality(Resident) >= Bound

EvictClean ==
  /\ Crowded /\ Clean # {}
  /\ cache' = [cache EXCEPT ![Oldest(Clean)] = Absent]
  /\ UNCHANGED <<clock, spill, spillOpen, enabled, worker, base, call, expected, faults>>

\* Mutant of EvictDirty: an extent being offloaded is dropped, not spilled.
EvictDirtyInFlight ==
  LET e == Oldest(Dirty) IN
  /\ Crowded /\ Clean = {} /\ Dirty # {}
  /\ Works
  /\ cache' = [cache EXCEPT ![e] = Absent]
  /\ spillOpen' = TRUE
  /\ spill' = IF e \in InFlight THEN spill ELSE [spill EXCEPT ![e] = cache[e].data]
  /\ UNCHANGED <<prespilled, call>>
  /\ UNCHANGED <<clock, enabled, inFlight, jobs, done, base, expected>>

\* With every resident extent altered, the oldest not in flight is spilled.
EvictDirty ==
  LET e == Oldest(Dirty \ InFlight) IN
  /\ Crowded /\ Clean = {} /\ Dirty \ InFlight # {}
  /\ cache' = [cache EXCEPT ![e] = Absent]
  /\ \/ /\ prespilled[e] = cache[e].version
        /\ Works
        /\ prespilled' = [prespilled EXCEPT ![e] = 0]
        /\ UNCHANGED <<spill, spillOpen, call>>
     \/ /\ prespilled[e] # cache[e].version
        /\ Works
        /\ spillOpen' = TRUE
        /\ spill' = [spill EXCEPT ![e] = cache[e].data]
        /\ UNCHANGED <<prespilled, call>>
     \/ /\ prespilled[e] # cache[e].version /\ ~spillOpen
        /\ Fails("spillCreate") /\ Refuse
        /\ UNCHANGED <<spill, spillOpen, prespilled>>
     \/ /\ prespilled[e] # cache[e].version
        /\ Fails("spillWrite") /\ Refuse
        /\ spillOpen' = TRUE
        /\ spill' = [spill EXCEPT ![e] = IF @ = NoSlot THEN Blank ELSE @]
        /\ UNCHANGED prespilled
  /\ UNCHANGED <<clock, enabled, inFlight, jobs, done, base, expected>>

\* Every candidate is being offloaded: join_one blocks for one completion.
EvictJoin ==
  /\ Crowded /\ Clean = {} /\ Dirty \subseteq InFlight
  /\ ApplyOffload
  /\ UNCHANGED <<clock, spill, spillOpen, enabled, base, call, expected, faults>>

\* Mutant of Load: no room is made.
LoadCrowded ==
  LET from == IF at \in Slots THEN spill[at] ELSE base[at] IN
  /\ pc = "serve" /\ at \notin Resident
  /\ Works
  /\ clock' = clock + 1
  /\ cache' = [cache EXCEPT ![at] =
        [data |-> from, dirty |-> at \in Slots, used |-> clock', version |-> clock']]
  /\ pc' = "touch"
  /\ UNCHANGED <<op, at, result, spill, spillOpen, enabled, worker, base, expected>>

\* ensure_resident: from the slot, still altered, else from the virtual disk.
\* A slot that was reserved and never written reads as an error or as zeros.
Load ==
  LET from == IF at \in Slots THEN spill[at] ELSE base[at] IN
  /\ pc = "serve" /\ at \notin Resident /\ Cardinality(Resident) < Bound
  /\ \/ /\ Works
        /\ clock' = clock + 1
        /\ \E c \in Contents :
             /\ from # Blank => c = from
             /\ cache' = [cache EXCEPT ![at] =
                  [data |-> c, dirty |-> at \in Slots, used |-> clock', version |-> clock']]
        /\ pc' = "touch"
        /\ UNCHANGED <<op, at, result>>
     \/ /\ IF at \in Slots THEN Fails("spillRead") ELSE Fails("baseRead")
        /\ Refuse
        /\ UNCHANGED <<clock, cache>>
     \/ /\ from = Blank /\ Works
        /\ Refuse
        /\ UNCHANGED <<clock, cache>>
  /\ UNCHANGED <<spill, spillOpen, enabled, worker, base, expected>>

Hit ==
  /\ pc = "serve" /\ at \in Resident
  /\ pc' = "touch"
  /\ UNCHANGED <<store, clock, worker, base, op, at, result, expected, faults>>

\* Mutant of Touch: the span's last extent is not its end.
TouchPastSpan ==
  /\ pc = "touch"
  /\ clock' = clock + 1
  /\ at' = at + 1 /\ pc' = "serve"
  /\ UNCHANGED <<store, worker, base, op, result, expected, faults>>

\* The extent is stamped, and a write alters it; then the next of the span.
Touch ==
  /\ pc = "touch"
  /\ clock' = clock + 1
  /\ IF op.kind = "write"
       THEN /\ cache' = [cache EXCEPT ![at] =
                 [data |-> Overwritten(@.data, at, op), dirty |-> TRUE,
                  used |-> clock', version |-> clock']]
            /\ expected' = [expected EXCEPT ![at] = Overwritten(@, at, op)]
       ELSE /\ cache' = [cache EXCEPT ![at].used = clock']
            /\ UNCHANGED expected
  /\ IF at < ExtentOf(op.to)
       THEN pc' = "serve" /\ at' = at + 1 /\ UNCHANGED <<op, result>>
       ELSE IF op.kind = "write"
         THEN pc' = "offload" /\ UNCHANGED <<op, at, result>>
         ELSE pc' = "idle" /\ op' = NoOp /\ at' = 0 /\ result' = "ok"
  /\ UNCHANGED <<spill, spillOpen, enabled, worker, base, faults>>

-----------------------------------------------------------------------------
(* maybe_offload *)

HighWater == Bound - Bound \div 8
Candidates == {e \in Dirty \ InFlight : prespilled[e] # cache[e].version}
MayOffload == /\ enabled /\ Bound >= OffloadFloor
              /\ Cardinality(InFlight) < InFlightMax /\ Candidates # {}

\* The high-water mark is tested once, on entry; a hand-off removes nothing
\* from memory, so testing it before each is the same.
NearBound == Cardinality(Resident) >= HighWater

\* One extent handed to the worker, its slot reserved; silent where the spill
\* file cannot be made.
Offload ==
  LET e == Oldest(Candidates) IN
  /\ pc = "offload" /\ NearBound /\ MayOffload
  /\ \/ /\ Works
        /\ spillOpen' = TRUE
        /\ spill' = [spill EXCEPT ![e] = IF @ = NoSlot THEN Blank ELSE @]
        /\ jobs' = Append(jobs, [ext |-> e, version |-> cache[e].version, data |-> cache[e].data])
        /\ inFlight' = [inFlight EXCEPT ![e] = cache[e].version]
        /\ UNCHANGED enabled
     \/ /\ ~spillOpen /\ Fails("offloadCreate")
        /\ enabled' = FALSE
        /\ UNCHANGED <<spill, spillOpen, jobs, inFlight>>
  /\ UNCHANGED <<cache, clock, prespilled, done, base, call, expected>>

OffloadDone ==
  /\ pc = "offload" /\ ~(NearBound /\ MayOffload)
  /\ pc' = "idle" /\ op' = NoOp /\ at' = 0 /\ result' = "ok"
  /\ UNCHANGED <<store, clock, worker, base, expected, faults>>

\* The worker thread: the oldest job's slot is written and answered.  A failed
\* write may leave the slot as it was or torn.
Worker ==
  LET j == Head(jobs) IN
  /\ jobs # <<>>
  /\ jobs' = Tail(jobs)
  /\ \/ /\ Works
        /\ spill' = [spill EXCEPT ![j.ext] = j.data]
        /\ done' = Append(done, [ext |-> j.ext, version |-> j.version, ok |-> TRUE])
     \/ /\ Fails("offloadWrite")
        /\ spill' \in {spill, [spill EXCEPT ![j.ext] = Blank]}
        /\ done' = Append(done, [ext |-> j.ext, version |-> j.version, ok |-> FALSE])
  /\ UNCHANGED <<cache, clock, spillOpen, enabled, inFlight, prespilled, base, call, expected>>

-----------------------------------------------------------------------------
(* Commit and rollback: both join the offloads in flight first *)

BeginCommit ==
  /\ pc = "idle" /\ Modified
  /\ pc' = "commit" /\ result' = "none"
  /\ UNCHANGED <<store, clock, worker, base, op, at, expected, faults>>

BeginRollback ==
  /\ pc = "idle"
  /\ pc' = "rollback" /\ result' = "none"
  /\ UNCHANGED <<store, clock, worker, base, op, at, expected, faults>>

JoinOffloads ==
  /\ pc \in {"commit", "rollback"} /\ InFlight # {}
  /\ ApplyOffload
  /\ UNCHANGED <<clock, spill, spillOpen, enabled, base, call, expected, faults>>

ReleaseSpill ==
  /\ spill' = [e \in Extents |-> NoSlot] /\ spillOpen' = FALSE
  /\ prespilled' = [e \in Extents |-> 0]

\* Mutant of Commit: spilled extents are written over resident ones.
CommitSlotsFirst ==
  /\ pc = "commit" /\ InFlight = {}
  /\ Works
  /\ base' = [e \in Extents |-> IF e \in Slots /\ spill[e] # Blank THEN spill[e] ELSE Altered(e)]
  /\ cache' = [e \in Extents |->
       IF e \in Resident THEN [cache[e] EXCEPT !.dirty = FALSE] ELSE Absent]
  /\ ReleaseSpill
  /\ pc' = "idle" /\ result' = "ok"
  /\ UNCHANGED <<clock, enabled, inFlight, jobs, done, op, at, expected>>

\* write_through to a capture, applied whole or not at all (CommitJournal),
\* then mark_committed; a slot never written cannot be read back.
Commit ==
  /\ pc = "commit" /\ InFlight = {}
  /\ \/ /\ Works
        /\ \A e \in Extents : Altered(e) # Blank
        /\ base' = [e \in Extents |-> Altered(e)]
        /\ cache' = [e \in Extents |->
             IF e \in Resident THEN [cache[e] EXCEPT !.dirty = FALSE] ELSE Absent]
        /\ ReleaseSpill
        /\ pc' = "idle" /\ result' = "ok"
     \/ /\ \/ Fails("writeThrough")
           \/ Works /\ \E e \in Extents : Altered(e) = Blank
        /\ pc' = "idle" /\ result' = "err"
        /\ UNCHANGED <<base, cache, spill, spillOpen, prespilled>>
  /\ UNCHANGED <<clock, enabled, inFlight, jobs, done, op, at, expected>>

\* discard_dirty
Rollback ==
  /\ pc = "rollback" /\ InFlight = {}
  /\ cache' = [e \in Extents |-> IF e \in Clean THEN cache[e] ELSE Absent]
  /\ ReleaseSpill
  /\ expected' = base
  /\ pc' = "idle" /\ result' = "ok"
  /\ UNCHANGED <<clock, enabled, inFlight, jobs, done, base, op, at, faults>>

-----------------------------------------------------------------------------

Session ==
  \/ Drain \/ EvictClean \/ EvictDirty \/ EvictJoin \/ Load \/ Hit \/ Touch
  \/ Offload \/ OffloadDone
  \/ JoinOffloads \/ Commit \/ Rollback

Calls ==
  \/ \E from, to \in Blocks, v \in Vals : Begin("write", from, to, v)
  \/ \E from, to \in Blocks : Begin("read", from, to, NoOp.val)
  \/ BeginCommit \/ BeginRollback

Next == Calls \/ Session \/ Worker

Spec == Init /\ [][Next]_vars

\* A call that has begun runs on, and the worker is a thread of its own that
\* the host schedules: neither ever waits for the caller's next call.
FairSpec == Spec /\ WF_vars(Session) /\ WF_vars(Worker)

-----------------------------------------------------------------------------
(* Properties *)

\* Reads see the session's own writes and nothing else, wherever each extent
\* is: in memory, in flight, in its slot or on the disk (cache.rs:443-447,
\* "Altered data is never lost to eviction").
ReadsSeeWrites == View = expected

\* The resident working set never exceeds the declared bound (cache.rs:38-40).
WithinBound == Cardinality(Resident) <= Bound

\* A slot has one user at a time: while the worker may write one, the extent
\* is altered and resident, so the session neither reads nor writes the slot,
\* and no extent is handed out twice (cache.rs:446-447).
WorkerOwnsSlot ==
  \A i \in 1 .. Len(jobs) :
    /\ jobs[i].ext \in Dirty /\ inFlight[jobs[i].ext] = jobs[i].version
    /\ \A k \in 1 .. Len(jobs) : jobs[k].ext = jobs[i].ext => k = i

\* An unmodified session holds exactly what the disk holds: nothing a commit
\* would then skip (commit.rs:45-47) is lost.
UnmodifiedIsSaved == ~Modified => View = base

\* What is handed back is only ever as new as what was handed out.
OffloadsAreTracked ==
  \A e \in Extents :
    inFlight[e] # 0 <=>
      \/ \E i \in 1 .. Len(jobs) : jobs[i].ext = e
      \/ \E i \in 1 .. Len(done) : done[i].ext = e

\* Every call returns: making room and joining never wait for a completion
\* that is not coming.
CallsReturn == pc # "idle" ~> pc = "idle"

\* The cache is a buffered disk.
Buffered == INSTANCE BufferedDisk
  WITH Places <- Extents, view <- View, saved <- base
BufferedSpec == Buffered!Spec

-----------------------------------------------------------------------------
(* The inductive invariant behind these *)

\* Versions are stamps, each given once: what the worker wrote before an
\* extent came back to memory is never taken for what it holds now.
VersionsOK ==
  /\ \A e \in Resident : cache[e].version \in 1 .. clock
  /\ \A e \in Extents : prespilled[e] <= clock
  /\ \A e \in Resident : prespilled[e] # cache[e].version

\* An extent handed out stays altered and resident until its completion is
\* taken, and is with the worker once; an answer of the version still held
\* means that the slot holds it.
ChannelsOK ==
  /\ \A i \in 1 .. Len(jobs) :
       /\ jobs[i].ext \in Dirty
       /\ inFlight[jobs[i].ext] = jobs[i].version /\ jobs[i].version \in 1 .. clock
       /\ cache[jobs[i].ext].version = jobs[i].version =>
            cache[jobs[i].ext].data = jobs[i].data
  /\ \A i \in 1 .. Len(done) :
       /\ done[i].ext \in Dirty
       /\ inFlight[done[i].ext] = done[i].version /\ done[i].version \in 1 .. clock
       /\ done[i].ok /\ cache[done[i].ext].version = done[i].version =>
            spill[done[i].ext] = cache[done[i].ext].data
  /\ \A i, k \in 1 .. Len(jobs) : jobs[i].ext = jobs[k].ext => i = k
  /\ \A i, k \in 1 .. Len(done) : done[i].ext = done[k].ext => i = k
  /\ \A i \in 1 .. Len(jobs), k \in 1 .. Len(done) : jobs[i].ext # done[k].ext

\* What was never altered has no slot, and is what the disk holds.
CleanOK == \A e \in Clean : spill[e] = NoSlot /\ cache[e].data = base[e]

\* The extent a call is about to stamp is in memory, within the bound.
ServedOK == pc = "touch" => at \in Resident

IInv == VersionsOK /\ ChannelsOK /\ CleanOK /\ ServedOK
=============================================================================
