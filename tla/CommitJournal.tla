---------------------------- MODULE CommitJournal ----------------------------
(***************************************************************************)
(* The durable commit point and the undo journal beneath it                *)
(* (crates/remanence/src/model/disk/commit.rs and io/journal.rs, with the  *)
(* file primitives of io/device.rs).                                       *)
(*                                                                         *)
(* One image file, its recovery sidecar, and one session that opens,       *)
(* commits, fails, crashes and reopens.  Every file is modelled twice: as  *)
(* the host's page cache shows it to a process, and as stable storage      *)
(* holds it.  A process crash keeps the first, a power loss only the       *)
(* second; unsynced writes reach stable storage in any order, at any time. *)
(* A format driver is any write set: whichever image a write-through       *)
(* stages, with whichever extents it dirties.                              *)
(*                                                                         *)
(* An image is a length in blocks and the content of every block, zero     *)
(* past the length, so that a hole reads as zeros.                         *)
(***************************************************************************)
EXTENDS Integers

CONSTANTS
  MaxBlocks,      \* blocks a host file can hold
  ExtentBlocks,   \* blocks per capture extent (EXTENT)
  Vals,           \* block contents
  Zero,           \* the content of a block never written
  ParentSync,     \* TRUE: syncing the parent directory works (sync_parent)
  FaultKinds,     \* host calls that may fail
  MaxFaults,      \* bound: failed calls in a behaviour
  MaxCommits,     \* bound: commits in a behaviour
  MaxCrashes      \* bound: process crashes and power losses in a behaviour

AllFaults == {"stage", "create", "write", "read", "recordSync", "imageSync",
              "truncate", "retireSync", "remove"}

ASSUME SizesAssumption == /\ MaxBlocks \in Nat \ {0}
                          /\ ExtentBlocks \in Nat \ {0}
ASSUME ValsAssumption  == Zero \in Vals
ASSUME FaultAssumption == /\ FaultKinds \subseteq AllFaults
                          /\ ParentSync \in BOOLEAN
                          /\ MaxFaults \in Nat
                          /\ MaxCommits \in Nat
                          /\ MaxCrashes \in Nat

VARIABLES
  img, durImg,        \* the image file: as read, and on stable storage
  side, durSide,      \* the sidecar's content: as read, and on stable storage
  sideExists,         \* whether the sidecar's name exists
  durEntry,           \* whether that name is on stable storage
  pc, cont,           \* the step being run, and what follows its subroutine
  todo,               \* blocks the running loop has still to write
  staged,             \* the capture of the commit in progress
  driver,             \* the image the driver's cached tables describe
  modified,           \* whether the session holds uncommitted writes
  failed,             \* MediaState::failed
  result,             \* what the last commit of this session returned
  promised,           \* history: what the last acknowledged commit left
  candidates,         \* history: promised, and what was staged since
  faults, commits, crashes

disk     == <<img, durImg, side, durSide, sideExists, durEntry>>
session  == <<modified, driver, failed, result>>
history  == <<promised, candidates>>
counters == <<faults, commits, crashes>>
vars     == <<disk, pc, cont, todo, staged, session, history, counters>>

-----------------------------------------------------------------------------
(* Images *)

Blocks   == 0 .. MaxBlocks - 1
Lengths  == 0 .. MaxBlocks
Contents == [Blocks -> Vals]
RawImage == [len : Lengths, data : Contents]
Canonical(i) == \A b \in Blocks : b >= i.len => i.data[b] = Zero
Image    == {i \in RawImage : Canonical(i)}

Longer(m, n) == IF m > n THEN m ELSE n

\* write_at on the file: a write past the end grows it.
WriteBlock(i, b, v) ==
  [len |-> Longer(i.len, b + 1), data |-> [i.data EXCEPT ![b] = v]]

\* Mutant of SetLen: the tail beyond the new length survives.
SetLenKeepsTail(i, n) == [len |-> n, data |-> i.data]

\* set_len on the file.
SetLen(i, n) ==
  [len |-> n, data |-> [b \in Blocks |-> IF b < n THEN i.data[b] ELSE Zero]]

ExtentOf(b) == b \div ExtentBlocks
Extents     == {ExtentOf(b) : b \in Blocks}
BlocksIn(E, n) == {b \in Blocks : ExtentOf(b) \in E /\ b < n}

\* What a driver's write-through can leave in a capture over image i: the
\* image it would become and the extents it dirtied on the way.
Stageable(i, t, E) ==
  /\ t.len >= i.len
  /\ \A b \in Blocks : t.data[b] # i.data[b] => ExtentOf(b) \in E
  /\ t.len > i.len => ExtentOf(t.len - 1) \in E

-----------------------------------------------------------------------------
(* The sidecar *)

Torn == [armed |-> FALSE, origLen |-> 0, newLen |-> 0, covers |-> {},
         undo |-> [b \in Blocks |-> Zero]]

Journal == [armed : BOOLEAN, origLen : Lengths, newLen : Lengths,
            covers : SUBSET Blocks, undo : Contents]

\* Mutants of JournalFor: the header names the old length twice, and the last
\* block of the old image is left out.
JournalForOldLength(i, s) ==
  [armed |-> TRUE, origLen |-> i.len, newLen |-> i.len,
   covers |-> BlocksIn(s.extents, i.len), undo |-> i.data]
JournalForShort(i, s) ==
  [armed |-> TRUE, origLen |-> i.len, newLen |-> s.image.len,
   covers |-> BlocksIn(s.extents, i.len - 1), undo |-> i.data]

\* record: the bytes the apply will overwrite, as they are now.
JournalFor(i, s) ==
  [armed |-> TRUE, origLen |-> i.len, newLen |-> s.image.len,
   covers |-> BlocksIn(s.extents, i.len), undo |-> i.data]

\* The image a completed reconciliation from journal j leaves.
Restored(i, j) ==
  [len  |-> j.origLen,
   data |-> [b \in Blocks |-> IF b >= j.origLen THEN Zero
                              ELSE IF b \in j.covers THEN j.undo[b]
                              ELSE i.data[b]]]

\* What the next open exposes, from the files as they are now ...
Recovered == IF sideExists /\ side.armed THEN Restored(img, side) ELSE img
\* ... and from stable storage alone, after a power loss.
DurableRecovered ==
  IF durEntry /\ durSide.armed THEN Restored(durImg, durSide) ELSE durImg

-----------------------------------------------------------------------------

Nothing == [image |-> [len |-> 0, data |-> [b \in Blocks |-> Zero]],
            extents |-> {},
            before |-> [len |-> 0, data |-> [b \in Blocks |-> Zero]]]

Steps == {"closed", "idle", "staged", "recording", "sealing", "apply",
          "retire", "retireSync", "retireRemove", "reconcile", "restore"}
Continuations == {"none", "commit", "recordFailed", "undo", "open"}

TypeOK ==
  /\ img \in Image /\ durImg \in Image
  /\ side \in Journal /\ durSide \in Journal
  /\ sideExists \in BOOLEAN /\ durEntry \in BOOLEAN
  /\ pc \in Steps /\ cont \in Continuations
  /\ todo \in SUBSET Blocks
  /\ staged \in [image : Image, extents : SUBSET Extents, before : Image]
  /\ driver \in Image
  /\ modified \in BOOLEAN /\ failed \in BOOLEAN
  /\ result \in {"none", "ok", "err"}
  /\ promised \in Image /\ candidates \in SUBSET Image
  /\ faults \in Nat /\ commits \in Nat /\ crashes \in Nat

Init ==
  /\ img \in Image
  /\ durImg = img
  /\ side = Torn /\ durSide = Torn
  /\ sideExists = FALSE /\ durEntry = FALSE
  /\ pc = "closed" /\ cont = "none" /\ todo = {}
  /\ staged = Nothing
  /\ driver = img /\ modified = FALSE /\ failed = FALSE /\ result = "none"
  /\ promised = img /\ candidates = {img}
  /\ faults = 0 /\ commits = 0 /\ crashes = 0

\* A host call of kind k works, or fails within the bound.
Works == UNCHANGED counters
Fails(k) ==
  /\ k \in FaultKinds
  /\ faults < MaxFaults
  /\ faults' = faults + 1
  /\ UNCHANGED <<commits, crashes>>

\* File::create on the sidecar's path: truncates what is there, or makes the
\* name.  A new name is not on stable storage, and neither is its content.
TruncateSidecar ==
  /\ side' = Torn
  /\ sideExists' = TRUE
  /\ durSide' = IF sideExists \/ durEntry THEN durSide ELSE Torn
  /\ UNCHANGED <<img, durImg, durEntry>>

-----------------------------------------------------------------------------
(* The session between commits *)

\* Opening: the claim is taken and the sidecar is looked for under it.
Open ==
  /\ pc = "closed"
  /\ pc' = "reconcile" /\ cont' = "open"
  /\ UNCHANGED <<disk, todo, staged, session, history, counters>>

\* A write verb lands in the session cache; the image is not touched.
Buffer ==
  /\ pc = "idle" /\ ~failed /\ ~modified
  /\ modified' = TRUE /\ result' = "none"
  /\ UNCHANGED <<disk, pc, cont, todo, staged, driver, failed, history, counters>>

Rollback ==
  /\ pc = "idle" /\ modified
  /\ modified' = FALSE
  /\ UNCHANGED <<disk, pc, cont, todo, staged, driver, failed, result, history, counters>>

Close ==
  /\ pc = "idle"
  /\ pc' = "closed"
  /\ modified' = FALSE /\ failed' = FALSE /\ result' = "none"
  /\ UNCHANGED <<disk, cont, todo, staged, driver, history, counters>>

-----------------------------------------------------------------------------
(* Leaving a subroutine: what the commit or the open does next.  An open    *)
(* settles the history on what it exposes, unless a retirement it could not *)
(* perform left an armed journal on stable storage.                         *)

Return(c) ==
  /\ pc' = "idle" /\ cont' = "none" /\ todo' = {} /\ staged' = Nothing
  /\ \/ /\ c = "commit"
        /\ modified' = FALSE /\ result' = "ok"
        /\ promised' = staged.image /\ candidates' = {staged.image}
        /\ UNCHANGED <<driver, failed>>
     \/ /\ c \in {"recordFailed", "undo"}
        /\ driver' = staged.before /\ result' = "err"
        /\ UNCHANGED <<modified, failed, history>>
     \/ /\ c = "open"
        /\ driver' = img /\ modified' = FALSE /\ failed' = FALSE /\ result' = "none"
        /\ IF durEntry /\ durSide.armed
             THEN UNCHANGED history
             ELSE promised' = img /\ candidates' = {img}

\* reconcile returned an error: a commit leaves a session that refuses every
\* verb, an open is refused and releases its claim.
ReconcileFailed ==
  /\ IF cont = "undo"
       THEN /\ pc' = "idle" /\ failed' = TRUE /\ result' = "err"
       ELSE /\ pc' = "closed" /\ UNCHANGED <<failed, result>>
  /\ cont' = "none" /\ todo' = {} /\ staged' = Nothing
  /\ UNCHANGED <<modified, driver, history>>

-----------------------------------------------------------------------------
(* MediaState::commit *)

\* The write-through runs against a capture of the file.
Stage(t, E) ==
  /\ pc = "idle" /\ ~failed /\ modified
  /\ commits < MaxCommits /\ commits' = commits + 1
  /\ Stageable(img, t, E)
  /\ staged' = [image |-> t, extents |-> E, before |-> driver]
  /\ driver' = t
  /\ candidates' = candidates \cup {t}
  /\ pc' = "staged" /\ result' = "none"
  /\ UNCHANGED <<disk, cont, todo, modified, failed, promised, faults, crashes>>

\* Mutant of StageRefused: the driver's tables are not put back.
StageRefusedKeepsDriver ==
  /\ pc = "staged" /\ Fails("stage")
  /\ result' = "err"
  /\ pc' = "idle" /\ staged' = Nothing
  /\ UNCHANGED <<disk, cont, todo, driver, modified, failed, history>>

\* A refused write-through: the staging is dropped, the changes are kept.
StageRefused ==
  /\ pc = "staged" /\ Fails("stage")
  /\ driver' = staged.before /\ result' = "err"
  /\ pc' = "idle" /\ staged' = Nothing
  /\ UNCHANGED <<disk, cont, todo, modified, failed, history>>

\* A write-through that wrote nothing: marked committed, then flushed.
CommitClean ==
  /\ pc = "staged" /\ staged.extents = {}
  /\ pc' = "idle" /\ staged' = Nothing /\ modified' = FALSE
  /\ \/ Works /\ durImg' = img /\ result' = "ok"
     \/ Fails("imageSync") /\ UNCHANGED durImg /\ result' = "err"
  /\ UNCHANGED <<img, side, durSide, sideExists, durEntry, cont, todo, driver, failed, history>>

(* journal::record *)

RecordFails ==
  /\ pc' = "retire" /\ cont' = "recordFailed"
  /\ UNCHANGED <<disk, todo, staged, session, history>>

RecordCreate ==
  /\ pc = "staged" /\ staged.extents # {}
  /\ \/ /\ Works
        /\ TruncateSidecar
        /\ pc' = "recording"
        /\ UNCHANGED <<cont, todo, staged, session, history>>
     \/ Fails("create") /\ RecordFails

RecordWrite ==
  /\ pc = "recording"
  /\ \/ /\ Works
        /\ side' = JournalFor(img, staged)
        /\ pc' = "sealing"
        /\ UNCHANGED <<img, durImg, durSide, sideExists, durEntry, cont, todo, staged, session, history>>
     \/ Fails("write") /\ RecordFails

\* Mutant of RecordSync: sealed, but not made durable.
RecordSyncSkipped ==
  /\ pc = "sealing"
  /\ Works
  /\ pc' = "apply"
  /\ todo' = BlocksIn(staged.extents, staged.image.len)
  /\ UNCHANGED <<disk, cont, staged, session, history>>

\* seal_and_sync: the durability boundary.
RecordSync ==
  /\ pc = "sealing"
  /\ \/ /\ Works
        /\ durSide' = side
        /\ durEntry' = (durEntry \/ ParentSync)
        /\ pc' = "apply"
        /\ todo' = BlocksIn(staged.extents, staged.image.len)
        /\ UNCHANGED <<img, durImg, side, sideExists, cont, staged, session, history>>
     \/ Fails("recordSync") /\ RecordFails

(* MediumDevice::apply: extents in offset order, clamped, then sync_data *)

\* Mutant of ApplyFails: the error is returned without the undo.
ApplyFailsKept ==
  /\ pc' = "idle" /\ todo' = {} /\ staged' = Nothing
  /\ driver' = staged.before /\ result' = "err"
  /\ UNCHANGED <<disk, cont, modified, failed, history>>

ApplyFails ==
  /\ pc' = "reconcile" /\ cont' = "undo" /\ todo' = {}
  /\ UNCHANGED <<disk, staged, session, history>>

ApplyBlock ==
  /\ pc = "apply" /\ todo # {}
  /\ \/ /\ Works
        /\ \E b \in todo :
             /\ \A c \in todo : b <= c
             /\ img' = WriteBlock(img, b, staged.image.data[b])
             /\ todo' = todo \ {b}
        /\ UNCHANGED <<durImg, side, durSide, sideExists, durEntry, pc, cont, staged, session, history>>
     \/ Fails("write") /\ ApplyFails

\* Mutant of ApplySync: the journal is retired before the image is durable.
ApplySyncSkipped ==
  /\ pc = "apply" /\ todo = {}
  /\ Works
  /\ pc' = "retire" /\ cont' = "commit"
  /\ UNCHANGED <<disk, todo, staged, session, history>>

ApplySync ==
  /\ pc = "apply" /\ todo = {}
  /\ \/ /\ Works
        /\ durImg' = img
        /\ pc' = "retire" /\ cont' = "commit"
        /\ UNCHANGED <<img, side, durSide, sideExists, durEntry, todo, staged, session, history>>
     \/ Fails("imageSync") /\ ApplyFails

(* journal::retire: invalidate, make that durable, remove the name.  Its *)
(* error sends a commit to the undo; every other caller ignores it.      *)

RetireFails ==
  IF cont = "commit" THEN ApplyFails ELSE Return(cont) /\ UNCHANGED disk

RetireTruncate ==
  /\ pc = "retire"
  /\ \/ /\ Works
        /\ TruncateSidecar
        /\ pc' = "retireSync"
        /\ UNCHANGED <<cont, todo, staged, session, history>>
     \/ Fails("truncate") /\ RetireFails

RetireSync ==
  /\ pc = "retireSync"
  /\ \/ /\ Works
        /\ durSide' = side
        /\ pc' = "retireRemove"
        /\ UNCHANGED <<img, durImg, side, sideExists, durEntry, cont, todo, staged, session, history>>
     \/ Fails("retireSync") /\ RetireFails

RetireRemove ==
  /\ pc = "retireRemove"
  /\ \/ Works /\ sideExists' = FALSE
     \/ Fails("remove") /\ UNCHANGED sideExists
  /\ durEntry' = IF ParentSync THEN sideExists' ELSE durEntry
  /\ Return(cont)
  /\ UNCHANGED <<img, durImg, side, durSide>>

(* journal::reconcile *)

ReconcileRead ==
  /\ pc = "reconcile"
  /\ \/ /\ ~sideExists
        /\ Works /\ Return(cont)
     \/ /\ sideExists /\ ~side.armed
        /\ Works
        /\ pc' = "retire"
        /\ UNCHANGED <<cont, todo, staged, session, history>>
     \/ /\ sideExists /\ side.armed
        /\ img.len \in side.origLen .. side.newLen
        /\ Works
        /\ pc' = "restore" /\ todo' = side.covers
        /\ UNCHANGED <<cont, staged, session, history>>
     \/ /\ sideExists /\ side.armed
        /\ img.len \notin side.origLen .. side.newLen
        /\ Works /\ ReconcileFailed
     \/ /\ sideExists
        /\ Fails("read") /\ ReconcileFailed
  /\ UNCHANGED disk

RestoreBlock ==
  /\ pc = "restore" /\ todo # {}
  /\ \/ /\ Works
        /\ \E b \in todo :
             /\ \A c \in todo : b <= c
             /\ img' = WriteBlock(img, b, side.undo[b])
             /\ todo' = todo \ {b}
        /\ UNCHANGED <<durImg, side, durSide, sideExists, durEntry, pc, cont, staged, session, history>>
     \/ Fails("write") /\ ReconcileFailed /\ UNCHANGED disk

\* Mutant of RestoreTruncate: the journal is read again, not retired.
RestoreTruncateAgain ==
  /\ pc = "restore" /\ todo = {}
  /\ img' = SetLen(img, side.origLen) /\ durImg' = img'
  /\ Works
  /\ pc' = "reconcile"
  /\ UNCHANGED <<side, durSide, sideExists, durEntry, cont, todo, staged, session, history>>

\* truncate_and_sync: the length goes back, and everything is made durable.
RestoreTruncate ==
  /\ pc = "restore" /\ todo = {}
  /\ img' = SetLen(img, side.origLen)
  /\ \/ /\ Works
        /\ durImg' = img'
        /\ pc' = "retire"
        /\ UNCHANGED <<cont, todo, staged, session, history>>
     \/ Fails("imageSync") /\ ReconcileFailed /\ UNCHANGED durImg
  /\ UNCHANGED <<side, durSide, sideExists, durEntry>>

-----------------------------------------------------------------------------
(* The host: write-back in any order, process crashes, power losses *)

WritebackBlock(b) ==
  /\ b < img.len
  /\ durImg' = WriteBlock(durImg, b, img.data[b])
  /\ UNCHANGED <<img, side, durSide, sideExists, durEntry>>

WritebackLength ==
  /\ durImg' = SetLen(durImg, img.len)
  /\ UNCHANGED <<img, side, durSide, sideExists, durEntry>>

\* All of the sidecar's content, or a torn part of it.
WritebackSidecar ==
  /\ side # durSide
  /\ durSide' \in {side, Torn}
  /\ UNCHANGED <<img, durImg, side, sideExists, durEntry>>

WritebackEntry ==
  /\ durEntry' = sideExists
  /\ UNCHANGED <<img, durImg, side, durSide, sideExists>>

Host ==
  /\ \/ \E b \in Blocks : WritebackBlock(b)
     \/ WritebackLength
     \/ WritebackSidecar
     \/ WritebackEntry
  /\ UNCHANGED <<pc, cont, todo, staged, session, history, counters>>

SessionGone ==
  /\ crashes < MaxCrashes /\ crashes' = crashes + 1
  /\ pc' = "closed" /\ cont' = "none" /\ todo' = {} /\ staged' = Nothing
  /\ modified' = FALSE /\ failed' = FALSE /\ result' = "none"
  /\ UNCHANGED <<driver, history, faults, commits>>

Crash ==
  /\ pc # "closed"
  /\ SessionGone
  /\ UNCHANGED disk

PowerLoss ==
  /\ SessionGone
  /\ img' = durImg
  /\ side' = (IF durEntry THEN durSide ELSE Torn)
  /\ durSide' = side'
  /\ sideExists' = durEntry
  /\ UNCHANGED <<durImg, durEntry>>

-----------------------------------------------------------------------------

Program ==
  \/ Buffer \/ Rollback \/ Close \/ Open
  \/ \E t \in Image, E \in SUBSET Extents : Stage(t, E)
  \/ StageRefused \/ CommitClean
  \/ RecordCreate \/ RecordWrite \/ RecordSync
  \/ ApplyBlock \/ ApplySync
  \/ RetireTruncate \/ RetireSync \/ RetireRemove
  \/ ReconcileRead \/ RestoreBlock \/ RestoreTruncate

Next == Program \/ Host \/ Crash \/ PowerLoss

Spec == Init /\ [][Next]_vars

\* A call runs to its return: the steps of a commit or an open are one
\* thread's straight-line code, so none of them waits for anybody.
InCall == pc \notin {"idle", "closed"}
FairSpec == Spec /\ WF_vars(InCall /\ Program)

-----------------------------------------------------------------------------
(* Properties *)

\* Interruption never invents a third state (commit.rs:6-9): whatever
\* instant the process or the power is lost at, the image the next open
\* exposes is the last acknowledged one or one staged whole since.
RecoveryIsWhole == Recovered \in candidates /\ DurableRecovered \in candidates

\* The next open never refuses a journal this library armed: the length it
\* finds lies between the journal's old and new lengths (journal.rs:305).
JournalMatchesImage ==
  sideExists /\ side.armed => img.len \in side.origLen .. side.newLen

\* An idle usable session reads a whole image through tables that describe
\* it: no failed commit leaves the driver's restored tables over another
\* image than the one they were read from (commit.rs:78-81, 120-124).
DriverDescribesImage ==
  pc = "idle" /\ ~failed => driver = img /\ img \in candidates

\* A commit works from the image its session was reading, and one that
\* returns an error to a usable session has put exactly that image back
\* (commit.rs:98-101: "the in-process undo reconciles from the armed
\* journal, putting the image back to wholly the old state").
FailedCommitLeavesOld ==
  [][/\ pc = "idle" /\ pc' = "staged" => staged'.before = img
     /\ pc # "idle" /\ pc' = "idle" /\ result' = "err" /\ ~failed' =>
          img' = staged.before]_vars

\* Write-ahead: while a session is up the image file changes only under a
\* journal that is on stable storage, name and content (journal.rs:4-8).
ImageChangesUnderJournal ==
  [][img' # img /\ pc' # "closed" => durEntry /\ durSide.armed]_vars

\* A successful commit's image is never taken back: until another commit is
\* staged, no crash or power loss shows anything else (commit.rs:136-137).
AckedCommitIsDurable ==
  pc = "idle" /\ result = "ok" /\ candidates = {promised} =>
    img = promised /\ Recovered = promised /\ DurableRecovered = promised

\* A commit or an open that nothing interrupts returns.
CommitCallsReturn == InCall ~> ~InCall

-----------------------------------------------------------------------------
(* The inductive invariant behind RecoveryIsWhole, where ParentSync holds *)

Armed        == sideExists /\ side.armed
DurablyArmed == durEntry /\ durSide.armed

\* A journal records only what lies inside the old image, and never shrinks it.
JournalShape ==
  \A j \in {side, durSide} :
    j.armed => /\ j.origLen <= j.newLen
               /\ \A b \in j.covers : b < j.origLen

\* Whatever a journal on stable storage would undo to is a candidate, the
\* same one from either copy of the image; without one the copies agree.
DurableJournalOK ==
  /\ durSide.armed =>
       /\ Restored(img, durSide) = Restored(durImg, durSide)
       /\ Restored(durImg, durSide) \in candidates
       /\ img.len \in durSide.origLen .. durSide.newLen
       /\ durImg.len \in durSide.origLen .. durSide.newLen
  /\ ~DurablyArmed => img = durImg
  /\ durSide.armed /\ ~durEntry => Restored(img, durSide) = img

\* The same of the sidecar a process reads; one that stable storage does not
\* hold whole was written while the image stood still.
JournalOK ==
  /\ Armed => /\ Restored(img, side) \in candidates
              /\ img.len \in side.origLen .. side.newLen
  /\ ~Armed => img = durImg /\ img \in candidates
  /\ ~sideExists => side = Torn /\ ~durSide.armed
  /\ Armed /\ (side # durSide \/ ~durEntry) =>
       img = durImg /\ Restored(img, side) = img

\* Outside an apply, a restore and a failed session the image is whole.
WholeBetween ==
  /\ \/ pc = "idle" /\ ~failed
     \/ pc \in {"staged", "recording", "sealing", "retire", "retireSync", "retireRemove"}
    => img = durImg /\ img \in candidates

StagedOK ==
  /\ pc \in {"staged", "recording", "sealing"} =>
       staged.image \in candidates /\ Stageable(img, staged.image, staged.extents)
  /\ pc = "recording" => sideExists
  /\ pc = "sealing" => sideExists /\ side = JournalFor(img, staged)

\* The apply has written the blocks outside todo, and only those.
ApplyOK ==
  pc = "apply" =>
    /\ sideExists /\ durEntry /\ side = durSide /\ side.armed
    /\ staged.image \in candidates
    /\ side.newLen = staged.image.len
    /\ side.covers = BlocksIn(staged.extents, side.origLen)
    /\ todo \subseteq BlocksIn(staged.extents, staged.image.len)
    /\ \A b \in Blocks \ todo : img.data[b] = staged.image.data[b]
    /\ side.origLen < side.newLen /\ side.newLen - 1 \notin todo =>
         img.len = side.newLen

RestoreOK ==
  pc = "restore" =>
    /\ sideExists /\ side.armed
    /\ todo \subseteq side.covers
    /\ \A b \in side.covers \ todo : img.data[b] = side.undo[b]

RetireOK ==
  /\ pc \in {"retire", "retireSync", "retireRemove"} =>
       /\ cont \in {"commit", "recordFailed", "undo", "open"}
       /\ cont = "commit" => img = staged.image
  /\ pc = "retire" /\ cont = "open" /\ Armed => Restored(img, side) = img
  /\ pc = "retireSync" => sideExists /\ side = Torn
  /\ pc = "retireRemove" => side = Torn /\ durSide = Torn
  /\ pc \in {"reconcile", "restore"} => cont \in {"undo", "open"}

IInv ==
  /\ JournalShape
  /\ DurableJournalOK
  /\ JournalOK
  /\ WholeBetween
  /\ StagedOK
  /\ ApplyOK
  /\ RestoreOK
  /\ RetireOK

\* Behind DriverDescribesImage, where no sidecar sync fails after a truncation:
\* from the staging of a commit to its return, what an undo would put back is
\* the image the tables described before it.
SessionOK ==
  /\ pc = "idle" /\ ~failed => driver = img
  /\ pc \in {"staged", "recording", "sealing"} =>
       driver = staged.image /\ staged.before = img
  /\ \/ pc = "apply"
     \/ pc = "retire" /\ cont = "commit"
     \/ pc \in {"reconcile", "restore"} /\ cont = "undo"
    => Armed /\ Restored(img, side) = staged.before
  /\ \/ pc = "apply"
     \/ pc \in {"retire", "retireSync", "retireRemove"} /\ cont = "commit"
    => driver = staged.image
  /\ pc \in {"retire", "retireSync", "retireRemove"} /\ cont \in {"recordFailed", "undo"} =>
       staged.before = img

\* A session that may not be used is one whose commit could not be undone.
FailedSession == failed => pc = "idle" /\ result = "err"

-----------------------------------------------------------------------------
(* What all this implements: a content that only whole proposals replace.   *)
(* The content is the one an open after a power loss would expose.          *)

OnDisk == INSTANCE AtomicImage WITH Content <- Image, content <- DurableRecovered

\* The commit point as a reader of the reopened image sees it (commit.rs:6-9).
OnDiskSpec == OnDisk!Spec
-----------------------------------------------------------------------------
(* For TLC: three blocks in extents of two, so that an image can end in the *)
(* middle of an extent and grow past it.                                    *)

NoFaults            == {}
AllFaultKinds       == AllFaults
FaultsButRetireSync == AllFaults \ {"retireSync"}

\* Two crashes, or a failing file operation and a crash, in a behaviour.
MCNext == Next /\ faults' + crashes' <= 2
MCSpec == Init /\ [][MCNext]_vars /\ WF_vars(InCall /\ Program)
=============================================================================
