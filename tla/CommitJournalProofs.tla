------------------------- MODULE CommitJournalProofs -------------------------
(***************************************************************************)
(* Proofs about CommitJournal: for every file size, extent size, content,  *)
(* set of failing host calls and number of commits and crashes.            *)
(***************************************************************************)
EXTENDS CommitJournal, TLAPS

-----------------------------------------------------------------------------
(* What the operations on images return *)

LEMMA WriteBlockType ==
  ASSUME NEW i \in Image, NEW b \in Blocks, NEW v \in Vals
  PROVE  WriteBlock(i, b, v) \in Image
BY SizesAssumption DEF Image, RawImage, Canonical, Contents, Lengths, Blocks, WriteBlock, Longer

LEMMA SetLenType ==
  ASSUME NEW i \in Image, NEW n \in Lengths
  PROVE  SetLen(i, n) \in Image
<1> DEFINE data == [b \in Blocks |-> IF b < n THEN i.data[b] ELSE Zero]
<1>1. data \in Contents
  BY ValsAssumption DEF Image, RawImage, Contents
<1>2. \A b \in Blocks : b >= n => data[b] = Zero
  BY SizesAssumption DEF Lengths, Blocks
<1>3. QED BY <1>1, <1>2 DEF Image, RawImage, Canonical, SetLen

LEMMA RestoredType ==
  ASSUME NEW i \in Image, NEW j \in Journal
  PROVE  Restored(i, j) \in Image
BY ValsAssumption, SizesAssumption
   DEF Image, RawImage, Canonical, Contents, Lengths, Blocks, Restored, Journal

LEMMA TornType == Torn \in Journal /\ ~Torn.armed
BY ValsAssumption, SizesAssumption DEF Torn, Journal, Contents, Lengths, Blocks

LEMMA RewriteNoop ==
  ASSUME NEW i \in Image, NEW b \in Blocks, b < i.len
  PROVE  WriteBlock(i, b, i.data[b]) = i
BY SizesAssumption DEF Image, RawImage, Contents, Lengths, Blocks, WriteBlock, Longer

LEMMA SetLenNoop ==
  ASSUME NEW i \in Image
  PROVE  SetLen(i, i.len) = i
<1>1. i.data = [b \in Blocks |-> IF b < i.len THEN i.data[b] ELSE Zero]
  BY SizesAssumption DEF Image, RawImage, Contents, Lengths, Blocks, Canonical
<1>2. i = [len |-> i.len, data |-> i.data]
  BY DEF Image, RawImage
<1>3. QED BY <1>1, <1>2 DEF SetLen

\* Writing what a journal covers, or past the old length, undoes to the same.
LEMMA RestoredWrite ==
  ASSUME NEW i \in Image, NEW j \in Journal, NEW b \in Blocks, NEW v \in Vals,
         b \in j.covers \/ b >= j.origLen
  PROVE  Restored(WriteBlock(i, b, v), j) = Restored(i, j)
BY SizesAssumption DEF Image, RawImage, Contents, Lengths, Blocks, WriteBlock, Restored, Journal

\* Copying a block between two images that undo to the same keeps that.
LEMMA RestoredWriteback ==
  ASSUME NEW i \in Image, NEW d \in Image, NEW j \in Journal, NEW b \in Blocks,
         Restored(i, j) = Restored(d, j)
  PROVE  Restored(WriteBlock(d, b, i.data[b]), j) = Restored(d, j)
<1>1. CASE b \in j.covers \/ b >= j.origLen
  <2>1. i.data[b] \in Vals BY DEF Image, RawImage, Contents
  <2>2. QED BY <1>1, <2>1, RestoredWrite
<1>2. CASE b \notin j.covers /\ b < j.origLen
  <2>1. Restored(i, j).data[b] = i.data[b] /\ Restored(d, j).data[b] = d.data[b]
    BY <1>2, SizesAssumption DEF Restored, Blocks, Journal, Lengths
  <2>2. d.data[b] = i.data[b] BY <2>1
  <2>3. [d.data EXCEPT ![b] = i.data[b]] = d.data
    BY <2>2 DEF Image, RawImage, Contents
  <2>4. QED BY <2>3 DEF Restored, WriteBlock
<1>3. QED BY <1>1, <1>2, SizesAssumption DEF Blocks, Journal, Lengths

LEMMA RestoredSetLen ==
  ASSUME NEW i \in Image, NEW j \in Journal, NEW n \in Lengths, n >= j.origLen
  PROVE  Restored(SetLen(i, n), j) = Restored(i, j)
BY SizesAssumption DEF Image, RawImage, Contents, Lengths, Blocks, SetLen, Restored, Journal

LEMMA RestoredFix ==
  ASSUME NEW i \in Image, NEW j \in Journal
  PROVE  Restored(Restored(i, j), j) = Restored(i, j)
BY SizesAssumption DEF Image, RawImage, Contents, Lengths, Blocks, Restored, Journal

\* A journal undoes to the image it was recorded over.
LEMMA JournalForRestores ==
  ASSUME NEW i \in Image, NEW s
  PROVE  Restored(i, JournalFor(i, s)) = i
<1>1. i.data = [b \in Blocks |-> IF b >= i.len THEN Zero ELSE i.data[b]]
  BY SizesAssumption DEF Image, RawImage, Contents, Lengths, Blocks, Canonical
<1>2. i = [len |-> i.len, data |-> i.data]
  BY DEF Image, RawImage
<1>3. QED BY <1>1, <1>2 DEF Restored, JournalFor

-----------------------------------------------------------------------------
(* Type correctness *)

LEMMA NothingType ==
  Nothing \in [image : Image, extents : SUBSET Extents, before : Image]
BY ValsAssumption, SizesAssumption
   DEF Nothing, Image, RawImage, Canonical, Contents, Lengths, Blocks

LEMMA JournalForType ==
  ASSUME NEW i \in Image,
         NEW s \in [image : Image, extents : SUBSET Extents, before : Image]
  PROVE  JournalFor(i, s) \in Journal
BY SizesAssumption DEF JournalFor, Journal, Image, RawImage, BlocksIn, Lengths

\* The counters move in Works and Fails as they may.
LEMMA CountersType ==
  ASSUME TypeOK, NEW k, Works \/ Fails(k)
  PROVE  faults' \in Nat /\ commits' \in Nat /\ crashes' \in Nat
BY DEF TypeOK, Works, Fails, counters

LEMMA ReturnType ==
  ASSUME TypeOK, NEW c, Return(c)
  PROVE  /\ pc' \in Steps /\ cont' \in Continuations /\ todo' \in SUBSET Blocks
         /\ staged' \in [image : Image, extents : SUBSET Extents, before : Image]
         /\ driver' \in Image /\ modified' \in BOOLEAN /\ failed' \in BOOLEAN
         /\ result' \in {"none", "ok", "err"}
         /\ promised' \in Image /\ candidates' \in SUBSET Image
BY NothingType DEF TypeOK, Return, Steps, Continuations, history

LEMMA ReconcileFailedType ==
  ASSUME TypeOK, ReconcileFailed
  PROVE  /\ pc' \in Steps /\ cont' \in Continuations /\ todo' \in SUBSET Blocks
         /\ staged' \in [image : Image, extents : SUBSET Extents, before : Image]
         /\ driver' \in Image /\ modified' \in BOOLEAN /\ failed' \in BOOLEAN
         /\ result' \in {"none", "ok", "err"}
         /\ promised' \in Image /\ candidates' \in SUBSET Image
BY NothingType DEF TypeOK, ReconcileFailed, Steps, Continuations, history

LEMMA SessionGoneType ==
  ASSUME TypeOK, SessionGone
  PROVE  /\ pc' \in Steps /\ cont' \in Continuations /\ todo' \in SUBSET Blocks
         /\ staged' \in [image : Image, extents : SUBSET Extents, before : Image]
         /\ driver' \in Image /\ modified' \in BOOLEAN /\ failed' \in BOOLEAN
         /\ result' \in {"none", "ok", "err"}
         /\ promised' \in Image /\ candidates' \in SUBSET Image
         /\ faults' \in Nat /\ commits' \in Nat /\ crashes' \in Nat
<1>1. /\ pc' = "closed" /\ cont' = "none" /\ todo' = {} /\ staged' = Nothing
      /\ modified' = FALSE /\ failed' = FALSE /\ result' = "none"
      /\ driver' = driver /\ promised' = promised /\ candidates' = candidates
      /\ faults' = faults /\ commits' = commits /\ crashes' = crashes + 1
  BY DEF SessionGone, history
<1>2. crashes' \in Nat BY <1>1 DEF TypeOK
<1>3. staged' \in [image : Image, extents : SUBSET Extents, before : Image]
  BY <1>1, NothingType
<1>4. todo' \in SUBSET Blocks BY <1>1
<1>5. QED BY <1>1, <1>2, <1>3, <1>4 DEF TypeOK, Steps, Continuations

LEMMA TypeStep ==
  ASSUME TypeOK, [Next]_vars
  PROVE  TypeOK'
<1> USE DEF TypeOK, disk, session, history, counters
<1>1. CASE Buffer BY <1>1 DEF Buffer, Steps
<1>2. CASE Rollback BY <1>2 DEF Rollback
<1>3. CASE Close BY <1>3 DEF Close, Steps
<1>4. CASE Open BY <1>4 DEF Open, Steps, Continuations
<1>5. ASSUME NEW t \in Image, NEW E \in SUBSET Extents, Stage(t, E) PROVE TypeOK'
  BY <1>5 DEF Stage, Steps
<1>6. CASE StageRefused
  BY <1>6, NothingType, CountersType DEF StageRefused, Steps
<1>7. CASE CommitClean
  BY <1>7, NothingType, CountersType DEF CommitClean, Steps
<1>8. CASE RecordCreate
  BY <1>8, TornType, CountersType DEF RecordCreate, TruncateSidecar, RecordFails, Steps, Continuations
<1>9. CASE RecordWrite
  BY <1>9, JournalForType, CountersType DEF RecordWrite, RecordFails, Steps, Continuations
<1>10. CASE RecordSync
  <2>1. durEntry \/ ParentSync \in BOOLEAN BY FaultAssumption
  <2>2. BlocksIn(staged.extents, staged.image.len) \in SUBSET Blocks BY DEF BlocksIn
  <2>3. QED BY <1>10, <2>1, <2>2, CountersType DEF RecordSync, RecordFails, Steps, Continuations
<1>11. CASE ApplyBlock
  <2>1. \A b \in Blocks : WriteBlock(img, b, staged.image.data[b]) \in Image
    BY WriteBlockType DEF Image, RawImage, Contents
  <2>2. QED BY <1>11, <2>1, CountersType DEF ApplyBlock, ApplyFails, Steps, Continuations
<1>12. CASE ApplySync
  BY <1>12, CountersType DEF ApplySync, ApplyFails, Steps, Continuations
<1>13. CASE RetireTruncate
  BY <1>13, TornType, ReturnType, CountersType
     DEF RetireTruncate, TruncateSidecar, RetireFails, ApplyFails, Steps, Continuations
<1>14. CASE RetireSync
  BY <1>14, ReturnType, CountersType DEF RetireSync, RetireFails, ApplyFails, Steps, Continuations
<1>15. CASE RetireRemove
  <2>1. durEntry' \in BOOLEAN /\ sideExists' \in BOOLEAN
    BY <1>15 DEF RetireRemove
  <2>2. QED BY <1>15, <2>1, ReturnType, CountersType DEF RetireRemove
<1>16. CASE ReconcileRead
  <2>1. side.covers \in SUBSET Blocks BY DEF Journal
  <2>2. QED BY <1>16, <2>1, ReturnType, ReconcileFailedType, CountersType
            DEF ReconcileRead, Steps
<1>17. CASE RestoreBlock
  <2>1. \A b \in Blocks : WriteBlock(img, b, side.undo[b]) \in Image
    BY WriteBlockType DEF Journal, Contents
  <2>2. QED BY <1>17, <2>1, ReconcileFailedType, CountersType DEF RestoreBlock
<1>18. CASE RestoreTruncate
  <2>1. SetLen(img, side.origLen) \in Image BY SetLenType DEF Journal
  <2>2. QED BY <1>18, <2>1, ReconcileFailedType, CountersType DEF RestoreTruncate, Steps
<1>19. CASE Host
  <2>1. \A b \in Blocks : WriteBlock(durImg, b, img.data[b]) \in Image
    BY WriteBlockType DEF Image, RawImage, Contents
  <2>2. SetLen(durImg, img.len) \in Image BY SetLenType DEF Image, RawImage
  <2>3. QED BY <1>19, <2>1, <2>2, TornType
            DEF Host, WritebackBlock, WritebackLength, WritebackSidecar, WritebackEntry
<1>20. CASE Crash
  <2>1. UNCHANGED disk BY <1>20 DEF Crash
  <2>2. QED BY <1>20, <2>1, SessionGoneType DEF Crash
<1>21. CASE PowerLoss
  <2>1. side' \in Journal /\ durSide' \in Journal
    BY <1>21, TornType DEF PowerLoss
  <2>2. img' \in Image /\ durImg' \in Image /\ sideExists' \in BOOLEAN /\ durEntry' \in BOOLEAN
    BY <1>21 DEF PowerLoss
  <2>3. QED BY <1>21, <2>1, <2>2, SessionGoneType DEF PowerLoss
<1>22. CASE UNCHANGED vars BY <1>22 DEF vars
<1>23. QED
  BY <1>1, <1>2, <1>3, <1>4, <1>5, <1>6, <1>7, <1>8, <1>9, <1>10, <1>11, <1>12,
     <1>13, <1>14, <1>15, <1>16, <1>17, <1>18, <1>19, <1>20, <1>21, <1>22
     DEF Next, Program

\* Every step of the session and of the host keeps the state well formed.
THEOREM TypeCorrect == Spec => []TypeOK
<1>1. Init => TypeOK
  <2> SUFFICES ASSUME Init PROVE TypeOK
    OBVIOUS
  <2>1. img \in Image /\ durImg \in Image /\ driver \in Image /\ promised \in Image
    BY DEF Init
  <2>2. candidates \in SUBSET Image BY <2>1 DEF Init
  <2>3. side \in Journal /\ durSide \in Journal BY TornType DEF Init
  <2>4. staged \in [image : Image, extents : SUBSET Extents, before : Image]
    BY NothingType DEF Init
  <2>5. QED BY <2>1, <2>2, <2>3, <2>4 DEF Init, TypeOK, Steps, Continuations
<1>2. TypeOK /\ [Next]_vars => TypeOK'
  BY TypeStep
<1>3. QED BY <1>1, <1>2, PTL DEF Spec

-----------------------------------------------------------------------------
(* The inductive invariant *)

LEMMA InvInit ==
  ASSUME Init
  PROVE  IInv
<1> USE TornType DEF Init
<1>1. JournalShape BY DEF JournalShape
<1>2. DurableJournalOK BY DEF DurableJournalOK, DurablyArmed
<1>3. JournalOK BY DEF JournalOK, Armed
<1>4. WholeBetween /\ StagedOK /\ ApplyOK /\ RestoreOK /\ RetireOK
  BY DEF WholeBetween, StagedOK, ApplyOK, RestoreOK, RetireOK
<1>5. QED BY <1>1, <1>2, <1>3, <1>4 DEF IInv

\* A step that leaves the files alone keeps what is said of them alone.
LEMMA DiskStill ==
  ASSUME IInv, UNCHANGED disk, candidates \subseteq candidates'
  PROVE  JournalShape' /\ DurableJournalOK' /\ JournalOK'
<1> USE DEF IInv, disk
<1>1. JournalShape' BY DEF JournalShape
<1>2. DurableJournalOK' BY DEF DurableJournalOK, DurablyArmed
<1>3. JournalOK' BY DEF JournalOK, Armed
<1>4. QED BY <1>1, <1>2, <1>3

\* A call that ends without a commit, over a whole image, the files alone.
LEMMA ReturnInv ==
  ASSUME IInv, UNCHANGED disk, NEW c \in {"recordFailed", "undo", "open"}, Return(c),
         img = durImg, img \in candidates,
         c = "open" /\ Armed => Restored(img, side) = img
  PROVE  IInv'
<1>1. pc' = "idle" /\ img' \in candidates' /\ img' = durImg'
  BY DEF Return, history, disk
<1>2. JournalShape' /\ DurableJournalOK' /\ JournalOK'
  <2>1. CASE candidates' = candidates
    BY <2>1, DiskStill
  <2>2. CASE c = "open" /\ ~DurablyArmed /\ candidates' = {img}
    <3> USE <2>2 DEF disk
    <3>1. JournalShape' BY DEF IInv, JournalShape
    <3>2. DurableJournalOK' BY DEF IInv, DurableJournalOK, DurablyArmed
    <3>3. JournalOK' BY DEF IInv, JournalOK, Armed
    <3>4. QED BY <3>1, <3>2, <3>3
  <2>3. QED BY <2>1, <2>2 DEF Return, history, DurablyArmed
<1>3. WholeBetween' /\ StagedOK' /\ ApplyOK' /\ RestoreOK' /\ RetireOK'
  BY <1>1 DEF WholeBetween, StagedOK, ApplyOK, RestoreOK, RetireOK
<1>4. QED BY <1>2, <1>3 DEF IInv

\* A reconciliation that fails exposes nothing.
LEMMA ReconcileFailedInv ==
  ASSUME ReconcileFailed, JournalShape', DurableJournalOK', JournalOK'
  PROVE  IInv'
<1>1. pc' = "closed" \/ (pc' = "idle" /\ failed')
  BY DEF ReconcileFailed
<1>2. WholeBetween' /\ StagedOK' /\ ApplyOK' /\ RestoreOK' /\ RetireOK'
  BY <1>1 DEF WholeBetween, StagedOK, ApplyOK, RestoreOK, RetireOK
<1>3. QED BY <1>2 DEF IInv

LEMMA SessionSteps ==
  ASSUME TypeOK, IInv, Buffer \/ Rollback \/ Close \/ Open \/ StageRefused \/ Crash
  PROVE  IInv'
<1> USE DEF Buffer, Rollback, Close, Open, StageRefused, Crash, SessionGone, history
<1>1. UNCHANGED disk /\ candidates' = candidates
  OBVIOUS
<1>2. JournalShape' /\ DurableJournalOK' /\ JournalOK'
  BY <1>1, DiskStill
<1>3. WholeBetween'
  BY <1>1 DEF IInv, WholeBetween, disk
<1>4. StagedOK' /\ ApplyOK' /\ RestoreOK' /\ RetireOK'
  BY <1>1 DEF IInv, StagedOK, ApplyOK, RestoreOK, RetireOK
<1>5. QED BY <1>2, <1>3, <1>4 DEF IInv

LEMMA StageStep ==
  ASSUME TypeOK, IInv, NEW t \in Image, NEW E \in SUBSET Extents, Stage(t, E)
  PROVE  IInv'
<1> USE DEF Stage
<1>1. UNCHANGED disk /\ candidates' = candidates \cup {t} /\ pc' = "staged"
  OBVIOUS
<1>2. JournalShape' /\ DurableJournalOK' /\ JournalOK'
  BY <1>1, DiskStill
<1>3. img' = durImg' /\ img' \in candidates'
  BY <1>1 DEF IInv, WholeBetween, disk
<1>4. staged'.image = t /\ staged'.extents = E
  OBVIOUS
<1>5. StagedOK' BY <1>1, <1>4 DEF StagedOK, disk
<1>6. WholeBetween' /\ ApplyOK' /\ RestoreOK' /\ RetireOK'
  BY <1>1, <1>3 DEF WholeBetween, ApplyOK, RestoreOK, RetireOK
<1>7. QED BY <1>2, <1>5, <1>6 DEF IInv

LEMMA CommitCleanStep ==
  ASSUME TypeOK, IInv, CommitClean
  PROVE  IInv'
<1> USE DEF CommitClean
<1>1. UNCHANGED disk /\ candidates' = candidates /\ pc' = "idle"
  BY DEF IInv, WholeBetween, disk, history
<1>2. JournalShape' /\ DurableJournalOK' /\ JournalOK'
  BY <1>1, DiskStill
<1>3. WholeBetween' BY <1>1 DEF IInv, WholeBetween, disk
<1>4. StagedOK' /\ ApplyOK' /\ RestoreOK' /\ RetireOK'
  BY <1>1 DEF StagedOK, ApplyOK, RestoreOK, RetireOK
<1>5. QED BY <1>2, <1>3, <1>4 DEF IInv

\* Truncating the sidecar while the image stands whole.
LEMMA TruncateInv ==
  ASSUME TypeOK, IInv, TruncateSidecar, candidates' = candidates,
         img = durImg, img \in candidates
  PROVE  JournalShape' /\ DurableJournalOK' /\ JournalOK' /\ side' = Torn /\ sideExists'
<1> USE TornType DEF TruncateSidecar, IInv
<1>1. JournalShape' BY DEF JournalShape
<1>2. DurableJournalOK' BY DEF DurableJournalOK, DurablyArmed, JournalOK
<1>3. JournalOK' BY DEF JournalOK, Armed
<1>4. QED BY <1>1, <1>2, <1>3

LEMMA RecordFailsInv ==
  ASSUME TypeOK, IInv, RecordFails, pc \in {"staged", "recording", "sealing"}
  PROVE  IInv'
<1> USE DEF RecordFails
<1>1. UNCHANGED disk /\ candidates' = candidates /\ pc' = "retire" /\ cont' = "recordFailed"
  BY DEF history
<1>2. JournalShape' /\ DurableJournalOK' /\ JournalOK'
  BY <1>1, DiskStill
<1>3. WholeBetween' BY <1>1 DEF IInv, WholeBetween, disk
<1>4. StagedOK' /\ ApplyOK' /\ RestoreOK' /\ RetireOK'
  BY <1>1 DEF StagedOK, ApplyOK, RestoreOK, RetireOK
<1>5. QED BY <1>2, <1>3, <1>4 DEF IInv

LEMMA RecordCreateStep ==
  ASSUME TypeOK, IInv, RecordCreate
  PROVE  IInv'
<1>1. CASE RecordFails BY <1>1, RecordFailsInv DEF RecordCreate
<1>2. CASE ~RecordFails
  <2>1. /\ TruncateSidecar /\ pc = "staged" /\ pc' = "recording"
        /\ staged' = staged /\ candidates' = candidates /\ cont' = cont
    BY <1>2 DEF RecordCreate, history
  <2>2. img = durImg /\ img \in candidates /\ UNCHANGED <<img, durImg>>
    BY <2>1 DEF IInv, WholeBetween, TruncateSidecar
  <2>3. JournalShape' /\ DurableJournalOK' /\ JournalOK' /\ sideExists'
    BY <2>1, <2>2, TruncateInv
  <2>4. WholeBetween' BY <2>1, <2>2 DEF WholeBetween
  <2>5. StagedOK' BY <2>1, <2>2, <2>3 DEF IInv, StagedOK
  <2>6. ApplyOK' /\ RestoreOK' /\ RetireOK'
    BY <2>1 DEF ApplyOK, RestoreOK, RetireOK
  <2>7. QED BY <2>3, <2>4, <2>5, <2>6 DEF IInv
<1>3. QED BY <1>1, <1>2

LEMMA RecordWriteStep ==
  ASSUME TypeOK, IInv, RecordWrite
  PROVE  IInv'
<1>1. CASE RecordFails BY <1>1, RecordFailsInv DEF RecordWrite
<1>2. CASE ~RecordFails
  <2>1. /\ pc = "recording" /\ pc' = "sealing" /\ side' = JournalFor(img, staged)
        /\ UNCHANGED <<img, durImg, durSide, sideExists, durEntry, cont, todo, staged, candidates>>
    BY <1>2 DEF RecordWrite, history
  <2>2. /\ img = durImg /\ img \in candidates /\ sideExists
        /\ staged.image \in candidates /\ Stageable(img, staged.image, staged.extents)
    BY <2>1 DEF IInv, WholeBetween, StagedOK
  <2>3. Restored(img, side') = img
    BY <2>1, JournalForRestores DEF TypeOK
  <2>4. /\ side'.origLen = img.len /\ side'.newLen = staged.image.len
        /\ side'.covers = BlocksIn(staged.extents, img.len)
    BY <2>1 DEF JournalFor
  <2>5. JournalShape'
    BY <2>1, <2>2, <2>4, SizesAssumption
       DEF IInv, JournalShape, Stageable, BlocksIn, Blocks
  <2>6. DurableJournalOK' BY <2>1 DEF IInv, DurableJournalOK, DurablyArmed
  <2>7. JournalOK'
    BY <2>1, <2>2, <2>3, <2>4 DEF JournalOK, Armed, Stageable, TypeOK, Image, RawImage, Lengths
  <2>8. WholeBetween' /\ StagedOK' BY <2>1, <2>2 DEF WholeBetween, StagedOK
  <2>9. ApplyOK' /\ RestoreOK' /\ RetireOK'
    BY <2>1 DEF ApplyOK, RestoreOK, RetireOK
  <2>10. QED BY <2>5, <2>6, <2>7, <2>8, <2>9 DEF IInv
<1>3. QED BY <1>1, <1>2

LEMMA RecordSyncStep ==
  ASSUME ParentSync, TypeOK, IInv, RecordSync
  PROVE  IInv'
<1>1. CASE RecordFails BY <1>1, RecordFailsInv DEF RecordSync
<1>2. CASE ~RecordFails
  <2>1. /\ pc = "sealing" /\ pc' = "apply" /\ durSide' = side /\ durEntry'
        /\ todo' = BlocksIn(staged.extents, staged.image.len)
        /\ UNCHANGED <<img, durImg, side, sideExists, cont, staged, candidates>>
    BY <1>2 DEF RecordSync, history
  <2>2. /\ img = durImg /\ img \in candidates /\ sideExists
        /\ staged.image \in candidates /\ Stageable(img, staged.image, staged.extents)
        /\ side = JournalFor(img, staged)
    BY <2>1 DEF IInv, WholeBetween, StagedOK
  <2>3. Restored(img, side) = img
    BY <2>2, JournalForRestores DEF TypeOK
  <2>4. /\ side.armed /\ side.origLen = img.len /\ side.newLen = staged.image.len
        /\ side.covers = BlocksIn(staged.extents, img.len)
    BY <2>2 DEF JournalFor
  <2>5. img.len \in side.origLen .. side.newLen
    BY <2>2, <2>4 DEF Stageable, TypeOK, Image, RawImage, Lengths
  <2>6. JournalShape' BY <2>1 DEF IInv, JournalShape
  <2>7. DurableJournalOK'
    BY <2>1, <2>2, <2>3, <2>4, <2>5 DEF DurableJournalOK, DurablyArmed
  <2>8. JournalOK' BY <2>1, <2>2, <2>3, <2>4, <2>5 DEF JournalOK, Armed
  <2>9. ApplyOK'
    <3>1. ASSUME NEW b \in Blocks, b \notin todo' PROVE img.data[b] = staged.image.data[b]
      <4>1. CASE b < staged.image.len
        BY <4>1, <3>1, <2>1, <2>2 DEF Stageable, BlocksIn
      <4>2. CASE b >= staged.image.len
        <5>1. b >= img.len /\ staged.image \in Image
          BY <4>2, <2>2, SizesAssumption DEF Stageable, TypeOK, Image, RawImage, Lengths, Blocks
        <5>2. img.data[b] = Zero /\ staged.image.data[b] = Zero
          BY <4>2, <5>1 DEF TypeOK, Image, Canonical
        <5>3. QED BY <5>2
      <4>3. QED BY <4>1, <4>2, SizesAssumption DEF TypeOK, Image, RawImage, Lengths, Blocks
    <3>2. side.origLen < side.newLen => side.newLen - 1 \in todo'
      BY <2>1, <2>2, <2>4, SizesAssumption
         DEF Stageable, BlocksIn, Blocks, TypeOK, Image, RawImage, Lengths
    <3>3. QED BY <2>1, <2>2, <2>4, <3>1, <3>2 DEF ApplyOK
  <2>10. WholeBetween' /\ StagedOK' /\ RestoreOK' /\ RetireOK'
    BY <2>1 DEF WholeBetween, StagedOK, RestoreOK, RetireOK
  <2>11. QED BY <2>6, <2>7, <2>8, <2>9, <2>10 DEF IInv
<1>3. QED BY <1>1, <1>2

LEMMA ApplyFailsInv ==
  ASSUME TypeOK, IInv, ApplyFails
  PROVE  IInv'
<1> USE DEF ApplyFails
<1>1. UNCHANGED disk /\ candidates' = candidates /\ pc' = "reconcile" /\ cont' = "undo"
  BY DEF history
<1>2. JournalShape' /\ DurableJournalOK' /\ JournalOK'
  BY <1>1, DiskStill
<1>3. WholeBetween' /\ StagedOK' /\ ApplyOK' /\ RestoreOK' /\ RetireOK'
  BY <1>1 DEF WholeBetween, StagedOK, ApplyOK, RestoreOK, RetireOK
<1>4. QED BY <1>2, <1>3 DEF IInv

LEMMA ApplyBlockStep ==
  ASSUME TypeOK, IInv, ApplyBlock
  PROVE  IInv'
<1>1. CASE ApplyFails BY <1>1, ApplyFailsInv
<1>2. CASE ~ApplyFails
  <2>1. PICK b \in todo : /\ img' = WriteBlock(img, b, staged.image.data[b])
                          /\ todo' = todo \ {b}
    BY <1>2 DEF ApplyBlock
  <2>2. /\ pc = "apply" /\ pc' = "apply"
        /\ UNCHANGED <<durImg, side, durSide, sideExists, durEntry, cont, staged, candidates>>
    BY <1>2 DEF ApplyBlock, history
  <2>3. /\ sideExists /\ durEntry /\ side = durSide /\ side.armed
        /\ staged.image \in candidates /\ side.newLen = staged.image.len
        /\ side.covers = BlocksIn(staged.extents, side.origLen)
        /\ todo \subseteq BlocksIn(staged.extents, staged.image.len)
        /\ \A c \in Blocks \ todo : img.data[c] = staged.image.data[c]
        /\ side.origLen < side.newLen /\ side.newLen - 1 \notin todo => img.len = side.newLen
    BY <2>2 DEF IInv, ApplyOK
  <2>4. /\ b \in Blocks /\ b < side.newLen /\ (b \in side.covers \/ b >= side.origLen)
        /\ staged.image.data[b] \in Vals
    BY <2>1, <2>3, SizesAssumption
       DEF BlocksIn, TypeOK, Image, RawImage, Contents, Blocks, Journal, Lengths
  <2>5. Restored(img', side) = Restored(img, side)
    BY <2>1, <2>4, RestoredWrite DEF TypeOK
  <2>6. img'.len \in side.origLen .. side.newLen
    <3>1. img.len \in side.origLen .. side.newLen
      BY <2>3 DEF IInv, JournalOK, Armed
    <3>2. img'.len = Longer(img.len, b + 1) BY <2>1 DEF WriteBlock
    <3>3. QED BY <3>1, <3>2, <2>4, SizesAssumption
              DEF Longer, TypeOK, Image, RawImage, Lengths, Journal, Blocks
  <2>7. JournalShape' BY <2>2 DEF IInv, JournalShape
  <2>8. DurableJournalOK' BY <2>2, <2>3, <2>5, <2>6 DEF IInv, DurableJournalOK, DurablyArmed
  <2>9. JournalOK' BY <2>2, <2>3, <2>5, <2>6 DEF IInv, JournalOK, Armed
  <2>10. ApplyOK'
    <3>1. img'.data = [img.data EXCEPT ![b] = staged.image.data[b]]
      BY <2>1 DEF WriteBlock
    <3>2. \A c \in Blocks \ todo' : img'.data[c] = staged.image.data[c]
      BY <3>1, <2>1, <2>3, <2>4 DEF TypeOK, Image, RawImage, Contents
    <3>3. side.origLen < side.newLen /\ side.newLen - 1 \notin todo' => img'.len = side.newLen
      <4> SUFFICES ASSUME side.origLen < side.newLen, side.newLen - 1 \notin todo'
                   PROVE  img'.len = side.newLen
        OBVIOUS
      <4>1. img'.len = Longer(img.len, b + 1) BY <2>1 DEF WriteBlock
      <4>2. img.len \in Nat /\ img.len <= side.newLen /\ b \in Nat /\ side.newLen \in Nat
        BY <2>3, <2>4, SizesAssumption
           DEF IInv, JournalOK, Armed, TypeOK, Image, RawImage, Lengths, Journal, Blocks
      <4>3. CASE b = side.newLen - 1 BY <4>1, <4>2, <4>3 DEF Longer
      <4>4. CASE b # side.newLen - 1
        <5>1. img.len = side.newLen BY <4>4, <2>1, <2>3
        <5>2. QED BY <5>1, <4>1, <4>2, <2>4 DEF Longer
      <4>5. QED BY <4>3, <4>4
    <3>4. todo' \subseteq BlocksIn(staged.extents, staged.image.len) BY <2>1, <2>3
    <3>5. QED BY <2>2, <2>3, <3>2, <3>3, <3>4 DEF ApplyOK
  <2>11. WholeBetween' /\ StagedOK' /\ RestoreOK' /\ RetireOK'
    BY <2>2 DEF WholeBetween, StagedOK, RestoreOK, RetireOK
  <2>12. QED BY <2>7, <2>8, <2>9, <2>10, <2>11 DEF IInv
<1>3. QED BY <1>1, <1>2

LEMMA ApplySyncStep ==
  ASSUME TypeOK, IInv, ApplySync
  PROVE  IInv'
<1>1. CASE ApplyFails BY <1>1, ApplyFailsInv
<1>2. CASE ~ApplyFails
  <2>1. /\ pc = "apply" /\ todo = {} /\ pc' = "retire" /\ cont' = "commit" /\ durImg' = img
        /\ UNCHANGED <<img, side, durSide, sideExists, durEntry, todo, staged, candidates>>
    BY <1>2 DEF ApplySync, history
  <2>2. /\ sideExists /\ durEntry /\ side = durSide /\ side.armed
        /\ staged.image \in candidates /\ side.newLen = staged.image.len
        /\ \A c \in Blocks : img.data[c] = staged.image.data[c]
        /\ side.origLen < side.newLen => img.len = side.newLen
    BY <2>1 DEF IInv, ApplyOK
  <2>3. img = staged.image
    <3>1. img.len = staged.image.len
      BY <2>2 DEF IInv, JournalOK, Armed, JournalShape, TypeOK, Journal, Lengths
    <3>2. img.data = staged.image.data
      BY <2>2 DEF TypeOK, Image, RawImage, Contents
    <3>3. img = [len |-> img.len, data |-> img.data]
          /\ staged.image = [len |-> staged.image.len, data |-> staged.image.data]
      BY DEF TypeOK, Image, RawImage
    <3>4. QED BY <3>1, <3>2, <3>3
  <2>4. JournalShape' BY <2>1 DEF IInv, JournalShape
  <2>5. DurableJournalOK' BY <2>1, <2>2 DEF IInv, DurableJournalOK, DurablyArmed
  <2>6. JournalOK' BY <2>1, <2>2 DEF IInv, JournalOK, Armed
  <2>7. WholeBetween' /\ RetireOK' BY <2>1, <2>2, <2>3 DEF WholeBetween, RetireOK
  <2>8. StagedOK' /\ ApplyOK' /\ RestoreOK' BY <2>1 DEF StagedOK, ApplyOK, RestoreOK
  <2>9. QED BY <2>4, <2>5, <2>6, <2>7, <2>8 DEF IInv
<1>3. QED BY <1>1, <1>2

\* retire's error: an undo after a commit, ignored otherwise.
LEMMA RetireFailsInv ==
  ASSUME TypeOK, IInv, RetireFails, pc \in {"retire", "retireSync"}
  PROVE  IInv'
<1>1. CASE cont = "commit" BY <1>1, ApplyFailsInv DEF RetireFails
<1>2. CASE cont # "commit"
  <2>1. Return(cont) /\ UNCHANGED disk /\ cont \in {"recordFailed", "undo", "open"}
    BY <1>2 DEF RetireFails, IInv, RetireOK
  <2>2. img = durImg /\ img \in candidates BY DEF IInv, WholeBetween
  <2>3. cont = "open" /\ Armed => Restored(img, side) = img
    BY TornType DEF IInv, RetireOK, Armed
  <2>4. QED BY <2>1, <2>2, <2>3, ReturnInv
<1>3. QED BY <1>1, <1>2

LEMMA RetireTruncateStep ==
  ASSUME TypeOK, IInv, RetireTruncate
  PROVE  IInv'
<1>1. CASE RetireFails BY <1>1, RetireFailsInv DEF RetireTruncate
<1>2. CASE ~RetireFails
  <2>1. /\ TruncateSidecar /\ pc = "retire" /\ pc' = "retireSync"
        /\ UNCHANGED <<cont, staged, candidates>>
    BY <1>2 DEF RetireTruncate, history
  <2>2. img = durImg /\ img \in candidates /\ UNCHANGED <<img, durImg>>
    BY <2>1 DEF IInv, WholeBetween, TruncateSidecar
  <2>3. JournalShape' /\ DurableJournalOK' /\ JournalOK' /\ side' = Torn /\ sideExists'
    BY <2>1, <2>2, TruncateInv
  <2>4. WholeBetween' BY <2>1, <2>2 DEF WholeBetween
  <2>5. RetireOK' BY <2>1, <2>2, <2>3 DEF IInv, RetireOK
  <2>6. StagedOK' /\ ApplyOK' /\ RestoreOK' BY <2>1 DEF StagedOK, ApplyOK, RestoreOK
  <2>7. QED BY <2>3, <2>4, <2>5, <2>6 DEF IInv
<1>3. QED BY <1>1, <1>2

LEMMA RetireSyncStep ==
  ASSUME TypeOK, IInv, RetireSync
  PROVE  IInv'
<1>1. CASE RetireFails BY <1>1, RetireFailsInv DEF RetireSync
<1>2. CASE ~RetireFails
  <2>1. /\ pc = "retireSync" /\ pc' = "retireRemove" /\ durSide' = side
        /\ UNCHANGED <<img, durImg, side, sideExists, durEntry, cont, staged, candidates>>
    BY <1>2 DEF RetireSync, history
  <2>2. img = durImg /\ img \in candidates /\ side = Torn /\ sideExists
    BY <2>1 DEF IInv, WholeBetween, RetireOK
  <2>3. JournalShape' BY <2>1, <2>2, TornType DEF JournalShape
  <2>4. DurableJournalOK' BY <2>1, <2>2, TornType DEF DurableJournalOK, DurablyArmed
  <2>5. JournalOK' BY <2>1, <2>2, TornType DEF JournalOK, Armed
  <2>6. WholeBetween' BY <2>1, <2>2 DEF WholeBetween
  <2>7. RetireOK' BY <2>1, <2>2 DEF IInv, RetireOK
  <2>8. StagedOK' /\ ApplyOK' /\ RestoreOK' BY <2>1 DEF StagedOK, ApplyOK, RestoreOK
  <2>9. QED BY <2>3, <2>4, <2>5, <2>6, <2>7, <2>8 DEF IInv
<1>3. QED BY <1>1, <1>2

LEMMA RetireRemoveStep ==
  ASSUME TypeOK, IInv, RetireRemove
  PROVE  IInv'
<1>1. /\ pc = "retireRemove" /\ Return(cont)
      /\ UNCHANGED <<img, durImg, side, durSide>>
      /\ sideExists' \in BOOLEAN
  BY DEF RetireRemove, TypeOK
<1>2. /\ img = durImg /\ img \in candidates /\ side = Torn /\ durSide = Torn
      /\ cont = "commit" => img = staged.image
  BY <1>1 DEF IInv, WholeBetween, RetireOK
<1>3. pc' = "idle" /\ img \in candidates'
  BY <1>1, <1>2 DEF Return, history
<1>4. JournalShape' BY <1>1, <1>2, TornType DEF JournalShape
<1>5. DurableJournalOK' BY <1>1, <1>2, TornType DEF DurableJournalOK, DurablyArmed
<1>6. JournalOK' BY <1>1, <1>2, <1>3, TornType DEF JournalOK, Armed
<1>7. WholeBetween' /\ StagedOK' /\ ApplyOK' /\ RestoreOK' /\ RetireOK'
  BY <1>1, <1>2, <1>3 DEF WholeBetween, StagedOK, ApplyOK, RestoreOK, RetireOK
<1>8. QED BY <1>4, <1>5, <1>6, <1>7 DEF IInv

LEMMA ReconcileReadStep ==
  ASSUME TypeOK, IInv, ReconcileRead
  PROVE  IInv'
<1>1. UNCHANGED disk /\ pc = "reconcile" /\ cont \in {"undo", "open"}
  BY DEF ReconcileRead, IInv, RetireOK
<1>2. CASE ReconcileFailed
  <2>1. candidates' = candidates BY <1>2 DEF ReconcileFailed, history
  <2>2. QED BY <1>1, <1>2, <2>1, DiskStill, ReconcileFailedInv
<1>3. CASE ~sideExists /\ Return(cont)
  <2>1. img = durImg /\ img \in candidates /\ ~Armed BY <1>3 DEF IInv, JournalOK, Armed
  <2>2. QED BY <1>1, <1>3, <2>1, ReturnInv
<1>4. CASE /\ sideExists /\ ~side.armed /\ pc' = "retire"
           /\ UNCHANGED <<cont, staged, candidates>>
  <2>1. img = durImg /\ img \in candidates /\ ~Armed BY <1>4 DEF IInv, JournalOK, Armed
  <2>2. JournalShape' /\ DurableJournalOK' /\ JournalOK' BY <1>1, <1>4, DiskStill
  <2>3. WholeBetween' BY <1>1, <1>4, <2>1 DEF WholeBetween, disk
  <2>4. RetireOK' BY <1>1, <1>4, <2>1 DEF RetireOK, disk, Armed
  <2>5. StagedOK' /\ ApplyOK' /\ RestoreOK' BY <1>4 DEF StagedOK, ApplyOK, RestoreOK
  <2>6. QED BY <2>2, <2>3, <2>4, <2>5 DEF IInv
<1>5. CASE /\ sideExists /\ side.armed /\ pc' = "restore" /\ todo' = side.covers
           /\ UNCHANGED <<cont, staged, candidates>>
  <2>1. JournalShape' /\ DurableJournalOK' /\ JournalOK' BY <1>1, <1>5, DiskStill
  <2>2. RestoreOK' BY <1>1, <1>5 DEF RestoreOK, disk
  <2>3. WholeBetween' /\ StagedOK' /\ ApplyOK' /\ RetireOK'
    BY <1>1, <1>5 DEF WholeBetween, StagedOK, ApplyOK, RetireOK
  <2>4. QED BY <2>1, <2>2, <2>3 DEF IInv
<1>6. QED BY <1>2, <1>3, <1>4, <1>5 DEF ReconcileRead, history

LEMMA RestoreBlockStep ==
  ASSUME TypeOK, IInv, RestoreBlock
  PROVE  IInv'
<1>1. CASE ReconcileFailed /\ UNCHANGED disk
  <2>1. candidates' = candidates BY <1>1 DEF ReconcileFailed, history
  <2>2. QED BY <1>1, <2>1, DiskStill, ReconcileFailedInv
<1>2. CASE ~(ReconcileFailed /\ UNCHANGED disk)
  <2>1. PICK b \in todo : /\ img' = WriteBlock(img, b, side.undo[b])
                          /\ todo' = todo \ {b}
    BY <1>2 DEF RestoreBlock
  <2>2. /\ pc = "restore" /\ pc' = "restore"
        /\ UNCHANGED <<durImg, side, durSide, sideExists, durEntry, cont, staged, candidates>>
    BY <1>2 DEF RestoreBlock, history
  <2>3. /\ sideExists /\ side.armed /\ Armed /\ todo \subseteq side.covers
        /\ \A c \in side.covers \ todo : img.data[c] = side.undo[c]
        /\ img.len \in side.origLen .. side.newLen
        /\ Restored(img, side) \in candidates
    BY <2>2 DEF IInv, RestoreOK, JournalOK, Armed
  <2>4. b \in Blocks /\ b \in side.covers /\ b < side.origLen /\ side.undo[b] \in Vals
    BY <2>1, <2>3 DEF IInv, JournalShape, TypeOK, Journal, Contents
  <2>5. Restored(img', side) = Restored(img, side)
    BY <2>1, <2>4, RestoredWrite DEF TypeOK
  <2>6. img'.len = img.len
    BY <2>1, <2>3, <2>4, SizesAssumption
       DEF WriteBlock, Longer, TypeOK, Image, RawImage, Lengths, Blocks, Journal
  <2>7. (side = durSide /\ durEntry) \/ img' = img
    <3>1. SUFFICES ASSUME ~(side = durSide /\ durEntry) PROVE img' = img
      OBVIOUS
    <3>2. Restored(img, side) = img BY <3>1, <2>3 DEF IInv, JournalOK
    <3>3. Restored(img, side).data[b] = side.undo[b]
      BY <2>4, SizesAssumption DEF Restored, Blocks, TypeOK, Journal, Lengths
    <3>4. img.data[b] = side.undo[b] BY <3>2, <3>3
    <3>5. b < img.len
      BY <2>3, <2>4, SizesAssumption DEF TypeOK, Image, RawImage, Lengths, Blocks, Journal
    <3>6. QED BY <2>1, <2>4, <3>4, <3>5, RewriteNoop DEF TypeOK
  <2>8. JournalShape' BY <2>2 DEF IInv, JournalShape
  <2>9. DurableJournalOK'
    <3>1. CASE side = durSide /\ durEntry
      BY <3>1, <2>2, <2>3, <2>5, <2>6 DEF IInv, DurableJournalOK, DurablyArmed
    <3>2. CASE img' = img BY <3>2, <2>2 DEF IInv, DurableJournalOK, DurablyArmed
    <3>3. QED BY <2>7, <3>1, <3>2
  <2>10. JournalOK'
    <3>1. CASE side = durSide /\ durEntry
      BY <3>1, <2>2, <2>3, <2>5, <2>6 DEF JournalOK, Armed
    <3>2. CASE img' = img BY <3>2, <2>2 DEF IInv, JournalOK, Armed
    <3>3. QED BY <2>7, <3>1, <3>2
  <2>11. RestoreOK'
    <3>1. img'.data = [img.data EXCEPT ![b] = side.undo[b]] BY <2>1 DEF WriteBlock
    <3>2. \A c \in side.covers \ todo' : img'.data[c] = side.undo[c]
      BY <3>1, <2>1, <2>3, <2>4 DEF TypeOK, Image, RawImage, Contents, Journal
    <3>3. QED BY <3>2, <2>1, <2>2, <2>3 DEF RestoreOK
  <2>12. RetireOK' BY <2>2 DEF IInv, RetireOK
  <2>13. WholeBetween' /\ StagedOK' /\ ApplyOK'
    BY <2>2 DEF WholeBetween, StagedOK, ApplyOK
  <2>14. QED BY <2>8, <2>9, <2>10, <2>11, <2>12, <2>13 DEF IInv
<1>3. QED BY <1>1, <1>2

LEMMA RestoreTruncateStep ==
  ASSUME TypeOK, IInv, RestoreTruncate
  PROVE  IInv'
<1>1. /\ pc = "restore" /\ todo = {} /\ img' = SetLen(img, side.origLen)
      /\ UNCHANGED <<side, durSide, sideExists, durEntry>>
      /\ candidates' = candidates
      /\ \/ durImg' = img' /\ pc' = "retire" /\ cont' = cont
         \/ durImg' = durImg /\ ReconcileFailed
  BY DEF RestoreTruncate, ReconcileFailed, history
<1>2. /\ sideExists /\ side.armed /\ Armed /\ cont \in {"undo", "open"}
      /\ \A c \in side.covers : img.data[c] = side.undo[c]
      /\ img.len \in side.origLen .. side.newLen
      /\ side.origLen \in Nat /\ side.newLen \in Nat /\ side.origLen <= side.newLen
      /\ Restored(img, side) \in candidates
  BY <1>1 DEF IInv, RestoreOK, RetireOK, JournalOK, Armed, TypeOK, Journal, Lengths
<1>3. img' = Restored(img, side)
  <2>1. \A b \in Blocks :
          (IF b < side.origLen THEN img.data[b] ELSE Zero)
            = (IF b >= side.origLen THEN Zero
               ELSE IF b \in side.covers THEN side.undo[b] ELSE img.data[b])
    BY <1>2, SizesAssumption DEF Blocks
  <2>2. QED BY <1>1, <2>1 DEF SetLen, Restored
<1>4. img' \in candidates BY <1>2, <1>3
<1>5. Restored(img', side) = img' BY <1>3, RestoredFix DEF TypeOK
<1>6. img'.len = side.origLen /\ img'.len \in side.origLen .. side.newLen
  BY <1>1, <1>2 DEF SetLen
<1>7. (side = durSide /\ durEntry) \/ (img' = img /\ img = durImg)
  BY <1>2, <1>3 DEF IInv, JournalOK
<1>8. JournalShape' BY <1>1 DEF IInv, JournalShape
<1>9. DurableJournalOK'
  <2>1. CASE side = durSide /\ durEntry
    <3>1. CASE durImg' = img'
      BY <3>1, <2>1, <1>1, <1>2, <1>3, <1>5, <1>6 DEF DurableJournalOK, DurablyArmed
    <3>2. CASE durImg' = durImg
      BY <3>2, <2>1, <1>1, <1>2, <1>3, <1>5, <1>6 DEF IInv, DurableJournalOK, DurablyArmed
    <3>3. QED BY <1>1, <3>1, <3>2
  <2>2. CASE img' = img /\ img = durImg
    BY <2>2, <1>1 DEF IInv, DurableJournalOK, DurablyArmed
  <2>3. QED BY <1>7, <2>1, <2>2
<1>10. JournalOK'
  <2>1. CASE side = durSide /\ durEntry
    BY <2>1, <1>1, <1>2, <1>4, <1>5, <1>6 DEF JournalOK, Armed
  <2>2. CASE img' = img /\ img = durImg
    BY <2>2, <1>1 DEF IInv, JournalOK, Armed
  <2>3. QED BY <1>7, <2>1, <2>2
<1>11. CASE ReconcileFailed BY <1>8, <1>9, <1>10, <1>11, ReconcileFailedInv
<1>12. CASE durImg' = img' /\ pc' = "retire" /\ cont' = cont
  <2>1. WholeBetween' BY <1>1, <1>4, <1>12 DEF WholeBetween
  <2>2. RetireOK' BY <1>1, <1>2, <1>5, <1>12 DEF RetireOK
  <2>3. StagedOK' /\ ApplyOK' /\ RestoreOK' BY <1>12 DEF StagedOK, ApplyOK, RestoreOK
  <2>4. QED BY <1>8, <1>9, <1>10, <2>1, <2>2, <2>3 DEF IInv
<1>13. QED BY <1>1, <1>11, <1>12

-----------------------------------------------------------------------------
(* The host *)

\* Write-back of the image disturbs nothing but an image under a journal
\* that stable storage holds.
LEMMA ImageWritebackInv ==
  ASSUME IInv, UNCHANGED <<img, side, durSide, sideExists, durEntry, pc, cont, todo, staged, failed, candidates>>,
         durImg' # durImg =>
           /\ img # durImg
           /\ DurablyArmed => /\ Restored(durImg', durSide) = Restored(durImg, durSide)
                              /\ durImg'.len \in durSide.origLen .. durSide.newLen
  PROVE  IInv'
<1>1. CASE durImg' = durImg
  <2>1. UNCHANGED disk BY <1>1 DEF disk
  <2>2. JournalShape' /\ DurableJournalOK' /\ JournalOK' BY <2>1, DiskStill
  <2>3. WholeBetween' /\ StagedOK' /\ ApplyOK' /\ RestoreOK' /\ RetireOK'
    BY <1>1 DEF IInv, WholeBetween, StagedOK, ApplyOK, RestoreOK, RetireOK, Armed
  <2>4. QED BY <2>2, <2>3 DEF IInv
<1>2. CASE durImg' # durImg
  <2>1. img # durImg /\ DurablyArmed /\ Armed /\ side = durSide
    BY <1>2 DEF IInv, DurableJournalOK, JournalOK
  <2>2. /\ Restored(durImg', durSide) = Restored(durImg, durSide)
        /\ durImg'.len \in durSide.origLen .. durSide.newLen
    BY <1>2, <2>1
  <2>3. JournalShape' BY DEF IInv, JournalShape
  <2>4. DurableJournalOK' BY <2>1, <2>2 DEF IInv, DurableJournalOK, DurablyArmed
  <2>5. JournalOK' BY <2>1 DEF IInv, JournalOK, Armed, DurablyArmed
  <2>6. WholeBetween' BY <2>1 DEF IInv, WholeBetween
  <2>7. StagedOK' /\ ApplyOK' /\ RestoreOK' /\ RetireOK'
    BY DEF IInv, StagedOK, ApplyOK, RestoreOK, RetireOK, Armed
  <2>8. QED BY <2>3, <2>4, <2>5, <2>6, <2>7 DEF IInv
<1>3. QED BY <1>1, <1>2

LEMMA HostStep ==
  ASSUME TypeOK, IInv, Host
  PROVE  IInv'
<1>1. UNCHANGED <<pc, cont, todo, staged, failed, candidates>>
  BY DEF Host, session, history
<1>2. DurablyArmed => /\ img.len \in durSide.origLen .. durSide.newLen
                      /\ durImg.len \in durSide.origLen .. durSide.newLen
                      /\ Restored(img, durSide) = Restored(durImg, durSide)
                      /\ durSide.origLen \in Nat /\ durSide.newLen \in Nat
  BY DEF IInv, DurableJournalOK, DurablyArmed, TypeOK, Journal, Lengths
<1>3. ASSUME NEW b \in Blocks, WritebackBlock(b) PROVE IInv'
  <2>1. /\ b < img.len /\ durImg' = WriteBlock(durImg, b, img.data[b])
        /\ UNCHANGED <<img, side, durSide, sideExists, durEntry>>
    BY <1>3 DEF WritebackBlock
  <2>2. img = durImg => durImg' = durImg
    BY <2>1, RewriteNoop DEF TypeOK
  <2>3. DurablyArmed => Restored(durImg', durSide) = Restored(durImg, durSide)
    BY <1>2, <2>1, RestoredWriteback DEF TypeOK
  <2>4. DurablyArmed => durImg'.len \in durSide.origLen .. durSide.newLen
    <3>1. durImg'.len = Longer(durImg.len, b + 1) BY <2>1 DEF WriteBlock
    <3>2. QED BY <3>1, <2>1, <1>2, SizesAssumption
              DEF Longer, TypeOK, Image, RawImage, Lengths, Blocks
  <2>5. QED BY <1>1, <2>1, <2>2, <2>3, <2>4, ImageWritebackInv
<1>4. CASE WritebackLength
  <2>1. /\ durImg' = SetLen(durImg, img.len) /\ img.len \in Lengths
        /\ UNCHANGED <<img, side, durSide, sideExists, durEntry>>
    BY <1>4 DEF WritebackLength, TypeOK, Image, RawImage
  <2>2. img = durImg => durImg' = durImg
    BY <2>1, SetLenNoop DEF TypeOK
  <2>3. DurablyArmed => Restored(durImg', durSide) = Restored(durImg, durSide)
    BY <1>2, <2>1, RestoredSetLen DEF TypeOK
  <2>4. durImg'.len = img.len BY <2>1 DEF SetLen
  <2>5. QED BY <1>1, <1>2, <2>1, <2>2, <2>3, <2>4, ImageWritebackInv
<1>5. CASE WritebackSidecar
  <2>1. /\ side # durSide /\ durSide' \in {side, Torn}
        /\ UNCHANGED <<img, durImg, side, sideExists, durEntry>>
    BY <1>5 DEF WritebackSidecar
  <2>2. img = durImg /\ (Armed => Restored(img, side) = img)
    BY <2>1 DEF IInv, JournalOK
  <2>3. img \in candidates BY <2>2 DEF IInv, JournalOK
  <2>4. JournalShape' BY <2>1, TornType DEF IInv, JournalShape
  <2>5. durSide'.armed => Armed /\ durSide' = side
    BY <2>1, TornType DEF IInv, JournalOK, Armed
  <2>6. DurableJournalOK'
    BY <2>1, <2>2, <2>3, <2>5, <1>1 DEF IInv, JournalOK, DurableJournalOK, DurablyArmed
  <2>7. JournalOK' BY <2>1, <2>2, <2>3, <2>5, <1>1 DEF IInv, JournalOK, Armed
  <2>8. WholeBetween' /\ StagedOK' /\ ApplyOK' /\ RestoreOK' /\ RetireOK'
    BY <2>1, <1>1, TornType DEF IInv, WholeBetween, StagedOK, ApplyOK, RestoreOK, RetireOK, Armed
  <2>9. QED BY <2>4, <2>6, <2>7, <2>8 DEF IInv
<1>6. CASE WritebackEntry
  <2>1. /\ durEntry' = sideExists
        /\ UNCHANGED <<img, durImg, side, durSide, sideExists>>
    BY <1>6 DEF WritebackEntry
  <2>2. JournalShape' BY <2>1 DEF IInv, JournalShape
  <2>3. DurableJournalOK'
    BY <2>1, <1>1 DEF IInv, DurableJournalOK, DurablyArmed, JournalOK, Armed
  <2>4. JournalOK' BY <2>1, <1>1 DEF IInv, JournalOK, Armed
  <2>5. WholeBetween' /\ StagedOK' /\ ApplyOK' /\ RestoreOK' /\ RetireOK'
    BY <2>1, <1>1 DEF IInv, WholeBetween, StagedOK, ApplyOK, RestoreOK, RetireOK, Armed
  <2>6. QED BY <2>2, <2>3, <2>4, <2>5 DEF IInv
<1>7. QED BY <1>3, <1>4, <1>5, <1>6 DEF Host

LEMMA PowerLossStep ==
  ASSUME TypeOK, IInv, PowerLoss
  PROVE  IInv'
<1>1. /\ img' = durImg /\ durImg' = durImg
      /\ side' = (IF durEntry THEN durSide ELSE Torn) /\ durSide' = side'
      /\ sideExists' = durEntry /\ durEntry' = durEntry
      /\ pc' = "closed" /\ candidates' = candidates
  BY DEF PowerLoss, SessionGone, history
<1>2. ~DurablyArmed => img = durImg /\ img \in candidates
  <2>1. SUFFICES ASSUME ~DurablyArmed, Armed PROVE img \in candidates
    BY DEF IInv, DurableJournalOK, JournalOK
  <2>2. side # durSide \/ ~durEntry BY <2>1 DEF Armed, DurablyArmed
  <2>3. QED BY <2>1, <2>2 DEF IInv, JournalOK
<1>3. side'.armed => DurablyArmed /\ side' = durSide
  BY <1>1, TornType DEF DurablyArmed
<1>4. JournalShape' BY <1>1, TornType DEF IInv, JournalShape
<1>5. DurableJournalOK'
  BY <1>1, <1>2, <1>3 DEF IInv, DurableJournalOK, DurablyArmed
<1>6. JournalOK'
  BY <1>1, <1>2, <1>3, TornType DEF IInv, DurableJournalOK, JournalOK, Armed, DurablyArmed
<1>7. WholeBetween' /\ StagedOK' /\ ApplyOK' /\ RestoreOK' /\ RetireOK'
  BY <1>1 DEF WholeBetween, StagedOK, ApplyOK, RestoreOK, RetireOK
<1>8. QED BY <1>4, <1>5, <1>6, <1>7 DEF IInv

-----------------------------------------------------------------------------
(* The theorems *)

LEMMA InvStep ==
  ASSUME ParentSync, TypeOK, IInv, [Next]_vars
  PROVE  IInv'
<1>1. CASE UNCHANGED vars
  <2>1. UNCHANGED disk /\ UNCHANGED <<pc, cont, todo, staged, failed, candidates>>
    BY <1>1 DEF vars, session, history
  <2>2. JournalShape' /\ DurableJournalOK' /\ JournalOK' BY <2>1, DiskStill
  <2>3. WholeBetween' /\ StagedOK' /\ ApplyOK' /\ RestoreOK' /\ RetireOK'
    BY <2>1 DEF IInv, WholeBetween, StagedOK, ApplyOK, RestoreOK, RetireOK, Armed, disk
  <2>4. QED BY <2>2, <2>3 DEF IInv
<1>2. CASE Program
  BY <1>2, SessionSteps, StageStep, CommitCleanStep, RecordCreateStep, RecordWriteStep,
     RecordSyncStep, ApplyBlockStep, ApplySyncStep, RetireTruncateStep, RetireSyncStep,
     RetireRemoveStep, ReconcileReadStep, RestoreBlockStep, RestoreTruncateStep
     DEF Program
<1>3. QED BY <1>1, <1>2, SessionSteps, HostStep, PowerLossStep DEF Next

\* Under a parent directory that can be synced, the invariant behind the
\* recovery promise holds whatever host calls fail and however often the
\* process or the power is lost.
THEOREM InvCorrect == ParentSync => (Spec => []IInv)
<1> SUFFICES ASSUME ParentSync PROVE Spec => []IInv
  OBVIOUS
<1>1. Init => IInv BY InvInit
<1>2. TypeOK /\ IInv /\ [Next]_vars => IInv' BY InvStep
<1>3. QED BY <1>1, <1>2, TypeCorrect, PTL DEF Spec

LEMMA InvIsWhole ==
  ASSUME IInv
  PROVE  RecoveryIsWhole
<1>1. Recovered \in candidates
  BY DEF IInv, JournalOK, Armed, Recovered
<1>2. DurableRecovered \in candidates
  <2>1. CASE DurablyArmed
    BY <2>1 DEF IInv, DurableJournalOK, DurablyArmed, DurableRecovered
  <2>2. CASE ~DurablyArmed
    <3>1. img = durImg BY <2>2 DEF IInv, DurableJournalOK
    <3>2. img \in candidates
      <4>1. CASE Armed
        BY <4>1, <2>2, <3>1 DEF IInv, JournalOK, Armed, DurablyArmed
      <4>2. QED BY <4>1 DEF IInv, JournalOK
    <3>3. QED BY <2>2, <3>1, <3>2 DEF DurableRecovered, DurablyArmed
  <2>3. QED BY <2>1, <2>2
<1>3. QED BY <1>1, <1>2 DEF RecoveryIsWhole

\* Interruption never invents a third state (commit.rs:6-9): at every instant
\* the next open exposes an image some commit proposed whole, from the files
\* as they are and from stable storage alone.
THEOREM RecoveryTheorem == ParentSync => (Spec => []RecoveryIsWhole)
<1> SUFFICES ASSUME ParentSync PROVE Spec => []RecoveryIsWhole
  OBVIOUS
<1>1. IInv => RecoveryIsWhole BY InvIsWhole
<1>2. QED BY <1>1, InvCorrect, PTL

\* No open refuses a journal this library armed (journal.rs:305).
THEOREM JournalMatchesTheorem == ParentSync => (Spec => []JournalMatchesImage)
<1> SUFFICES ASSUME ParentSync PROVE Spec => []JournalMatchesImage
  OBVIOUS
<1>1. IInv => JournalMatchesImage
  BY DEF IInv, JournalOK, Armed, JournalMatchesImage
<1>2. QED BY <1>1, InvCorrect, PTL

\* Only a failed undo leaves a session failed, and it reports an error.
LEMMA FailedSessionHolds == Spec => []FailedSession
<1>1. Init => FailedSession BY DEF Init, FailedSession
<1>2. FailedSession /\ [Next]_vars => FailedSession'
  <2> SUFFICES ASSUME FailedSession, [Next]_vars PROVE FailedSession'
    OBVIOUS
  <2> USE DEF FailedSession, session, vars
  <2>1. CASE UNCHANGED vars BY <2>1
  <2>2. CASE Buffer \/ Rollback \/ Close \/ Open BY <2>2 DEF Buffer, Rollback, Close, Open
  <2>3. CASE \E t \in Image, E \in SUBSET Extents : Stage(t, E) BY <2>3 DEF Stage
  <2>4. CASE StageRefused \/ CommitClean BY <2>4 DEF StageRefused, CommitClean
  <2>5. CASE RecordCreate \/ RecordWrite \/ RecordSync
    BY <2>5 DEF RecordCreate, RecordWrite, RecordSync, RecordFails
  <2>6. CASE ApplyBlock \/ ApplySync BY <2>6 DEF ApplyBlock, ApplySync, ApplyFails
  <2>7. CASE RetireTruncate \/ RetireSync \/ RetireRemove
    BY <2>7 DEF RetireTruncate, RetireSync, RetireRemove, RetireFails, ApplyFails, Return
  <2>8. CASE ReconcileRead \/ RestoreBlock \/ RestoreTruncate
    BY <2>8 DEF ReconcileRead, RestoreBlock, RestoreTruncate, ReconcileFailed, Return
  <2>9. CASE Host \/ Crash \/ PowerLoss BY <2>9 DEF Host, Crash, PowerLoss, SessionGone
  <2>10. QED BY <2>1, <2>2, <2>3, <2>4, <2>5, <2>6, <2>7, <2>8, <2>9 DEF Next, Program
<1>3. QED BY <1>1, <1>2, PTL DEF Spec

\* A successful commit's image is never taken back (commit.rs:136-137): until
\* another commit is staged nothing else can be exposed.
THEOREM AckedTheorem == ParentSync => (Spec => []AckedCommitIsDurable)
<1> SUFFICES ASSUME ParentSync PROVE Spec => []AckedCommitIsDurable
  OBVIOUS
<1>1. IInv /\ RecoveryIsWhole /\ FailedSession => AckedCommitIsDurable
  BY DEF IInv, WholeBetween, RecoveryIsWhole, FailedSession, AckedCommitIsDurable
<1>2. QED BY <1>1, InvCorrect, RecoveryTheorem, FailedSessionHolds, PTL

\* Write-ahead (journal.rs:4-8): a session changes the image file only under
\* a journal whose name and content stable storage holds.
THEOREM WriteAhead == ParentSync => (Spec => ImageChangesUnderJournal)
<1> SUFFICES ASSUME ParentSync PROVE Spec => ImageChangesUnderJournal
  OBVIOUS
<1>1. TypeOK /\ IInv /\ [Next]_vars
        => [img' # img /\ pc' # "closed" => durEntry /\ durSide.armed]_vars
  <2> SUFFICES ASSUME TypeOK, IInv, Next, img' # img, pc' # "closed"
               PROVE  durEntry /\ durSide.armed
    BY DEF vars, disk
  <2>1. CASE ApplyBlock
    BY <2>1 DEF ApplyBlock, IInv, ApplyOK
  <2>2. CASE RestoreBlock \/ RestoreTruncate
    <3>1. pc = "restore" /\ Armed
      BY <2>2 DEF RestoreBlock, RestoreTruncate, IInv, RestoreOK, Armed
    <3>2. CASE side = durSide /\ durEntry BY <3>1, <3>2 DEF Armed
    <3>3. CASE ~(side = durSide /\ durEntry)
      <4>1. Restored(img, side) = img BY <3>1, <3>3 DEF IInv, JournalOK
      <4>2. CASE RestoreBlock
        <5>1. PICK b \in todo : img' = WriteBlock(img, b, side.undo[b])
          BY <4>2 DEF RestoreBlock, disk
        <5>2. b \in Blocks /\ b \in side.covers /\ b < side.origLen /\ b < img.len
          BY <3>1, <5>1, SizesAssumption
             DEF IInv, RestoreOK, JournalShape, JournalOK, Armed, TypeOK, Journal,
                 Image, RawImage, Lengths, Blocks
        <5>3. Restored(img, side).data[b] = side.undo[b]
          BY <5>2, SizesAssumption DEF Restored, Blocks, TypeOK, Journal, Lengths
        <5>4. img' = img BY <4>1, <5>1, <5>2, <5>3, RewriteNoop DEF TypeOK
        <5>5. QED BY <5>4
      <4>3. CASE RestoreTruncate
        <5>1. img.len = side.origLen BY <4>1 DEF Restored
        <5>2. img' = img BY <4>3, <5>1, SetLenNoop DEF RestoreTruncate, TypeOK
        <5>3. QED BY <5>2
      <4>4. QED BY <2>2, <4>2, <4>3
    <3>4. QED BY <3>2, <3>3
  <2>3. UNCHANGED img \/ ApplyBlock \/ RestoreBlock \/ RestoreTruncate
    <3> USE DEF disk
    <3>1. CASE Buffer \/ Rollback \/ Close \/ Open \/ StageRefused \/ CommitClean
      BY <3>1 DEF Buffer, Rollback, Close, Open, StageRefused, CommitClean
    <3>2. CASE \E t \in Image, E \in SUBSET Extents : Stage(t, E) BY <3>2 DEF Stage
    <3>3. CASE RecordCreate \/ RecordWrite \/ RecordSync \/ ApplySync
      BY <3>3 DEF RecordCreate, RecordWrite, RecordSync, RecordFails, TruncateSidecar,
                  ApplySync, ApplyFails
    <3>4. CASE RetireTruncate \/ RetireSync \/ RetireRemove \/ ReconcileRead
      BY <3>4 DEF RetireTruncate, RetireSync, RetireRemove, RetireFails, ApplyFails,
                  TruncateSidecar, ReconcileRead
    <3>5. CASE Host
      BY <3>5 DEF Host, WritebackBlock, WritebackLength, WritebackSidecar, WritebackEntry
    <3>6. CASE Crash \/ PowerLoss BY <3>6 DEF Crash, PowerLoss, SessionGone
    <3>7. QED BY <3>1, <3>2, <3>3, <3>4, <3>5, <3>6 DEF Next, Program
  <2>4. QED BY <2>1, <2>2, <2>3
<1>2. QED BY <1>1, TypeCorrect, InvCorrect, PTL DEF Spec, ImageChangesUnderJournal

-----------------------------------------------------------------------------
(* The session's tables and the undo, where no sidecar sync fails after the *)
(* truncation before it                                                     *)

LEMMA ReturnSession ==
  ASSUME IInv, SessionOK, NEW c, Return(c), c = cont, UNCHANGED img,
         \/ pc \in {"retire", "retireRemove"} /\ (pc = "retire" => cont # "commit")
         \/ pc = "reconcile" /\ cont = "open"
  PROVE  SessionOK'
<1>1. pc' = "idle" BY DEF Return
<1>2. c = "commit" => driver = img /\ driver' = driver
  BY DEF Return, IInv, RetireOK, SessionOK
<1>3. c \in {"recordFailed", "undo"} => driver' = staged.before /\ staged.before = img
  BY DEF Return, SessionOK
<1>4. c = "open" => driver' = img BY DEF Return
<1>5. driver' = img' BY <1>2, <1>3, <1>4 DEF Return
<1>6. QED BY <1>1, <1>5 DEF SessionOK

LEMMA ReconcileFailedSession ==
  ASSUME ReconcileFailed
  PROVE  SessionOK'
BY DEF ReconcileFailed, SessionOK

\* A recording that fails leaves the image as the commit found it.
LEMMA RecordFailsSession ==
  ASSUME SessionOK, RecordFails, pc \in {"staged", "recording", "sealing"}
  PROVE  SessionOK'
BY DEF SessionOK, RecordFails, disk, session

\* A commit that cannot be finished goes to the undo under its own journal.
LEMMA ApplyFailsSession ==
  ASSUME SessionOK, ApplyFails, pc = "apply" \/ (pc = "retire" /\ cont = "commit")
  PROVE  SessionOK'
<1>1. /\ pc' = "reconcile" /\ cont' = "undo"
      /\ UNCHANGED <<img, side, sideExists, staged>>
  BY DEF ApplyFails, disk
<1>2. Armed /\ Restored(img, side) = staged.before BY DEF SessionOK
<1>3. Armed' /\ Restored(img', side') = staged'.before BY <1>1, <1>2 DEF Armed
<1>4. QED BY <1>1, <1>3 DEF SessionOK

\* A staging that dirtied nothing is the image itself.
LEMMA StageableNothing ==
  ASSUME NEW i \in Image, NEW t \in Image, Stageable(i, t, {})
  PROVE  t = i
<1>1. t.len = i.len BY DEF Stageable, Image, RawImage, Lengths
<1>2. \A b \in Blocks : t.data[b] = i.data[b] BY DEF Stageable
<1>3. t.data = i.data BY <1>2 DEF Image, RawImage, Contents
<1>4. QED BY <1>1, <1>3 DEF Image, RawImage

LEMMA IdleSession ==
  ASSUME TypeOK, IInv, SessionOK, Buffer \/ Rollback \/ Close \/ Open \/ StageRefused \/ CommitClean
  PROVE  SessionOK'
<1> USE DEF disk, session
<1>1. CASE Buffer \/ Rollback BY <1>1 DEF Buffer, Rollback, SessionOK, Armed
<1>2. CASE Close \/ Open BY <1>2 DEF Close, Open, SessionOK
<1>3. CASE StageRefused BY <1>3 DEF StageRefused, SessionOK
<1>4. CASE CommitClean
  <2>1. /\ pc = "staged" /\ staged.extents = {} /\ pc' = "idle"
        /\ UNCHANGED <<img, driver>>
    BY <1>4 DEF CommitClean
  <2>2. staged.image = img
    BY <2>1, StageableNothing DEF IInv, StagedOK, TypeOK
  <2>3. QED BY <2>1, <2>2 DEF SessionOK
<1>5. QED BY <1>1, <1>2, <1>3, <1>4

LEMMA RecordSession ==
  ASSUME TypeOK, IInv, SessionOK, RecordCreate \/ RecordWrite \/ RecordSync
  PROVE  SessionOK'
<1> USE DEF session
<1>1. CASE RecordCreate
  <2>1. pc = "staged" BY <1>1 DEF RecordCreate
  <2>2. CASE RecordFails BY <2>1, <2>2, RecordFailsSession
  <2>3. CASE pc' = "recording" /\ UNCHANGED <<staged, driver, img>>
    BY <2>1, <2>3 DEF SessionOK
  <2>4. QED BY <1>1, <2>2, <2>3 DEF RecordCreate, TruncateSidecar
<1>2. CASE RecordWrite
  <2>1. pc = "recording" BY <1>2 DEF RecordWrite
  <2>2. CASE RecordFails BY <2>1, <2>2, RecordFailsSession
  <2>3. CASE pc' = "sealing" /\ UNCHANGED <<staged, driver, img>>
    BY <2>1, <2>3 DEF SessionOK
  <2>4. QED BY <1>2, <2>2, <2>3 DEF RecordWrite
<1>3. CASE RecordSync
  <2>1. pc = "sealing" /\ sideExists /\ side = JournalFor(img, staged)
    BY <1>3 DEF RecordSync, IInv, StagedOK
  <2>2. CASE RecordFails BY <2>1, <2>2, RecordFailsSession
  <2>3. CASE pc' = "apply" /\ UNCHANGED <<staged, driver, img, side, sideExists>>
    <3>1. driver = staged.image /\ staged.before = img BY <2>1 DEF SessionOK
    <3>2. Restored(img, side) = img BY <2>1, JournalForRestores DEF TypeOK
    <3>3. Armed BY <2>1 DEF Armed, JournalFor
    <3>4. Armed' /\ Restored(img', side') = staged'.before
      BY <2>3, <3>1, <3>2, <3>3 DEF Armed
    <3>5. QED BY <2>3, <3>1, <3>4 DEF SessionOK
  <2>4. QED BY <1>3, <2>2, <2>3 DEF RecordSync
<1>4. QED BY <1>1, <1>2, <1>3

LEMMA ApplySession ==
  ASSUME TypeOK, IInv, SessionOK, ApplyBlock \/ ApplySync
  PROVE  SessionOK'
<1>1. pc = "apply" BY DEF ApplyBlock, ApplySync
<1>2. CASE ApplyFails BY <1>1, <1>2, ApplyFailsSession
<1>3. CASE ~ApplyFails /\ ApplyBlock
  <2>1. PICK b \in todo : img' = WriteBlock(img, b, staged.image.data[b])
    BY <1>3 DEF ApplyBlock
  <2>2. pc' = "apply" /\ UNCHANGED <<side, sideExists, staged, driver>>
    BY <1>3 DEF ApplyBlock, session
  <2>3. b \in BlocksIn(staged.extents, staged.image.len) /\ b \in Blocks
    BY <1>1, <2>1 DEF IInv, ApplyOK, TypeOK
  <2>4. b \in side.covers \/ b >= side.origLen
    BY <1>1, <2>3, SizesAssumption DEF IInv, ApplyOK, BlocksIn, TypeOK, Journal, Lengths, Blocks
  <2>5. staged.image.data[b] \in Vals
    BY <2>3 DEF TypeOK, Image, RawImage, Contents
  <2>6. Restored(img', side) = Restored(img, side)
    BY <2>1, <2>3, <2>4, <2>5, RestoredWrite DEF TypeOK
  <2>7. Armed /\ Restored(img, side) = staged.before /\ driver = staged.image
    BY <1>1 DEF SessionOK
  <2>8. Armed' /\ Restored(img', side') = staged'.before
    BY <2>2, <2>6, <2>7 DEF Armed
  <2>9. QED BY <2>2, <2>7, <2>8 DEF SessionOK
<1>4. CASE ~ApplyFails /\ ApplySync
  <2>1. /\ pc' = "retire" /\ cont' = "commit"
        /\ UNCHANGED <<img, side, sideExists, staged, driver>>
    BY <1>4 DEF ApplySync, session
  <2>2. Armed /\ Restored(img, side) = staged.before /\ driver = staged.image
    BY <1>1 DEF SessionOK
  <2>3. Armed' /\ Restored(img', side') = staged'.before BY <2>1, <2>2 DEF Armed
  <2>4. QED BY <2>1, <2>2, <2>3 DEF SessionOK
<1>5. QED BY <1>2, <1>3, <1>4

LEMMA RetireSession ==
  ASSUME "retireSync" \notin FaultKinds, TypeOK, IInv, SessionOK,
         RetireTruncate \/ RetireSync \/ RetireRemove
  PROVE  SessionOK'
<1>1. cont \in {"commit", "recordFailed", "undo", "open"}
  BY DEF RetireTruncate, RetireSync, RetireRemove, IInv, RetireOK
<1>2. CASE RetireTruncate /\ RetireFails
  <2>1. pc = "retire" BY <1>2 DEF RetireTruncate
  <2>2. CASE cont = "commit" BY <1>2, <2>1, <2>2, ApplyFailsSession DEF RetireFails
  <2>3. CASE cont # "commit"
    BY <1>2, <2>1, <2>3, ReturnSession DEF RetireFails, disk
  <2>4. QED BY <2>2, <2>3
<1>3. CASE RetireTruncate /\ ~RetireFails
  <2>1. /\ pc = "retire" /\ pc' = "retireSync" /\ UNCHANGED <<img, cont, staged, driver>>
    BY <1>3 DEF RetireTruncate, TruncateSidecar, session
  <2>2. QED BY <2>1 DEF SessionOK
<1>4. CASE RetireSync
  <2>1. /\ pc = "retireSync" /\ pc' = "retireRemove" /\ UNCHANGED <<img, cont, staged, driver>>
    BY <1>4 DEF RetireSync, Fails, session
  <2>2. QED BY <2>1 DEF SessionOK
<1>5. CASE RetireRemove
  BY <1>5, ReturnSession DEF RetireRemove
<1>6. QED BY <1>2, <1>3, <1>4, <1>5

LEMMA ReconcileSession ==
  ASSUME TypeOK, IInv, SessionOK, ReconcileRead \/ RestoreBlock \/ RestoreTruncate
  PROVE  SessionOK'
<1>1. cont \in {"undo", "open"} /\ pc \in {"reconcile", "restore"}
  BY DEF ReconcileRead, RestoreBlock, RestoreTruncate, IInv, RetireOK
<1>2. CASE ReconcileFailed BY <1>2, ReconcileFailedSession
<1>3. CASE ReconcileRead /\ ~ReconcileFailed
  <2>1. UNCHANGED <<img, side, sideExists>> /\ pc = "reconcile"
    BY <1>3 DEF ReconcileRead, disk
  <2>2. cont = "undo" => Armed /\ Restored(img, side) = staged.before
    BY <1>1, <2>1 DEF SessionOK
  <2>3. CASE ~sideExists /\ Return(cont)
    <3>1. cont = "open" BY <1>1, <2>2, <2>3 DEF Armed
    <3>2. QED BY <2>1, <2>3, <3>1, ReturnSession
  <2>4. CASE ~side.armed /\ pc' = "retire" /\ UNCHANGED <<cont, staged, driver>>
    <3>1. cont = "open" BY <1>1, <2>2, <2>4 DEF Armed
    <3>2. QED BY <2>4, <3>1 DEF SessionOK
  <2>5. CASE pc' = "restore" /\ UNCHANGED <<cont, staged, driver>>
    BY <1>1, <2>1, <2>2, <2>5 DEF SessionOK, Armed
  <2>6. QED BY <1>3, <2>3, <2>4, <2>5 DEF ReconcileRead, session
<1>4. CASE RestoreBlock /\ ~ReconcileFailed
  <2>1. PICK b \in todo : img' = WriteBlock(img, b, side.undo[b])
    BY <1>4 DEF RestoreBlock
  <2>2. /\ pc = "restore" /\ pc' = "restore"
        /\ UNCHANGED <<side, sideExists, cont, staged, driver>>
    BY <1>4 DEF RestoreBlock, session
  <2>3. b \in Blocks /\ b \in side.covers /\ side.undo[b] \in Vals
    BY <2>1, <2>2 DEF IInv, RestoreOK, TypeOK, Journal, Contents
  <2>4. Restored(img', side) = Restored(img, side)
    BY <2>1, <2>3, RestoredWrite DEF TypeOK
  <2>5. QED BY <1>1, <2>2, <2>4 DEF SessionOK, Armed
<1>5. CASE RestoreTruncate /\ ~ReconcileFailed
  <2>1. /\ pc = "restore" /\ todo = {} /\ pc' = "retire"
        /\ img' = SetLen(img, side.origLen)
        /\ UNCHANGED <<cont, staged, driver>>
    BY <1>5 DEF RestoreTruncate, session
  <2>2. \A c \in side.covers : img.data[c] = side.undo[c]
    BY <2>1 DEF IInv, RestoreOK
  <2>3. img' = Restored(img, side)
    <3>1. \A b \in Blocks :
            (IF b < side.origLen THEN img.data[b] ELSE Zero)
              = (IF b >= side.origLen THEN Zero
                 ELSE IF b \in side.covers THEN side.undo[b] ELSE img.data[b])
      BY <2>2, SizesAssumption DEF Blocks, TypeOK, Journal, Lengths
    <3>2. QED BY <2>1, <3>1 DEF SetLen, Restored
  <2>4. cont = "undo" => staged.before = img' BY <2>1, <2>3 DEF SessionOK
  <2>5. QED BY <1>1, <2>1, <2>4 DEF SessionOK
<1>6. QED BY <1>2, <1>3, <1>4, <1>5

LEMMA SessionStep ==
  ASSUME "retireSync" \notin FaultKinds, TypeOK, IInv, SessionOK, [Next]_vars
  PROVE  SessionOK'
<1>1. CASE UNCHANGED vars BY <1>1 DEF vars, disk, session, SessionOK, Armed
<1>2. ASSUME NEW t \in Image, NEW E \in SUBSET Extents, Stage(t, E)
      PROVE  SessionOK'
  BY <1>2 DEF Stage, SessionOK, disk
<1>3. CASE Host
  BY <1>3 DEF Host, WritebackBlock, WritebackLength, WritebackSidecar, WritebackEntry,
              session, SessionOK, Armed
<1>4. CASE Crash \/ PowerLoss BY <1>4 DEF Crash, PowerLoss, SessionGone, SessionOK
<1>5. QED
  BY <1>1, <1>2, <1>3, <1>4, IdleSession, RecordSession, ApplySession, RetireSession,
     ReconcileSession DEF Next, Program

LEMMA SessionCorrect ==
  ParentSync /\ "retireSync" \notin FaultKinds => (Spec => []SessionOK)
<1> SUFFICES ASSUME ParentSync, "retireSync" \notin FaultKinds PROVE Spec => []SessionOK
  OBVIOUS
<1>1. Init => SessionOK BY DEF Init, SessionOK
<1>2. TypeOK /\ IInv /\ SessionOK /\ [Next]_vars => SessionOK' BY SessionStep
<1>3. QED BY <1>1, <1>2, TypeCorrect, InvCorrect, PTL DEF Spec

\* An idle usable session's tables describe the image it reads, and that image
\* is whole (commit.rs:78-81, 120-124), however many commits fail and wherever
\* the process or the power is lost: all it asks of the host is that a sidecar
\* truncated for retirement can also be synced.
THEOREM DriverTheorem ==
  ParentSync /\ "retireSync" \notin FaultKinds => (Spec => []DriverDescribesImage)
<1> SUFFICES ASSUME ParentSync, "retireSync" \notin FaultKinds
             PROVE  Spec => []DriverDescribesImage
  OBVIOUS
<1>1. IInv /\ SessionOK => DriverDescribesImage
  BY DEF IInv, WholeBetween, SessionOK, DriverDescribesImage
<1>2. QED BY <1>1, InvCorrect, SessionCorrect, PTL

\* A commit that reports an error to a usable session has left the image it
\* began with (commit.rs:98-101).
THEOREM FailedCommitTheorem ==
  ParentSync /\ "retireSync" \notin FaultKinds => (Spec => FailedCommitLeavesOld)
<1> SUFFICES ASSUME ParentSync, "retireSync" \notin FaultKinds
             PROVE  Spec => FailedCommitLeavesOld
  OBVIOUS
<1>1. TypeOK /\ IInv /\ SessionOK /\ SessionOK' /\ [Next]_vars
        => [/\ pc = "idle" /\ pc' = "staged" => staged'.before = img
            /\ pc # "idle" /\ pc' = "idle" /\ result' = "err" /\ ~failed' =>
                 img' = staged.before]_vars
  <2> SUFFICES ASSUME TypeOK, IInv, SessionOK, SessionOK', Next
               PROVE  /\ pc = "idle" /\ pc' = "staged" => staged'.before = img
                      /\ pc # "idle" /\ pc' = "idle" /\ result' = "err" /\ ~failed' =>
                           img' = staged.before
    OBVIOUS
  <2>1. ASSUME NEW t \in Image, NEW E \in SUBSET Extents, Stage(t, E)
        PROVE  pc = "idle" /\ pc' = "staged" /\ staged'.before = img
    BY <2>1 DEF Stage, SessionOK
  <2>2. CASE Buffer \/ Rollback \/ Close \/ Open
    BY <2>2 DEF Buffer, Rollback, Close, Open
  <2>3. CASE StageRefused \/ CommitClean
    BY <2>3 DEF StageRefused, CommitClean, SessionOK, disk
  <2>4. CASE RecordCreate \/ RecordWrite \/ RecordSync
    BY <2>4 DEF RecordCreate, RecordWrite, RecordSync, RecordFails
  <2>5. CASE ApplyBlock \/ ApplySync
    BY <2>5 DEF ApplyBlock, ApplySync, ApplyFails
  <2>6. CASE RetireTruncate
    <3>1. CASE RetireFails
      BY <2>6, <3>1 DEF RetireTruncate, RetireFails, ApplyFails, Return, SessionOK, disk
    <3>2. CASE ~RetireFails BY <2>6, <3>2 DEF RetireTruncate
    <3>3. QED BY <3>1, <3>2
  <2>7. CASE RetireSync BY <2>7 DEF RetireSync, Fails
  <2>8. CASE RetireRemove
    BY <2>8 DEF RetireRemove, Return, SessionOK
  <2>9. CASE ReconcileRead
    <3>1. CASE ReconcileFailed
      BY <2>9, <3>1 DEF ReconcileRead, ReconcileFailed
    <3>2. CASE ~sideExists /\ Return(cont)
      <4>1. cont = "open"
        BY <2>9, <3>2 DEF ReconcileRead, IInv, RetireOK, SessionOK, Armed
      <4>2. QED BY <2>9, <3>2, <4>1 DEF ReconcileRead, Return
    <3>3. QED BY <2>9, <3>1, <3>2 DEF ReconcileRead
  <2>10. CASE RestoreBlock \/ RestoreTruncate
    BY <2>10 DEF RestoreBlock, RestoreTruncate, ReconcileFailed
  <2>11. CASE Host BY <2>11 DEF Host
  <2>12. CASE Crash \/ PowerLoss BY <2>12 DEF Crash, PowerLoss, SessionGone
  <2>13. QED
    BY <2>1, <2>2, <2>3, <2>4, <2>5, <2>6, <2>7, <2>8, <2>9, <2>10, <2>11, <2>12
       DEF Next, Program
<1>2. QED
  BY <1>1, TypeCorrect, InvCorrect, SessionCorrect, PTL DEF Spec, FailedCommitLeavesOld

-----------------------------------------------------------------------------
(* The refinement *)

\* How the candidates move: not at all, by one proposal over files that stand
\* still, or down to one while what a power loss would expose stands still.
LEMMA CandidatesMove ==
  ASSUME TypeOK, IInv, [Next]_vars
  PROVE  \/ candidates' = candidates
         \/ \E t \in Image : candidates' = candidates \cup {t} /\ UNCHANGED disk
         \/ \E x : candidates' = {x} /\ DurableRecovered' = DurableRecovered
<1> USE DEF history
<1>1. CASE UNCHANGED vars BY <1>1 DEF vars
<1>2. CASE Buffer \/ Rollback \/ Close \/ Open BY <1>2 DEF Buffer, Rollback, Close, Open
<1>3. ASSUME NEW t \in Image, NEW E \in SUBSET Extents, Stage(t, E)
      PROVE  candidates' = candidates \cup {t} /\ UNCHANGED disk
  BY <1>3 DEF Stage
<1>4. CASE StageRefused \/ CommitClean BY <1>4 DEF StageRefused, CommitClean
<1>5. CASE RecordCreate \/ RecordWrite \/ RecordSync
  BY <1>5 DEF RecordCreate, RecordWrite, RecordSync, RecordFails
<1>6. CASE ApplyBlock \/ ApplySync BY <1>6 DEF ApplyBlock, ApplySync, ApplyFails
<1>7. ASSUME NEW c, Return(c)
      PROVE  candidates' = candidates \/ \E x : candidates' = {x}
  BY <1>7 DEF Return
<1>8. UNCHANGED disk => DurableRecovered' = DurableRecovered
  BY DEF DurableRecovered, disk
<1>9. CASE RetireFails
  BY <1>7, <1>8, <1>9 DEF RetireFails, ApplyFails
<1>10. CASE RetireTruncate \/ RetireSync
  BY <1>9, <1>10 DEF RetireTruncate, RetireSync
<1>11. CASE RetireRemove
  <2>1. durSide = Torn /\ UNCHANGED <<durImg, durSide>>
    BY <1>11 DEF RetireRemove, IInv, RetireOK
  <2>2. DurableRecovered' = DurableRecovered BY <2>1, TornType DEF DurableRecovered
  <2>3. QED BY <1>7, <1>11, <2>2 DEF RetireRemove
<1>12. CASE ReconcileRead
  <2>1. UNCHANGED disk BY <1>12 DEF ReconcileRead
  <2>2. QED BY <1>7, <1>8, <1>12, <2>1 DEF ReconcileRead, ReconcileFailed
<1>13. CASE RestoreBlock \/ RestoreTruncate
  BY <1>13 DEF RestoreBlock, RestoreTruncate, ReconcileFailed
<1>14. CASE Host \/ Crash \/ PowerLoss BY <1>14 DEF Host, Crash, PowerLoss, SessionGone
<1>15. QED BY <1>1, <1>2, <1>3, <1>4, <1>5, <1>6, <1>10, <1>11, <1>12, <1>13, <1>14
       DEF Next, Program

\* The journalled commit implements the atomic image: no step exposes, after
\* a power loss, anything but a whole proposal, and an acknowledgement settles
\* on what stable storage already holds.
THEOREM Refinement == ParentSync => (Spec => OnDiskSpec)
<1> SUFFICES ASSUME ParentSync PROVE Spec => OnDisk!Spec
  BY DEF OnDiskSpec
<1>1. Init => OnDisk!Init
  BY TornType DEF Init, OnDisk!Init, DurableRecovered
<1>2. TypeOK /\ IInv /\ RecoveryIsWhole' /\ [Next]_vars
        => [OnDisk!Next]_<<DurableRecovered, candidates>>
  <2> SUFFICES ASSUME TypeOK, IInv, RecoveryIsWhole', [Next]_vars
               PROVE  [OnDisk!Next]_<<DurableRecovered, candidates>>
    OBVIOUS
  <2>1. DurableRecovered' \in candidates' BY DEF RecoveryIsWhole
  <2>2. CASE candidates' = candidates
    BY <2>1, <2>2 DEF OnDisk!Next, OnDisk!Land
  <2>3. ASSUME NEW t \in Image, candidates' = candidates \cup {t}, UNCHANGED disk
        PROVE  OnDisk!Next
    <3>1. DurableRecovered' = DurableRecovered
      BY <2>3 DEF DurableRecovered, disk
    <3>2. OnDisk!Propose(t) BY <2>3, <3>1 DEF OnDisk!Propose
    <3>3. QED BY <3>2 DEF OnDisk!Next
  <2>4. ASSUME NEW x, candidates' = {x}, DurableRecovered' = DurableRecovered
        PROVE  OnDisk!Next
    BY <2>1, <2>4 DEF OnDisk!Next, OnDisk!Settle
  <2>5. QED BY <2>2, <2>3, <2>4, CandidatesMove
<1>3. QED BY <1>1, <1>2, TypeCorrect, InvCorrect, RecoveryTheorem, PTL DEF Spec, OnDisk!Spec

=============================================================================
