# A TLA+ development of remanence-lib

remanence-lib reads, identifies, edits and renders images of vintage storage
media. This directory holds TLA+ modules translated from its Rust core
(`crates/remanence/src`, from here on written without that prefix) and from the
C and Python bindings over it, the TLC configurations that check them on small
instances, and the theorems about them that TLAPS proves for every value of
their constants. `PROJECT.json` says which lines each definition stands for,
what each run checks, which mutation of the code breaks each property, and where
the code's hazards are.

To check: `tlc -workers 2 -config commit.cfg CommitJournal` (each `.cfg` names
its module in the table of section 3). To prove: `tlapm M.tla` for each of the
eight modules of section 5.

## 1. The system and its parts

A caller opens a session. The session holds *devices* (slots of a machine) and
*media* (state loaded from files). A medium over a block image is a stack:

    files of a namespace      filesystem/*       (FAT read and write, others read)
    spaces of partitions      partition/*, filesystem/space.rs
    buffered disk             io/cache.rs        (nothing reaches the disk before commit)
    virtual disk              image/*            (raw, qcow2, VDI; allocate on write)
    capture, or the file      io/device.rs       (a commit stages into the capture first)
    journal beside the file   io/journal.rs      (undo, reconciled at the next open)
    claim on the file         io/device.rs       (a lock held for the session's life)

A flux recording is another stack, read only: captures of transitions
(`flux/capture`), a medium of pulses (`flux/medium.rs`), pulses clocked to bit
cells and framed to bytes (`flux/*/presentation.rs`), sector records
(`flux/ibm`, `flux/c1541`), and beside it the reduction of many captures to one
remanence image with its renditions.

Within a process a session has one caller at a time (`&mut`, or the
interpreter's lock), so calls do not interleave; two worker threads (the cache's
offloader, the raw plane's predictive reader) do. Between processes there are
the file locks, the image's bytes and the journal's name, and nothing else.

| Part | State it keeps | Operations | What is hard | What makes it correct |
|---|---|---|---|---|
| Commit and journal: `model/disk/commit.rs`, `io/journal.rs` | sidecar file, capture, driver's tables, `failed` | commit, rollback, reconcile | crash or power loss between any two host calls; any of them failing; unsynced writes landing in any order | an interruption shows the old image or the new one; an acknowledged commit stays; a failed one leaves the old image and tables that describe it |
| Session cache: `io/cache.rs` | resident extents, spill slots, jobs in flight | read, write, commit's streaming, discard, evict, offload | the worker writes a slot while the session goes on; completions arrive late; the bound | reads see the session's writes; the bound holds; nothing altered is lost |
| Claims and artifacts: `io/device.rs`, `io/handle.rs` | a lock per open file | open under an intent, place a new artifact | races between processes on names | no writer with anyone else; an artifact is never overwritten |
| Open: `model/disk/recognition.rs`, the drivers' `open_chain` | claim, sidecar and chain, step by step | discover, load, reconcile, compose | a claim is given up and retaken to reconcile; a chain is resolved a file at a time | nobody is exposed to an image an earlier commit left torn; a chain is whole or refused |
| Raw plane: `io/source.rs` | a second cache, a reading thread | read, prefetch | a file read outside the lock; a commit underneath | what is read is what the file holds |
| Session pools: `model/pools.rs`, `storage_device.rs`, `media.rs` | devices, media, links, next identity | add, load, insert, eject, release | the two ends of a link, partial failure of a convenience | links agree; nothing left behind; identities are never reused |
| Discovery, declarations, archives | a claim shared by all that rides it | discover, declare, take an entry, load it | access modes handed on; a declaration against what the bytes say | what is discovered is what loading makes; an archive never changes |
| A medium's verbs: `media.rs`, `disk/*`, `authored.rs`, `recording.rs`, `assurance.rs`, `geometry.rs` | content, mode, layout, assurance, `failed` | read, write, label, render, record, commit | short, conflicted, failed and once-only media | a degraded medium answers only what is there; a rendition is what was committed |
| qcow2: `image/qcow2.rs` | L1 (cached), L2, refcounts, chain of backing files | read, write with allocation | allocation inside a commit that may be undone; compressed clusters | every cluster counted as often as used; the guest's disk is a disk |
| VDI: `image/vdi.rs` | block map, count | read, write with copy-up | the parent's bytes around a partial write | no two blocks share data; the guest's disk is a disk |
| FAT: `filesystem/fat.rs` | FAT copies, directories, chains | write, resize, write_at, mkdir, label | refusal before the first change; full volumes | chains disjoint and as long as their sizes; copies equal; no change on refusal |
| CP/M, HDOS, CBM DOS | none | list, stat, read | recorded chains that loop | every walk ends; listing and reading agree |
| Partitions and spaces: `partition/*`, `filesystem/space.rs` | the pool established at load | discover, open, read, write | a chain that loops or leaves the disk; two doors onto one space | a row reported clean is the whole chain; a space reaches nothing outside itself |
| Coverage: `filesystem/coverage.rs` | claims, ordered and disjoint | claim, finish | overlaps, the last unit | an account is total and disjoint |
| Flux captures and media: `flux/capture`, `flux/medium.rs`, `flux/kryoflux.rs`, `flux/p64.rs` | a backing of sections, a working set | load, append, serve, write out | damaged sections, wrap-around, out-of-band indexes | what is given back is the evidence that was given |
| Rungs, records, drives: `flux/*presentation.rs`, `flux/ibm`, `flux/c1541`, `flux/drive_profile` | cursors over stores | clock, frame, pair records, claim a recording | splices, lost headers, zones | a sector is answered from records that state it |
| Remanence image and its renditions | orbits | reduce, reverse, refine, write, render | matching of revolutions, merging, projection | what a destination does not hold is counted |
| C and Python bindings | handles, views, error outs | mirror the surface | handles kept past what they name | a handle answers for nothing but what it was made over |

How the parts meet. A load takes a **claim**, looks for the **sidecar**,
reconciles, recognizes the format, and only then makes a medium of it. A write
through a filesystem lands in the **cache**; a commit joins the offload worker,
streams the altered extents through the **driver** into a **capture** of the
file, records what the capture will overwrite in the **journal**, applies the
capture, and retires the journal. Should a step fail, the same `reconcile` an
open would run is run at once. The driver keeps its L1 table in memory, so a
commit that is undone has to put that back too. A medium loaded from an
archive's entry shares the archive's lock, through one `Arc<File>`. The
bindings hold names (a medium's identity, an attachment, a path) that every call
resolves again in the session.

DOS names, the archive grammars, the codecs and checksums, the HxC, MFI and
ImageDisk readers, the wording of reports and errors, and the build tooling are
parts too, and are not modelled (section 6).

## 2. The modules

| Module | Models | Code |
|---|---|---|
| `CommitJournal` | one image file, its sidecar, one session that opens, commits, fails, crashes and reopens | `disk/commit.rs`, `io/journal.rs`, `MediumDevice` |
| `AtomicImage` | the commit's promise: whole contents proposed, one lands | abstract |
| `SessionCache` | the cache of one disk, the session's calls and the worker thread | `io/cache.rs` |
| `BufferedDisk` | the promise of the cache and of either driver: a view over a saved disk | abstract |
| `ImageClaims` | processes that open, reconcile, commit and place one image by name | `io/device.rs`, `recognition.rs`, `reconcile_at` |
| `RawPlane` | the raw plane, its reader thread, a commit underneath | `io/source.rs`, `io/cache.rs` |
| `MediaSession` | devices, media, links, claims and access modes of one session | `pools.rs`, `storage_device.rs`, `media.rs`, `discovery.rs`, `archive/mod.rs` |
| `MediumVerbs` | one medium and every verb on it | `media.rs`, `disk/*`, `authored.rs`, `recording.rs`, `assurance.rs`, `geometry.rs`, `rendition.rs` |
| `Declarations` | articles, device types, formats, probes; what an artifact is made into | `media_profile.rs`, `device_type.rs`, `adapters.rs`, `pools.rs` |
| `Qcow2`, `Vdi` | the two drivers: tables, allocation, copy-on-write | `image/qcow2.rs`, `image/vdi.rs` |
| `ChainOpen` | composing an image with those beneath it while other processes meddle | `open_chain` of both drivers |
| `FatVolume` | a FAT volume and every verb that changes it | `filesystem/fat.rs` |
| `NamedFiles` | its promise: a tree of names | abstract |
| `CbmDos`, `Cpm`, `Hdos`; `Catalogs` | three read-only namespaces; the catalog's calls over them | `filesystem/*.rs` |
| `PartitionTable` | sector 0, the extended chain, the pool | `partition/*` |
| `StorageSpaces` | a medium's partitions, the spaces they compose, files | `partition/mod.rs`, `filesystem/space.rs` |
| `Coverage` | the coverage account | `filesystem/coverage.rs` |
| `SectionStore`; `FluxCapture`, `FluxMedium` | the section backing; the two layers that stream into it | `flux/capture/*`, `flux/medium.rs` |
| `KryoFlux`, `P64` | a set of streams and its index; the P64 container with its coder | `flux/kryoflux.rs`, `flux/p64.rs` |
| `Rungs` | pulses to cells to bytes, in both codecs | `flux/presentation.rs`, `bitstream.rs`, `bytestream.rs` |
| `IbmRecords`, `GcrRecords` | records, geometry and extent; headers and data blocks | `flux/ibm/*`, `flux/c1541/sectors.rs` |
| `DriveProfiles` | declared drives, what one claims of a capture | `flux/drive_profile/*`, `flux/load.rs` |
| `RemanenceImage`, `Reconstruction`, `Renditions` | the image, the reduction to it, what is rendered of it | `flux/remanence/*`, `flux/analysis.rs`, `c1541/renditions.rs` |
| `CSurface`, `CViews` | the C surface's handles, claims, error outs; reports read through it | `remanence-ffi` |
| `Bindings`, `Handles` | a Python host's objects; the long life of a handle | `remanence-py` |
| `MCMediaSession`, `MCLibrary`, `MCImages`, `MCRecordings` | instances for TLC, several parts to a state space (the first extends `MediaSession`; the second `Handles`, `PartitionTable`, `RawPlane`, `Coverage` and `FatVolume`; the third `Qcow2` and `ChainOpen`) | – |
| `CommitJournalProofs`, `SessionCacheProofs`, `ImageClaimsProofs`, `MediaSessionProofs` | theorems about the module each extends | – |
| `LibraryProofs` | theorems about `Handles`, `PartitionTable`, `RawPlane`, `Coverage` and `FatVolume`, a part each | – |

`Qcow2`, `Vdi` and `ChainOpen` hold their own theorems at their end.

**CommitJournal.** Each file is modelled twice: `img` and `side` as a process
sees them, `durImg` and `durSide` as stable storage holds them; `sideExists` and
`durEntry` are the sidecar's name in the same two senses. The steps of
`MediaState::commit` are the values of `pc`: `Stage` (any image that keeps the
length or grows it, through any set of extents), `RecordCreate`, `RecordWrite`,
`RecordSync`, `ApplyBlock` once per block in offset order, `ApplySync`, then
`RetireTruncate`, `RetireSync`, `RetireRemove`. `Open` and the in-process undo
run the same `ReconcileRead`, `RestoreBlock`, `RestoreTruncate`; `cont` says what
they return to. `driver` is the image the format driver's tables describe,
`failed` is `MediaState::failed`. Every host call has a failing disjunct,
switched by `FaultKinds`. `Host` writes back a block, the length, the sidecar
(whole or torn) or the name, at any time; `Crash` keeps what processes saw,
`PowerLoss` only what was stable.

**SessionCache.** The disk is extents of blocks. `cache` is `resident`; `spill`,
`inFlight`, `prespilled`, `clock` are the struct's fields; `jobs` and `done` are
the channels. A call is `Begin`, `Drain`, then for each extent of its span an
eviction where needed (`EvictClean`, `EvictDirty`, `EvictJoin`), `Load` or `Hit`,
and `Touch`, and last `Offload`. `Worker` takes a job and writes its slot between
any two of these. Commit and rollback join the worker first, as the code does.

**ImageClaims.** The image's name denotes a file; a claim is on the file, a
sidecar is found by the name. `Claim`, `Look`, `Ask`, `Exclusive`, `Lost`,
`Reclaim` are the steps of `Recognition::open` and `reconcile_at`; `Record` to
`Retire` are a commit, coarsened to what others can see; `PlaceChecked` to
`PlaceRename` the building of a new artifact at that name. `Crash` takes any
process at any step. Locks are POSIX advisory locks; the Windows sharing modes
have the same admission table.

**MediaSession.** An action is a whole call, since a call has the session to
itself. `AddDeviceFor` has the convenience's three steps and the ones it takes
back. `told` is history: what the calls answered with.

**Qcow2 and Vdi.** An image is a record of its tables; `write_cluster` with all it
calls (`ensure_l2`, `append_cluster`, `set_refcount`, the refcount blocks it
allocates and the blocks that count those) is one action, since no other thread
sees its middle, but the pieces it writes are operators in the order the code
writes them, and a refusal part way keeps what was written before it. `batch`
opens and discards a commit's capture; `keptImg` and `keptL1` are what
`cache_snapshot` keeps.

**ChainOpen.** `Parse`, `Resolve`, `Reconcile`, `Claim`, `Join` are the host calls
of one open; between any two the other process takes a file (`OtherOpens`),
starts or ends a commit on it (`OtherCommits`), puts another image in its place
(`OtherReplaces`), or gives it back or dies over it (`OtherLeaves`): a file may
be left half applied with nobody holding it at any point of the open. `late` is
history: the files so left in the gap between `Reconcile` and `Claim`.

The other modules say in their opening comment what a state and an action are.

## 3. The runs

Six runs pass and six end in a counterexample. Parts that keep no state of each
other's share a run: `topic` (or `part`) picks the one a behaviour is about, in
the initial state, and the rest stand still.

| Run | Module | Bounds | Question |
|---|---|---|---|
| `commit` | `CommitJournal` | 3 blocks, extents of 2, 2 values, 2 commits, 2 crashes, 1 failed call of any kind but retire's sync | does any crash or power loss show a third image, lose an acknowledged commit, or leave a journal no open accepts; does a failed commit leave the old image under tables that describe it; does every call return? |
| `cache_calls` | `SessionCache` | 2 extents of 2 blocks, room for 1, worker on, 6 stamps, 1 lost offload | is the cache a buffered disk in every interleaving with its worker? |
| `claims` | `ImageClaims` | 3 processes, 2 files, 1 commit deep, 2 crashes, 1 placer | do claims and the sidecar keep opens, commits and placements apart? |
| `session` | `MCMediaSession` | 3 identities, 3 places, 2 drive types sharing a bay, 1 image, 1 archive; one small instance of each other topic | do links, identities and bytes survive every order of calls; do a medium's verbs, its spaces, the C surface, its reports, the Python objects, the drives and the declarations answer truly? |
| `images` | `MCImages` | qcow2 clusters and VDI blocks of 2 units, 3 guest clusters, refcount blocks of 3, 3 writes; chains of 3 under 3 meddlings; the parts of `MCRecordings` | are the tables exact and the disks disks; is a composed chain whole; do the flux layers give back what they were given? |
| `library` | `MCLibrary` | cache of 3 extents, room for 2, any 1 failed host call; FAT of 4 clusters, 3 calls; chains of 2 hops; a floor of 4 units; 4 lives of a handle; 3 raw reads over 1 commit | the parts that share no state, one by one |

What they check (the theorem, where there is one, is in section 5):

- `commit`: `RecoveryIsWhole` and `OnDiskSpec` (what the next open exposes is an
  image proposed whole since the last acknowledged one), `JournalMatchesImage`
  (no open refuses a journal this library armed), `ImageChangesUnderJournal`,
  `AckedCommitIsDurable`, `DriverDescribesImage`, `FailedCommitLeavesOld`,
  `CommitCallsReturn`.
- `cache_calls`: `ReadsSeeWrites` and `BufferedSpec` (reads return what was last
  written across eviction, spilling, offloading, commit and rollback),
  `WorkerOwnsSlot` (session and worker never use one slot at a time),
  `CallsReturn`.
- `claims`: `WriterSeesWhole`, `EarlierCommitReconciled`, `LiveCommitKeepsJournal`,
  `AckedVersionRecovered`, `SessionBytesStandStill`, `OneGetsIn` (processes
  opening one image are not all refused), `OpensReturn`.
- `session`: `LinksAgree`, `SeatedWhereRecorded`, `NothingLeftBehind`,
  `IdentityIsForLife`, `BytesMoveByOwnCommit` of the pools; `StateIsTrue`, which
  per topic says that a medium's content is what its caller is owed and its
  coordinates fit it, a space holds of its volume what the volume says, every C
  claim has its owner, a report read through a view is the report, an object is
  consumed once, a drive claims what is there, and a medium is one its format
  records; and `CallsAreHonest`, the same of steps: a degraded medium answers
  only what its source has, what is rendered is committed, a recording is one
  act, a space touches nothing outside itself, a handle answers for what it was
  minted over, a declared load makes what was discovered.
- `images`: `RefcountsExact` (every host cluster of a qcow2 image is counted as
  often as it is used), `GuestSpec` (the qcow2 driver implements `BufferedDisk`),
  `VdiDisk` (so does the VDI driver, and no two blocks share data),
  `ComposedIsWhole` (a composed chain holds each file once, each the one its
  child names, none claimed by a writer, and none half applied but through the
  gap of section 7), `OpenEnds`, and `RecordingsAreServed` (the flux layers give
  back what they were given and serve a record only where one was).
- `library`: `StoresAreTrue` (the cache keeps its bound and its untouched slots
  whatever host call fails, a FAT volume is whole after every call, a catalog's
  answers agree), `PlaneIsTheImage` (the raw plane holds and answers what the
  image holds), `RefusalChangesNothing`, `FilesSpec` (a FAT volume implements
  `NamedFiles`), `CleanRowIsWholeChain`, `AccountIsExclusive`, `NoStrangers`,
  `DropReturns`.

Each property is broken by a mutation of the code that `PROJECT.json` lists, and
each TLC run also evaluates the assumptions the theorems make of the constants:
`MCImages` states `SoundInstances` and `OpenableInstance`, the hypotheses its
drivers' and its chain's theorems have on top.

Why the bounds suffice. Three blocks in extents of two give a last extent that
is partial, growth inside an extent and into a new one, and a block that is
journalled beside one that is not. Two commits show a second commit over the
leavings of a first; two crashes, one inside recovery. Two extents in a cache of
one make every call evict, and every offload race its own extent; three in two
let two be in flight while a third is served. Three processes are a reader, the
writer that slips in, and the one that finds what it left; a second file is what
a rename puts under an open claim. Three media and two drives in one bay are
what shared places, a re-used slot and a released identity need. Refcount blocks
of three counts make an allocation need a block whose own count needs another;
the backing image ends inside a cluster, so a copy-up reads past its end. Chains
of three run past their limit; three meddlings take a file, tear it and are lost
over it between its reconciliation and its claim, or replace it there.

Deadlock is checked in `commit`, `cache_calls`, `claims` and `session`. `images` and
`library` switch it off: a chain that opened, an account that finished, a walk
that ended really are over. `VIEW` in `session`, `library` and `find_resize` leaves
out only histories that no property of the run reads from the state.

### The counterexamples

| Run | What happens |
|---|---|
| `find_undo` | retire truncates the journal, then its sync fails; the undo finds nothing armed and succeeds, and the commit reports failure over the new image, with the old tables put back (`journal.rs:255`, against `commit.rs:98`) |
| `find_spill` | an eviction whose spill write fails has already dropped the altered extent (`cache.rs:472`, against `:445`) |
| `find_reader` | a reader gives up its claim to reconcile and does not look again; a writer that dies in between leaves it a torn image (`recognition.rs:101`, against `:81`) |
| `find_resize` | a file shrunk and grown again inside one cluster shows its old bytes (`fat.rs:1248`, against `:1192`) |
| `find_hang` | size codes past the payload's cap make an extent whose reads never end (`geometry.rs:147`) |
| `find_sector` | where a sector's own data block was lost, its header and the next sector's are paired with one block: the d64 holds it under both addresses, and the lost sector is not among the missing (`c1541/renditions.rs:296`, against `:552`) |

The passing runs are drawn around them and say so in their constants: `commit`
leaves out the failing sync inside retire and has `ParentSync`, `cache_calls`
fails no spill write of the session's own thread, `session` has archives on
files that afford no writing, `claims` has one placer and promises a reader a
whole image only where nobody has crashed since, and `images` has VDI images
whose count is past every block their map names.

## 4. Fairness

Liveness is claimed only of code that runs on by itself. `CommitJournal` has
weak fairness of a step of the program while a call is in progress: a commit or
an open is straight-line code of one thread and waits for nobody. No fairness is
asked of crashes, of write-back or of a caller beginning another call.
`SessionCache` has weak fairness of the session's running call and, apart from
it, of the worker: it is a thread of its own, blocked only on its channel.
`ImageClaims` has weak fairness of each process's open, and `ChainOpen` of the
open (`Opening`): locks are asked for without waiting (`LOCK_NB`), so an open
never depends on another process, and nothing is asked of those. `RawPlane` has
weak fairness of the reader thread and of the join in `Drop`. `IbmRecords`
(`find_hang`) has weak fairness of a read's own loop, which is what would have
to end.

## 5. What is proved

Eight modules hold theorems; `PROJECT.json` lists each with the property it
states. The pattern is one throughout: the invariant wanted is not inductive, a
stronger `IInv` is; TLC was given it first, on the instance of a run, and the facts
`Init => IInv`, `IInv /\ [Next]_vars => IInv'` and `IInv => Inv` are proved, with a
lemma for each action.

**CommitJournalProofs**, for every file size, extent size and content, and any
number of commits, crashes and failures of any kind. All but `TypeCorrect` assume
`ParentSync`, that the directory of the sidecar can be synced: where it cannot,
the code overwrites the image under a journal a power loss removes
(`journal.rs:273`).

- `InvCorrect`. That a restored image is a candidate depends on what the journal
  covers, on which blocks the apply has reached and on what stable storage has
  seen of each. `IInv` says: *a journal on stable storage undoes both copies of
  the image to one candidate, wherever they are in between* (`DurableJournalOK`);
  the journal a process reads does the same, and one that is not yet stable was
  written while the image stood still (`JournalOK`); outside apply and undo the
  image is whole and both copies agree (`WholeBetween`); and per step, what
  staging promised (`StagedOK`), which blocks apply and undo have done
  (`ApplyOK`, `RestoreOK`) and what retiring leaves (`RetireOK`).
- From it `RecoveryTheorem`, `JournalMatchesTheorem`, `AckedTheorem`, the action
  property `WriteAhead`, and `Refinement`: every step is a step of `AtomicImage`
  or a stutter under `content <- DurableRecovered`.
- `DriverTheorem` and `FailedCommitTheorem`: the caller's side, from `SessionOK`,
  which says at each step which image the driver's tables describe and which the
  commit will report. They assume that retire's sync does not fail
  (`"retireSync" \notin FaultKinds`); `find_undo` shows that they are false
  without it. The failing sync costs the caller's view, never recovery:
  `FaultKinds` is unconstrained in the theorems above.

**SessionCacheProofs**, for every disk, extent size, bound and number of offloads
in flight. `IInv` says that versions are stamps given once, so that what the
worker wrote before an extent came back to memory is never taken for what it
holds now (`VersionsOK`); that an extent handed to the worker stays altered and
resident until its completion is taken, is in the channels once, and that an
answer for the version still held means the slot holds it (`ChannelsOK`); and
that what was never altered is what the disk holds (`CleanOK`).

- `CacheTheorem`, `WorkerTheorem`, `SavedTheorem`, `BoundTheorem`, `TrackedTheorem`:
  whatever host calls fail.
- `ReadsTheorem` and `BufferedTheorem`, the refinement of `BufferedDisk`, under
  `SpillsHold`: no spill of the session's own thread fails (`find_spill`). The
  worker's writes, the disk's reads and commits may fail.

The proof of `VersionsOK` shows that the branch of `evict_one` for an extent
prespilled at its current version (`cache.rs:475`) is never taken: a touch that
alters the extent gives it a new stamp.

**ImageClaimsProofs**, for any number of processes, files, commits and lost
processes. `IInv` says who holds a claim and in which mode at each step
(`ClaimsOK`), what the placer of a new artifact has at the name (`PlacedOK`), what
an armed sidecar undoes to and whose it is (`JournalOK`), what an earlier session
left (`LeftoverOK`), and which refused process owes its
refusal to whom (`FatesOK`). All its theorems assume `OnePlacer`, that one process
makes new artifacts: two that place one name at once rename over each other's
file (`device.rs:254` looks for the destination before the build).
`WriterTheorem`, `EarlierTheorem`, `LiveCommitTheorem`, `AckedTheorem`,
`OneGetsInTheorem`, and the action property `StandStillTheorem`.

**MediaSessionProofs**, for any device types, bays, files, recordings and places,
and any number of media: `LinksCorrect` and `SeatedCorrect` (the links at both
ends, the distinct places of devices and the match of medium and drive are
inductive together), `NothingLeftBehindTheorem` and `IdentityTheorem` (from the
accounts of the history variable and the order in which identities are issued),
and `BytesTheorem`, where `ArchiveModes = {"read"}`: a stored entry of a writable
archive file is writable, and its commit writes into the archive
(`archive/mod.rs:631`, against `recognition.rs:149`).

**LibraryProofs** has a part for each of five components that keep no state of
each other's.

- `HandlesTheorem`, for any number of loads, releases and sessions: within its
  session, a handle of any age names the medium it was given for or nothing.
  `IInv` holds that identities of the pool are below the next one, that a
  discovery loaded has given up what it found, and that every handle of the
  present session names its own.
- `TableTheorem` (`CleanRowIsWholeChain`), for any disks and any bound on the
  walk. `TableIInv` says that the boot records passed are those of a trail from
  the first one that the links close under but for the one the walk stands at
  (`Trail`), and that each has given the pool its volume. A walk that ends has
  passed the least closed set itself, so no induction along paths is needed; one
  that goes round runs into its bound.
- `PlaneTheorem` (`PlaneIsTheImage`), for any image, bound, read-ahead and number
  of reads: the cache under its lock is bounded and true (`CacheOK`), what the
  reader thread holds outside the lock is what the image held and still holds
  until a commit (`WorkerOK`), and so is every answer (`AnswerOK`).
- `CoverTheorem` (`AccountIsExclusive`), for any floor and any claims: the claims
  taken are ordered and disjoint (`ClaimsOK`), so the two neighbours `claim`
  compares with are all it could meet, and the account `finish` makes of them is
  total.
- `RefusalTheorem` (`RefusalChangesNothing`), for volumes of any size and any table
  and directories, corrupt ones included. `FatIInv` says that the volume has its shape,
  and its table's copies are in step if every volume's were. The work is in each verb: the chain it follows is of clusters, none
  of them free and none twice (`ChainFact`, by the least step at which the walk
  along the table could come back on itself), so releasing it frees exactly its
  length (`ReleaseFact`); a directory that grows takes one cluster (`GrowFact`),
  each directory made one more (`CreateFact`, `MakingFact`), and what the verb
  counted before its first write covers them all, so no later step is refused.
- `CopiesTheorem`, from the same invariant: copies of the table that start in step
  (`InStep`) are in step after any calls (`CopiesAgree`, a part of `StoresAreTrue`).
  The hypothesis is one of volumes as mounted: the verbs read the first copy, and
  nothing they write joins copies that came apart elsewhere.

Where a part reads a recursive function (the account's sweep, a chain, the row of
directories made), its proof first shows that the function exists, by the least
length at which it would not (`LeastNat`), and then uses one step of it at a time.

**Vdi**: `MapTheorem` (`MapExact`) and `OverlayTheorem` (`Vdi` implements
`BufferedDisk`), for images of any size and block width and any number of writes,
under `Sound`: the images opened are such as `Shaped` and `MappedOnce` describe,
which `vdi.rs` requires of the header and relies on of the map. `IInv` is
`SoundImage` of the image and of the one a batch would be put back to, at every
step of a batch, refused writes included.

**Qcow2**: `GuestTheorem`, that the driver implements `BufferedDisk`, under the
hypothesis that the images opened are `SoundImage`: sizes and a backing image that
reads (`ShapeOK`), an L1 table that covers the disk and names no L2 table twice
(`TablesOK`), entries that name what is in the file (`DataOK`), and a COPIED flag
only on a cluster no other entry has (`CopiedOK`). `IInv` adds that the L1 table
kept in memory is the file's and the kept one the kept file's, after a refused
write and a discard too. The step that needs it all is an allocation in the
middle of a write: what it takes - a cluster, a refcount block, the block that
counts that one - lies past everything the tables name, a table enters L1 before
any entry of it is set, a write that stops in between has changed nothing the
guest reads, and seeding reads what the guest read before. The refcounts
themselves play no part in what the guest sees.

`RefcountsTheorem` (`RefcountsExact`) is about them, under the further hypothesis
`CountedImage`: the images opened count each cluster as often as it is used, their
refcount blocks are in the file and counted too, and a compressed cluster has its
host cluster to itself (`Alone`). `CInv` is that of every image the driver keeps.
Within a write the counts and the uses part, and `Accounted(i, owed, lost)` says by
how much: `owed` are the clusters counted and not yet used, `lost` those used and
no longer counted. Taking a cluster, entering a table, moving an entry and
freeing what it named each move a cluster between the two, a refusal part way
leaves only `owed`, and the blocks that count themselves are counted by the same
step that allocates them. `FreeTheorem` draws from it that what is counted free is
used by nothing, which is what the comment of `write_cluster` says of the cluster
it frees: right where compressed clusters share no host cluster, and only there
(section 7).

**ChainOpen**: `ChainTheorem` (`ComposedIsWhole`), for any files and any meddling,
under `Openable`: the open is of an image a driver claims, which its own claim has
reconciled. `ChainIInv` is that the files held are distinct and nobody else's
and half applied only where `late` says so (`ChainOK`), that each is the one its
child names by the rule of its format (`LinksOK`), and what each step of the open
has established for the next (`StepOK`): when a file found is to be claimed, it is
whole, or a writer has it, or one was lost over it since the look for its sidecar.

### What is only model-checked

Liveness (`CommitCallsReturn`, `CallsReturn`, `OpensReturn`, `OpenEnds`, `DropReturns`) and anything
about ENABLED are out of the prover's reach, as is what recursive definitions
compute for every input: what a FAT chain or a catalog's walk reads, the section
store, the rungs, the P64 coder and the reduction stay with TLC, and with them
`FilesSpec`, `RecordingsAreServed` and the FAT and catalog parts of
`StoresAreTrue`, whose cache part is `BoundTheorem` and `SavedTheorem` and whose
table copies are `CopiesTheorem`. `VdiDisk` is
`OverlayTheorem` and `MapTheorem` of the instance. `StateIsTrue` and
`CallsAreHonest` join invariants of seven modules for one state space and are
checked only.

## 6. What is not modelled, and why

Formats as bytes (headers, seals, codecs, archive grammars, the wording of
reports) are data to these modules: an armed journal, a claim or an asserted
device type is a value. Bit-level codecs and checksums are pure functions over
inputs beyond a model checker; the P64 range coder is modelled at reduced widths,
and the floating-point lattice of the reduction by every ascending sequence of
the same length. The HxC, MFI and ImageDisk readers, DOS names and the
construction of verdict reports are left out. Windows' sharing modes and its lack
of a directory sync are not modelled apart from what they share with POSIX. A
session over a caller's own handle (`over_handle`) takes no lock, so what another
process does to that file is the caller's to prevent. `PROJECT.json` says for
every part whether it is modelled, and for every known hazard which property
covers it or why none does.

Where the modules abstract: `CommitJournal` stages in one step, since until the
capture is taken nothing of the file changes; a block is written whole by the
host; a torn sidecar is one value. `SessionCache` moves an extent to or from a
slot in one step of the thread that does it. `ImageClaims` finds and locks a file
in one step (`open`, then `flock`), and a commit's writes to the image are one
interval in which it is torn. `MediaSession` does not say which bytes a medium
holds, only whether they have changed; `MediumVerbs` does.

## 7. Where the code and its words part

Beside the six counterexamples, these were met while modelling. None of them is a
property of a run; the modules follow the code.

Commit, cache and claims:

- `journal.rs:273`: where the parent directory cannot be synced nothing is said,
  and the image is overwritten under a journal that a power loss removes
  (`:265` says the name is durable first). `ParentSync` stands for it.
- `device.rs:254` looks for a new artifact's destination before the build and
  renames over it after (`:191`); `format.rs` and `p64.rs` place theirs the same
  way. `Placers` stands for it.
- `media.rs:1301`: a commit of an authored medium has no undo.
- `cache.rs:475`: the branch for an extent prespilled at its present version is
  unreachable.
- `media.rs:810`: reads of the raw plane are of the image as the plane's cache
  has it, not of what the other plane has committed since: `PlaneIsTheImage`
  speaks until the first commit, and `RawPlane.RawReadsTheImage` states the rest
  and is false.
- `archive/mod.rs:631`: a stored entry of a writable archive file is writable. With
  `ArchiveModes = {"read", "write"}` TLC refutes `BytesMoveByOwnCommit`.
- `qcow2.rs:653` and `:657`, `vdi.rs:756` and `:760`: a backing file is reconciled
  under a claim that ends before the chain's own is taken. A process lost over the
  file in between leaves the chain over a half-applied member, where the comments
  (`qcow2.rs:650`) say it is reconciled first "exactly as at a top-level open": it
  is, with the gap of `find_reader`. `ChainOpen.ComposedIsReconciled` states the
  comment and TLC refutes it in ten states; `ComposedIsWhole` says that this gap is
  the only way.

Opening, declarations, discovery:

- A tie of probes at full confidence (a qcow2 that is also VDI, or a 102,400-byte
  qcow2 named `.h8d`) is Unknown, and discovery then opens the file raw.
- `identify()` probes the file again whatever was declared of it.
- `pools.rs` says a flux artifact is refused whatever was declared; only the P64
  signature is foreign there, and `over_entry` does not ask.
- `load_discovery_as` for raw media states no block size, though
  `Format::declared` requires one.
- `FLUX_RECORDED_DEVICES` names one device while MFI and HxC record others.

Drivers and namespaces:

- `qcow2.rs:551–555`: writing over a compressed cluster counts the host cluster it
  began in as free, though other compressed clusters may share it
  (`Qcow2.FreeIsUnused` states the comment; the run's images hold one).
- `space.rs:105–110`: a write within a space is checked against the space, while
  the copies the filesystem makes are not; a FAT volume's name verbs are not
  bounded by the partition's extent.
- `vdi.rs:570`: a fresh block is numbered by the header's count, which is compared
  with the size of the map but not with the numbers in it; over an image whose
  count is low, two places of the disk come to share a block. `Vdi.Sound` leaves
  such images out.
- `mbr.rs:456`: an extended chain that circles is walked to its bound, and reports
  its logical rows once for every turn. `CleanRowIsWholeChain` is about the issue
  the extended row then bears.
- `mbr.rs:385–530`: a partition's rows are never checked against the end of the
  content.
- A volume over an IBM record layer reaches `unreachable!` in
  `partition/mod.rs`, from C and from Python.
- The last, partial cylinder of a raw rendition is refused by `write_raw`.

Flux:

- `bits_between` returns 0 for an unresolved interval, so a location most of whose
  spacings are unresolved has `record_bits` 0, deviates by nothing and is claimed
  (`intervals.rs`, `verdict.rs:93`); the spacing across the index lacks the
  interval from the last transition to the first.
- A capture claimed on two heads counts more locations than were declared, which
  the cap on confidence hides.
- `kryoflux.rs:667`: members are admitted by name alone.
- IBM `read_sector` answers from the first claim of an address, and
  `geometry_of`'s comment promises more than it does.
- `flux/stream.rs:117` and the section cache's comment describe other behaviour
  than the code's.
- The projections of one remanence image to g64 and p64 keep orbits that the d64
  merges.

Bindings:

- A C string from a medium's view is said to live as long as the medium; a
  refresh of the view (`session.rs:75–104`) frees it.
- `load_media` is said to take ownership; early refusals do not.
- `storage/partition.rs:18` promises null with the error outs untouched;
  `clear_error` has run first.
- An absent claim rule and an empty one are the same to a C caller, as are an
  absent and an empty label; a missing d64 report item reads false.
- Facts captured in a Python object (`has_namespace`, `size_bytes`,
  `is_addressable`) are those of its making; a list refused midway by
  `load_media` has consumed the sources before it; and after `__exit__`
  identities start again, so a handle of the old session can come to name a
  medium of the new one. `NoStrangers` is therefore said within a session.
- The Python disk report drops the category of file-system, schema and volume
  issues that the C one keeps.

## 8. Plan

What would be proved next, in this order:

1. `ChainsExact` of `FatVolume` from volumes on which it holds: the lemmas of
   `RefusalTheorem` say what each step does to the free clusters, and what is
   missing is what it does to every other chain.
2. `FilesSpec`, from that: each verb changes the one name it is about.
3. The parts of `StateIsTrue`, a module at a time, beginning with `SpaceIsTrue` and
   `TakenOnce`, whose modules hold no recursion.

What would be modelled next: DOS names as an algorithm against a reference
definition; the ImageDisk reader's order of sectors; two compressed clusters in
one host cluster once the code settles what their count should be.
