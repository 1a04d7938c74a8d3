----------------------------- MODULE ImageClaims -----------------------------
(***************************************************************************)
(* Processes that open, commit and make one image file                     *)
(* (crates/remanence/src/io/device.rs, source.rs, journal.rs and           *)
(* model/disk/recognition.rs): the claims that keep them apart, and the    *)
(* recovery journal each open looks for.                                   *)
(*                                                                         *)
(* A claim is on a file, a name can move to another file, and the sidecar  *)
(* is found by name.  What a commit does inside is CommitJournal's; here   *)
(* it is as long as others can see it: the image is torn from the first    *)
(* write of an apply or of a restoration to the last.                      *)
(***************************************************************************)
EXTENDS Integers

CONSTANTS
  Procs,               \* processes
  Files,               \* files the name may come to denote
  NoFile, NoClaim,     \* the name is free; the process holds nothing
  NoSidecar, Unsealed, \* no recovery journal; one that was not sealed
  Torn,                \* content between two versions
  Placers,             \* processes that make new artifacts
  MaxVersion,          \* bound: commits that reach a file
  MaxCrashes           \* bound: processes lost

Versions == 0 .. MaxVersion
Modes    == {"read", "write"}
Claims   == [file : Files, mode : Modes]
Sealed   == [file : Files, undo : Versions]

ASSUME BoundsAssumption == MaxVersion \in Nat /\ MaxCrashes \in Nat
ASSUME ProcsAssumption == Procs # {} /\ Placers \subseteq Procs
ASSUME MarksAssumption ==
  /\ NoFile \notin Files /\ NoClaim \notin Claims /\ Torn \notin Versions
  /\ NoSidecar \notin Sealed /\ Unsealed \notin Sealed /\ NoSidecar # Unsealed

VARIABLES
  entry,      \* the file the image's name denotes
  bytes,      \* what each file holds
  sidecar,    \* what the recovery journal's name denotes
  held,       \* the claim of each process
  pc,         \* the step each process is at
  intent,     \* the AccessIntent of its open
  fresh,      \* the staged file of a process making an artifact
  acked,      \* history: the version of each file last acknowledged
  fate,       \* history: what became of each process's first open
  crashes

host    == <<entry, bytes, sidecar>>
history == <<acked, fate>>
vars    == <<host, held, pc, intent, fresh, history, crashes>>

-----------------------------------------------------------------------------

Opening    == {"look", "ask", "exclusive", "lost", "reclaim"}
Restoring  == {"reconcile", "restore", "discard"}
Committing == {"record", "apply", "applying", "retire"}
Placing    == {"build", "building", "rename"}
Steps      == {"idle", "open"} \cup Opening \cup Restoring \cup Committing \cup Placing

TypeOK ==
  /\ entry \in Files \cup {NoFile}
  /\ bytes \in [Files -> Versions \cup {Torn}]
  /\ sidecar \in Sealed \cup {NoSidecar, Unsealed}
  /\ held \in [Procs -> Claims \cup {NoClaim}]
  /\ pc \in [Procs -> Steps]
  /\ intent \in [Procs -> Modes]
  /\ fresh \in [Procs -> Files \cup {NoFile}]
  /\ acked \in [Files -> Versions]
  /\ fate \in [Procs -> {"none", "in", "refused", "absent", "again"}]
  /\ crashes \in Nat

\* An earlier session left the file whole, or a commit interrupted anywhere.
Init ==
  /\ entry \in Files \cup {NoFile}
  /\ sidecar \in {NoSidecar, Unsealed} \cup [file : Files, undo : {0}]
  /\ bytes \in [Files -> {0, Torn}]
  /\ entry = NoFile => sidecar = NoSidecar
  /\ \A f \in Files : bytes[f] = Torn => f = entry /\ sidecar \in Sealed
  /\ sidecar \in Sealed => sidecar.file = entry
  /\ held = [p \in Procs |-> NoClaim]
  /\ pc = [p \in Procs |-> "idle"]
  /\ intent = [p \in Procs |-> "read"]
  /\ fresh = [p \in Procs |-> NoFile]
  /\ acked = [f \in Files |-> 0]
  /\ fate = [p \in Procs |-> "none"]
  /\ crashes = 0

-----------------------------------------------------------------------------
(* Steps of one process *)

Goto(p, s)   == pc' = [pc EXCEPT ![p] = s]
Take(p, f, m) == held' = [held EXCEPT ![p] = [file |-> f, mode |-> m]]
Drop(p)      == held' = [held EXCEPT ![p] = NoClaim]
Mine(p)      == held[p].file

Holders(f) == {q \in Procs : held[q] # NoClaim /\ held[q].file = f}

\* Mutant of CanClaim: a writer does not exclude readers.
CanClaimPastReaders(m) ==
  entry # NoFile /\ \A q \in Holders(entry) : held[q].mode = "read"

\* open_exact: a shared lock for reading and an exclusive one for writing,
\* never waited for.
CanClaim(m) ==
  entry # NoFile /\ \A q \in Holders(entry) : m = "read" /\ held[q].mode = "read"

Fate(p, how) == fate' = [fate EXCEPT ![p] = IF @ = "none" THEN how ELSE @]

\* The session is exposed to its caller.
Expose(p) == Goto(p, "open") /\ Fate(p, "in")

\* The open fails by name; the claim, if any, goes with it.
Refuse(p) ==
  /\ Goto(p, "idle") /\ Drop(p)
  /\ Fate(p, IF entry = NoFile THEN "absent" ELSE "refused")

\* claim_image
Claim(p, i) ==
  /\ pc[p] = "idle"
  /\ intent' = [intent EXCEPT ![p] = i]
  /\ IF CanClaim(i)
       THEN /\ Take(p, entry, i) /\ Goto(p, "look")
            /\ fate' = [fate EXCEPT ![p] = IF @ = "none" THEN @ ELSE "again"]
       ELSE /\ Goto(p, "idle") /\ Drop(p)
            /\ fate' = [fate EXCEPT ![p] =
                 IF @ # "none" THEN "again" ELSE IF entry = NoFile THEN "absent" ELSE "refused"]
  /\ UNCHANGED <<host, fresh, acked, crashes>>

\* Mutants of Look: a writer is exposed to what it finds; a reader keeps its
\* claim while it asks for another.
LookReadersOnly(p) ==
  /\ pc[p] = "look"
  /\ IF sidecar = NoSidecar \/ intent[p] = "write" THEN Expose(p) /\ UNCHANGED held
     ELSE Goto(p, "ask") /\ Drop(p) /\ UNCHANGED fate
  /\ UNCHANGED <<host, intent, fresh, acked, crashes>>
LookKeepsClaim(p) ==
  /\ pc[p] = "look"
  /\ IF sidecar = NoSidecar THEN Expose(p) ELSE Goto(p, "ask") /\ UNCHANGED fate
  /\ UNCHANGED <<host, held, intent, fresh, acked, crashes>>

\* at_path: the sidecar is looked for under the claim; a reader gives its
\* claim back for a moment of exclusive access.
Look(p) ==
  /\ pc[p] = "look"
  /\ IF sidecar = NoSidecar THEN Expose(p) /\ UNCHANGED held
     ELSE IF intent[p] = "write" THEN Goto(p, "reconcile") /\ UNCHANGED <<held, fate>>
     ELSE Goto(p, "ask") /\ Drop(p) /\ UNCHANGED fate
  /\ UNCHANGED <<host, intent, fresh, acked, crashes>>

\* reconcile_at
Ask(p) ==
  /\ pc[p] = "ask"
  /\ Goto(p, IF sidecar = NoSidecar THEN "reclaim" ELSE "exclusive")
  /\ UNCHANGED <<host, held, intent, fresh, history, crashes>>

\* Mutant of Exclusive: whoever holds the file, the reconciliation starts.
ExclusiveAnyway(p) ==
  /\ pc[p] = "exclusive"
  /\ Take(p, entry, "write") /\ Goto(p, "reconcile")
  /\ UNCHANGED <<host, intent, fresh, history, crashes>>

Exclusive(p) ==
  /\ pc[p] = "exclusive"
  /\ IF CanClaim("write")
       THEN Take(p, entry, "write") /\ Goto(p, "reconcile")
       ELSE Goto(p, "lost") /\ UNCHANGED held
  /\ UNCHANGED <<host, intent, fresh, history, crashes>>

\* Mutants of Lost: the loss is always benign; the claim is asked for again.
LostGoesOn(p) ==
  /\ pc[p] = "lost"
  /\ Goto(p, "reclaim")
  /\ UNCHANGED <<host, held, intent, fresh, history, crashes>>
LostAsksAgain(p) ==
  /\ pc[p] = "lost"
  /\ Goto(p, IF sidecar = NoSidecar THEN "reclaim" ELSE "exclusive")
  /\ UNCHANGED <<host, held, intent, fresh, history, crashes>>

\* Losing the claim is benign where the sidecar went with it.
Lost(p) ==
  /\ pc[p] = "lost"
  /\ IF sidecar = NoSidecar
       THEN Goto(p, "reclaim") /\ UNCHANGED <<held, fate>>
       ELSE Refuse(p)
  /\ UNCHANGED <<host, intent, fresh, acked, crashes>>

\* The reader takes its claim back.
Reclaim(p) ==
  /\ pc[p] = "reclaim"
  /\ IF CanClaim("read") THEN Take(p, entry, "read") /\ Expose(p) ELSE Refuse(p)
  /\ UNCHANGED <<host, intent, fresh, acked, crashes>>

Close(p) ==
  /\ pc[p] = "open"
  /\ Goto(p, "idle") /\ Drop(p)
  /\ UNCHANGED <<host, intent, fresh, history, crashes>>

-----------------------------------------------------------------------------
(* journal::reconcile, under the claim the process holds *)

Reconciled(p) ==
  IF intent[p] = "write" THEN Expose(p) /\ UNCHANGED held
  ELSE Goto(p, "reclaim") /\ Drop(p) /\ UNCHANGED fate

Reconcile(p) ==
  /\ pc[p] = "reconcile"
  /\ IF sidecar = NoSidecar THEN Reconciled(p) /\ UNCHANGED bytes
     ELSE IF sidecar = Unsealed
       THEN Goto(p, "discard") /\ UNCHANGED <<bytes, held, fate>>
       ELSE /\ bytes' = [bytes EXCEPT ![Mine(p)] = Torn]
            /\ Goto(p, "restore")
            /\ UNCHANGED <<held, fate>>
  /\ UNCHANGED <<entry, sidecar, intent, fresh, acked, crashes>>

\* The journal knows bytes and a length, not a file.
Restore(p) ==
  /\ pc[p] = "restore"
  /\ bytes' = [bytes EXCEPT ![Mine(p)] = IF sidecar.file = Mine(p) THEN sidecar.undo ELSE Torn]
  /\ Goto(p, "discard")
  /\ UNCHANGED <<entry, sidecar, held, intent, fresh, history, crashes>>

Discard(p) ==
  /\ pc[p] = "discard"
  /\ sidecar' = NoSidecar
  /\ Reconciled(p)
  /\ UNCHANGED <<entry, bytes, intent, fresh, acked, crashes>>

-----------------------------------------------------------------------------
(* MediaState::commit *)

Record(p) ==
  /\ pc[p] = "open" /\ held[p].mode = "write"
  /\ bytes[Mine(p)] \in 0 .. MaxVersion - 1
  /\ sidecar' = Unsealed
  /\ Goto(p, "record")
  /\ UNCHANGED <<entry, bytes, held, intent, fresh, history, crashes>>

Seal(p) ==
  /\ pc[p] = "record"
  /\ sidecar' = [file |-> Mine(p), undo |-> bytes[Mine(p)]]
  /\ Goto(p, "apply")
  /\ UNCHANGED <<entry, bytes, held, intent, fresh, history, crashes>>

Apply(p) ==
  /\ pc[p] = "apply"
  /\ bytes' = [bytes EXCEPT ![Mine(p)] = Torn]
  /\ Goto(p, "applying")
  /\ UNCHANGED <<entry, sidecar, held, intent, fresh, history, crashes>>

Applied(p) ==
  /\ pc[p] = "applying"
  /\ bytes' = [bytes EXCEPT ![Mine(p)] = acked[Mine(p)] + 1]
  /\ Goto(p, "retire")
  /\ UNCHANGED <<entry, sidecar, held, intent, fresh, history, crashes>>

\* A failed apply is undone from the journal, under the same claim.
ApplyFails(p) ==
  /\ pc[p] = "applying"
  /\ Goto(p, "reconcile")
  /\ UNCHANGED <<host, held, intent, fresh, history, crashes>>

\* Mutants of Retire: success is reported with the journal left armed, or
\* before the apply is over.
RetireLater(p) ==
  /\ pc[p] = "retire"
  /\ acked' = [acked EXCEPT ![Mine(p)] = bytes[Mine(p)]]
  /\ Goto(p, "open")
  /\ UNCHANGED <<host, held, intent, fresh, fate, crashes>>

RetireEarly(p) ==
  /\ pc[p] \in {"applying", "retire"}
  /\ sidecar' = NoSidecar
  /\ acked' = [acked EXCEPT ![Mine(p)] = bytes[Mine(p)]]
  /\ Goto(p, "open")
  /\ UNCHANGED <<entry, bytes, held, intent, fresh, fate, crashes>>

Retire(p) ==
  /\ pc[p] = "retire"
  /\ sidecar' = NoSidecar
  /\ acked' = [acked EXCEPT ![Mine(p)] = bytes[Mine(p)]]
  /\ Goto(p, "open")
  /\ UNCHANGED <<entry, bytes, held, intent, fresh, fate, crashes>>

-----------------------------------------------------------------------------
(* place_new_artifact: built beside the destination, then renamed over it *)

PlaceChecked(p) ==
  /\ pc[p] = "idle" /\ p \in Placers
  /\ entry = NoFile
  /\ Goto(p, "build")
  /\ UNCHANGED <<host, held, intent, fresh, history, crashes>>

Unused(f) == /\ f # entry
             /\ \A q \in Procs : fresh[q] # f /\ (held[q] # NoClaim => Mine(q) # f)

PlaceBuild(p, f) ==
  /\ pc[p] = "build" /\ Unused(f)
  /\ fresh' = [fresh EXCEPT ![p] = f]
  /\ bytes' = [bytes EXCEPT ![f] = Torn]
  /\ Goto(p, "building")
  /\ UNCHANGED <<entry, sidecar, held, intent, history, crashes>>

\* The whole count was written and synced, or the staged file is removed.
PlaceBuilt(p) ==
  /\ pc[p] = "building"
  /\ bytes' = [bytes EXCEPT ![fresh[p]] = 0]
  /\ acked' = [acked EXCEPT ![fresh[p]] = 0]
  /\ \/ Goto(p, "rename") /\ UNCHANGED fresh
     \/ Goto(p, "idle") /\ fresh' = [fresh EXCEPT ![p] = NoFile]
  /\ UNCHANGED <<entry, sidecar, held, intent, fate, crashes>>

PlaceRename(p) ==
  /\ pc[p] = "rename"
  /\ entry' = fresh[p]
  /\ fresh' = [fresh EXCEPT ![p] = NoFile]
  /\ Goto(p, "idle")
  /\ UNCHANGED <<bytes, sidecar, held, intent, history, crashes>>

-----------------------------------------------------------------------------

\* A lost process leaves its files as they are, and its claim goes with it.
Crash(p) ==
  /\ pc[p] # "idle" /\ crashes < MaxCrashes
  /\ crashes' = crashes + 1
  /\ Goto(p, "idle") /\ Drop(p)
  /\ fresh' = [fresh EXCEPT ![p] = NoFile]
  /\ Fate(p, "again")
  /\ UNCHANGED <<host, intent, acked>>

Open(p) == \/ Look(p) \/ Ask(p) \/ Exclusive(p) \/ Lost(p) \/ Reclaim(p)
           \/ Reconcile(p) \/ Restore(p) \/ Discard(p)

Commit(p) == \/ Record(p) \/ Seal(p) \/ Apply(p) \/ Applied(p) \/ ApplyFails(p) \/ Retire(p)

Place(p) == \/ PlaceChecked(p) \/ PlaceBuilt(p) \/ PlaceRename(p)
            \/ \E f \in Files : PlaceBuild(p, f)

Next == \E p \in Procs :
  \/ \E i \in Modes : Claim(p, i)
  \/ Open(p) \/ Commit(p) \/ Place(p) \/ Close(p) \/ Crash(p)

Spec == Init /\ [][Next]_vars

\* An open that has begun is straight-line code of its own process.
FairSpec == Spec /\ \A p \in Procs : WF_vars(Open(p))

-----------------------------------------------------------------------------
(* Properties *)

Reads(p)  == pc[p] = "open" /\ held[p].mode = "read"
Writes(p) == pc[p] = "open" /\ held[p].mode = "write"

\* What the next open that reconciles would expose of a file.
Recovered(f) == IF sidecar \in Sealed /\ sidecar.file = f THEN sidecar.undo ELSE bytes[f]

\* A writer is exposed to a whole image however many sessions were cut off
\* before it (recognition.rs:80-83).
WriterSeesWhole == \A p \in Procs : Writes(p) => bytes[Mine(p)] # Torn

\* The same of a reader: "the artifact comes back wholly the old state or
\* wholly the committed new one, never a partial third state".
ReaderSeesWhole == \A p \in Procs : Reads(p) => bytes[Mine(p)] # Torn

\* What an earlier session left is reconciled before anyone reads, whoever
\* else is opening at the time.
EarlierCommitReconciled == crashes = 0 => WriterSeesWhole /\ ReaderSeesWhole

\* The bytes under a session move only by its own commits: no open, no
\* reconciliation and no commit of another process (device.rs:18-27).
SessionBytesStandStill ==
  [][\A p \in Procs :
       Reads(p) /\ pc'[p] = "open" => bytes'[Mine(p)] = bytes[Mine(p)]]_vars

\* No live commit is mid-flight where a reconciliation runs
\* (recognition.rs:91-92), and the journal it would need is still its own.
LiveCommitKeepsJournal ==
  \A p \in Procs :
    pc[p] \in {"apply", "applying", "retire"} =>
      /\ sidecar = [file |-> Mine(p), undo |-> acked[Mine(p)]]
      /\ \A q \in Procs \ {p} : pc[q] \notin Restoring

\* A commit that returned is never taken back, and one that did not is never
\* half kept: with no commit running, the next open exposes the acknowledged
\* version of the file the name denotes.
AckedVersionRecovered ==
  entry # NoFile /\ (\A p \in Procs : pc[p] \notin Committing) => Recovered(entry) = acked[entry]

\* Processes that each ask once do not all refuse each other: a reader that
\* gives up its claim to reconcile never costs everyone the image.
OneGetsIn == \E p \in Procs : fate[p] # "refused"

\* An open ends, in a session or in a refusal, without waiting for another
\* session to end (device.rs:136-141, "never a hidden wait").
OpensReturn ==
  \A p \in Procs : pc[p] \in Opening \cup Restoring ~> pc[p] \notin Opening \cup Restoring

\* A destination this library did not create is never overwritten
\* (device.rs:191-195, "a named refusal rather than an overwrite").
NeverOverwritten == [][entry # NoFile => entry' = entry]_vars

-----------------------------------------------------------------------------
(* The inductive invariant behind these.  It is said of one process making  *)
(* artifacts: with two, one can be renamed over the other's while that is   *)
(* open (device.rs:254 looks for the destination before the build), and the *)
(* sidecar, found by name, then belongs to a file the name has left.        *)

OnePlacer == \A p, q \in Placers : p = q

Waiting == {"ask", "exclusive", "lost", "reclaim"}

\* Who holds a claim, on the file the name denotes and in which mode; a writer
\* holds it alone.
ClaimsOK ==
  /\ \A p \in Procs :
       /\ held[p] = NoClaim <=> pc[p] \in {"idle"} \cup Waiting \cup Placing
       /\ held[p] # NoClaim => Mine(p) = entry
       /\ pc[p] \in Waiting => intent[p] = "read"
       /\ pc[p] \in {"look", "open"} => held[p].mode = intent[p]
       /\ pc[p] \in Restoring \cup Committing => held[p].mode = "write"
       /\ pc[p] \in Committing => intent[p] = "write"
  /\ \A p, q \in Procs :
       held[p] # NoClaim /\ held[q] # NoClaim /\ held[p].mode = "write" => p = q

\* Until the name denotes a file there is nothing to claim or to recover; the
\* one artifact being made is nobody else's.
PlacedOK ==
  /\ entry = NoFile =>
       sidecar = NoSidecar /\ \A p \in Procs : pc[p] \in {"idle"} \cup Placing
  /\ \A p \in Procs :
       /\ pc[p] \in Placing => p \in Placers /\ entry = NoFile
       /\ fresh[p] # NoFile <=> pc[p] \in {"building", "rename"}
       /\ pc[p] = "rename" => bytes[fresh[p]] = acked[fresh[p]]

\* The journal undoes to the acknowledged version, and only under it is the
\* image anything else.
JournalOK ==
  entry # NoFile =>
    /\ sidecar \in Sealed => sidecar = [file |-> entry, undo |-> acked[entry]]
    /\ sidecar \notin Sealed => bytes[entry] = acked[entry]
    /\ \A p \in Procs :
         /\ pc[p] = "open" /\ held[p].mode = "write" => sidecar = NoSidecar
         /\ pc[p] = "record" => sidecar = Unsealed
         /\ pc[p] \in {"apply", "applying", "retire", "restore"} => sidecar \in Sealed
         /\ pc[p] \in {"apply", "discard"} => bytes[entry] = acked[entry]
         /\ pc[p] = "retire" => bytes[entry] = acked[entry] + 1
         /\ pc[p] \in Committing => acked[entry] < MaxVersion

\* With no process lost, a journal that nobody is at work on is one that an
\* earlier session left, and nobody reads before it is reconciled.
LeftoverOK ==
  crashes = 0 /\ sidecar # NoSidecar =>
    \/ \E q \in Procs : pc[q] \in Restoring \cup Committing
    \/ \A p \in Procs : pc[p] \notin {"open", "reclaim"}

\* Somebody has not been refused, and is not about to be.
Doomed(p) == fate[p] = "refused" \/ (pc[p] = "lost" /\ sidecar # NoSidecar)
FatesOK ==
  /\ \A p \in Procs : pc[p] \notin {"idle"} \cup Placing => fate[p] # "refused"
  /\ \E p \in Procs : ~Doomed(p)

IInv == ClaimsOK /\ PlacedOK /\ JournalOK /\ LeftoverOK /\ FatesOK
=============================================================================
