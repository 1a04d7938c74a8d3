-------------------------- MODULE ImageClaimsProofs --------------------------
(***************************************************************************)
(* Proofs about the claims on an image file, for any number of processes,  *)
(* files, commits and lost processes, one process making new artifacts.    *)
(***************************************************************************)
EXTENDS ImageClaims, TLAPS

-----------------------------------------------------------------------------
(* Helpers *)

\* A step moves one process.
LEMMA Others ==
  ASSUME TypeOK, NEW p \in Procs, NEW s, Goto(p, s)
  PROVE  pc'[p] = s /\ \A q \in Procs \ {p} : pc'[q] = pc[q]
BY DEF Goto, TypeOK

LEMMA OthersClaims ==
  ASSUME TypeOK, NEW p \in Procs
  PROVE  /\ \A f, m : Take(p, f, m) =>
              /\ held'[p] = [file |-> f, mode |-> m]
              /\ \A q \in Procs \ {p} : held'[q] = held[q]
         /\ Drop(p) => held'[p] = NoClaim /\ \A q \in Procs \ {p} : held'[q] = held[q]
BY DEF Take, Drop, TypeOK

LEMMA OthersFates ==
  ASSUME TypeOK, NEW p \in Procs, NEW how, Fate(p, how)
  PROVE  /\ fate'[p] = IF fate[p] = "none" THEN how ELSE fate[p]
         /\ \A q \in Procs \ {p} : fate'[q] = fate[q]
BY DEF Fate, TypeOK

\* A claim is a file and a mode.
LEMMA ClaimType ==
  ASSUME TypeOK, NEW p \in Procs, held[p] # NoClaim
  PROVE  held[p] \in Claims /\ Mine(p) \in Files /\ held[p].mode \in Modes
BY DEF TypeOK, Claims, Mine

LEMMA NewClaim ==
  ASSUME NEW f \in Files, NEW m \in Modes
  PROVE  [file |-> f, mode |-> m] \in Claims /\ [file |-> f, mode |-> m] # NoClaim
BY MarksAssumption DEF Claims

\* Who is anywhere but idle, waiting or making an artifact holds a claim, and
\* a claim for writing is the only one.
LEMMA Holds ==
  ASSUME TypeOK, ClaimsOK, NEW p \in Procs, pc[p] \notin {"idle"} \cup Waiting \cup Placing
  PROVE  held[p] # NoClaim /\ held[p] \in Claims /\ Mine(p) = entry /\ entry \in Files
BY ClaimType DEF ClaimsOK

LEMMA WritesAlone ==
  ASSUME TypeOK, ClaimsOK, NEW p \in Procs, held[p] # NoClaim, held[p].mode = "write"
  PROVE  \A q \in Procs \ {p} : held[q] = NoClaim /\ pc[q] \in {"idle"} \cup Waiting \cup Placing
BY DEF ClaimsOK

-----------------------------------------------------------------------------
(* Types *)

LEMMA TypeStep ==
  ASSUME TypeOK, IInv, [Next]_vars
  PROVE  TypeOK'
<1> USE DEF TypeOK, host, history
<1>1. CASE UNCHANGED vars BY <1>1 DEF vars
<1>2. ASSUME NEW p \in Procs, NEW i \in Modes, Claim(p, i) PROVE TypeOK'
  <2>1. held' \in [Procs -> Claims \cup {NoClaim}]
    BY <1>2, NewClaim DEF Claim, Take, Drop, CanClaim
  <2>2. pc' \in [Procs -> Steps] /\ intent' \in [Procs -> Modes]
    BY <1>2 DEF Claim, Goto, Steps, Opening
  <2>3. fate' \in [Procs -> {"none", "in", "refused", "absent", "again"}]
    BY <1>2 DEF Claim
  <2>4. QED BY <1>2, <2>1, <2>2, <2>3 DEF Claim
<1>3. ASSUME NEW p \in Procs, Open(p) PROVE TypeOK'
  <2>1. held' \in [Procs -> Claims \cup {NoClaim}]
    <3>1. ASSUME NEW m \in Modes, CanClaim(m), Take(p, entry, m)
          PROVE  held' \in [Procs -> Claims \cup {NoClaim}]
      BY <3>1, NewClaim DEF CanClaim, Take
    <3>2. CASE Drop(p) BY <3>2 DEF Drop
    <3>3. QED
      BY <1>3, <3>1, <3>2 DEF Open, Look, Ask, Exclusive, Lost, Reclaim, Reconcile, Restore,
         Discard, Reconciled, Refuse, Modes
  <2>2. pc' \in [Procs -> Steps]
    <3>1. \E s \in Steps : Goto(p, s)
      BY <1>3 DEF Open, Look, Ask, Exclusive, Lost, Reclaim, Reconcile, Restore, Discard,
         Reconciled, Refuse, Expose, Steps, Opening, Restoring
    <3>2. QED BY <3>1 DEF Goto
  <2>3. fate' \in [Procs -> {"none", "in", "refused", "absent", "again"}]
    <3>1. UNCHANGED fate \/ \E how \in {"in", "refused", "absent"} : Fate(p, how)
      BY <1>3 DEF Open, Look, Ask, Exclusive, Lost, Reclaim, Reconcile, Restore, Discard,
         Reconciled, Refuse, Expose
    <3>2. QED BY <3>1 DEF Fate
  <2>4. bytes' \in [Files -> Versions \cup {Torn}]
    <3>1. pc[p] = "restore" => sidecar \in Sealed
      <4>1. pc[p] = "restore" => entry # NoFile
        BY DEF IInv, PlacedOK, Placing
      <4>2. QED BY <4>1 DEF IInv, JournalOK
    <3>2. sidecar \in Sealed => sidecar.undo \in Versions BY DEF Sealed
    <3>3. QED
      BY <1>3, <3>1, <3>2 DEF Open, Look, Ask, Exclusive, Lost, Reclaim, Reconcile, Restore,
         Discard
  <2>5. sidecar' \in Sealed \cup {NoSidecar, Unsealed}
    BY <1>3 DEF Open, Look, Ask, Exclusive, Lost, Reclaim, Reconcile, Restore, Discard
  <2>6. UNCHANGED <<entry, intent, fresh, acked, crashes>>
    BY <1>3 DEF Open, Look, Ask, Exclusive, Lost, Reclaim, Reconcile, Restore, Discard
  <2>7. QED BY <2>1, <2>2, <2>3, <2>4, <2>5, <2>6
<1>4. ASSUME NEW p \in Procs, Commit(p) PROVE TypeOK'
  <2>1. /\ Mine(p) = entry /\ entry \in Files
    <3>1. pc[p] \notin {"idle"} \cup Waiting \cup Placing
      BY <1>4 DEF Commit, Record, Seal, Apply, Applied, ApplyFails, Retire, Waiting, Placing
    <3>2. QED BY <3>1, Holds DEF IInv
  <2>2. entry # NoFile BY <2>1, MarksAssumption
  <2>3. acked[entry] \in Nat /\ acked[entry] <= MaxVersion /\ MaxVersion \in Nat
    BY <2>1, BoundsAssumption DEF Versions
  <2>4. bytes' \in [Files -> Versions \cup {Torn}]
    <3>1. pc[p] = "applying" => acked[entry] + 1 \in Versions
      BY <2>2, <2>3 DEF IInv, JournalOK, Versions, Committing
    <3>2. QED
      BY <1>4, <2>1, <3>1 DEF Commit, Record, Seal, Apply, Applied, ApplyFails, Retire
  <2>5. sidecar' \in Sealed \cup {NoSidecar, Unsealed}
    <3>1. pc[p] = "record" => bytes[entry] \in Versions
      <4>1. pc[p] = "record" => bytes[entry] = acked[entry]
        BY <2>2, MarksAssumption DEF IInv, JournalOK
      <4>2. QED BY <2>1, <4>1
    <3>2. ASSUME bytes[entry] \in Versions
          PROVE  [file |-> entry, undo |-> bytes[entry]] \in Sealed
      BY <2>1, <3>2 DEF Sealed
    <3>3. QED
      BY <1>4, <2>1, <3>1, <3>2 DEF Commit, Record, Seal, Apply, Applied, ApplyFails, Retire
  <2>6. acked' \in [Files -> Versions]
    <3>1. pc[p] = "retire" => bytes[entry] \in Versions
      <4>1. pc[p] = "retire" => bytes[entry] = acked[entry] + 1 /\ acked[entry] < MaxVersion
        BY <2>2 DEF IInv, JournalOK, Committing
      <4>2. QED BY <4>1, <2>3 DEF Versions
    <3>2. QED
      BY <1>4, <2>1, <3>1 DEF Commit, Record, Seal, Apply, Applied, ApplyFails, Retire
  <2>7. pc' \in [Procs -> Steps]
    <3>1. \E s \in Steps : Goto(p, s)
      BY <1>4 DEF Commit, Record, Seal, Apply, Applied, ApplyFails, Retire, Steps, Committing,
         Restoring
    <3>2. QED BY <3>1 DEF Goto
  <2>8. UNCHANGED <<entry, held, intent, fresh, fate, crashes>>
    BY <1>4 DEF Commit, Record, Seal, Apply, Applied, ApplyFails, Retire
  <2>9. QED BY <2>4, <2>5, <2>6, <2>7, <2>8
<1>5. ASSUME NEW p \in Procs, Place(p) PROVE TypeOK'
  <2>1. pc[p] \in {"building", "rename"} => fresh[p] \in Files
    BY DEF IInv, PlacedOK
  <2>2. 0 \in Versions BY BoundsAssumption DEF Versions
  <2>3. pc' \in [Procs -> Steps]
    <3>1. \E s \in Steps : Goto(p, s)
      BY <1>5 DEF Place, PlaceChecked, PlaceBuild, PlaceBuilt, PlaceRename, Steps, Placing
    <3>2. QED BY <3>1 DEF Goto
  <2>4. fresh' \in [Procs -> Files \cup {NoFile}]
    BY <1>5 DEF Place, PlaceChecked, PlaceBuild, PlaceBuilt, PlaceRename
  <2>5. bytes' \in [Files -> Versions \cup {Torn}] /\ acked' \in [Files -> Versions]
    BY <1>5, <2>1, <2>2 DEF Place, PlaceChecked, PlaceBuild, PlaceBuilt, PlaceRename
  <2>6. entry' \in Files \cup {NoFile}
    BY <1>5, <2>1 DEF Place, PlaceChecked, PlaceBuild, PlaceBuilt, PlaceRename
  <2>7. UNCHANGED <<sidecar, held, intent, fate, crashes>>
    BY <1>5 DEF Place, PlaceChecked, PlaceBuild, PlaceBuilt, PlaceRename
  <2>8. QED BY <2>3, <2>4, <2>5, <2>6, <2>7
<1>6. ASSUME NEW p \in Procs, Close(p) PROVE TypeOK'
  BY <1>6 DEF Close, Goto, Drop, Steps
<1>7. ASSUME NEW p \in Procs, Crash(p) PROVE TypeOK'
  <2>1. fate' \in [Procs -> {"none", "in", "refused", "absent", "again"}]
    BY <1>7 DEF Crash, Fate
  <2>2. /\ pc' = [pc EXCEPT ![p] = "idle"] /\ held' = [held EXCEPT ![p] = NoClaim]
        /\ fresh' = [fresh EXCEPT ![p] = NoFile] /\ crashes' = crashes + 1
        /\ UNCHANGED <<entry, bytes, sidecar, intent, acked>>
    BY <1>7 DEF Crash, Goto, Drop
  <2>3. pc' \in [Procs -> Steps] BY <2>2 DEF Steps
  <2>4. held' \in [Procs -> Claims \cup {NoClaim}] /\ fresh' \in [Procs -> Files \cup {NoFile}]
    BY <2>2
  <2>5. QED BY <2>1, <2>2, <2>3, <2>4
<1>8. QED BY <1>1, <1>2, <1>3, <1>4, <1>5, <1>6, <1>7 DEF Next

-----------------------------------------------------------------------------
(* The invariant, part by part *)

LEMMA ClaimsFrame ==
  ASSUME TypeOK, ClaimsOK, NEW p \in Procs,
         \A q \in Procs \ {p} : pc'[q] = pc[q] /\ held'[q] = held[q] /\ intent'[q] = intent[q],
         entry' = entry \/ \A q \in Procs : held'[q] = NoClaim,
         held'[p] = NoClaim <=> pc'[p] \in {"idle"} \cup Waiting \cup Placing,
         pc'[p] \in Waiting => intent'[p] = "read",
         pc'[p] \in {"look", "open"} => held'[p].mode = intent'[p],
         pc'[p] \in Restoring \cup Committing => held'[p].mode = "write",
         pc'[p] \in Committing => intent'[p] = "write",
         \/ held'[p] = NoClaim \/ held'[p] = held[p]
         \/ \E m \in Modes : held'[p] = [file |-> entry, mode |-> m] /\ CanClaim(m)
                             /\ entry' = entry /\ held[p] = NoClaim
  PROVE  ClaimsOK'
<1>1. ASSUME NEW q \in Procs
      PROVE  /\ held'[q] = NoClaim <=> pc'[q] \in {"idle"} \cup Waiting \cup Placing
             /\ pc'[q] \in Waiting => intent'[q] = "read"
             /\ pc'[q] \in {"look", "open"} => held'[q].mode = intent'[q]
             /\ pc'[q] \in Restoring \cup Committing => held'[q].mode = "write"
             /\ pc'[q] \in Committing => intent'[q] = "write"
  <2>1. CASE q = p BY <2>1
  <2>2. CASE q # p
    <3>1. pc'[q] = pc[q] /\ held'[q] = held[q] /\ intent'[q] = intent[q] BY <2>2
    <3>2. QED BY <3>1 DEF ClaimsOK
  <2>3. QED BY <2>1, <2>2
<1>2. ASSUME NEW q \in Procs, held'[q] # NoClaim PROVE held'[q].file = entry'
  <2>1. entry' = entry BY <1>2
  <2>2. CASE held'[q] = held[q] BY <1>2, <2>1, <2>2 DEF ClaimsOK, Mine
  <2>3. CASE held'[q] # held[q]
    <3>1. q = p BY <2>3
    <3>2. PICK m \in Modes : held'[p] = [file |-> entry, mode |-> m] BY <1>2, <2>3, <3>1
    <3>3. QED BY <2>1, <3>1, <3>2
  <2>4. QED BY <2>2, <2>3
<1>3. ASSUME NEW q \in Procs, NEW r \in Procs, held'[q] # NoClaim, held'[r] # NoClaim,
             held'[q].mode = "write"
      PROVE  q = r
  <2>1. CASE held'[p] = NoClaim \/ held'[p] = held[p] BY <1>3, <2>1 DEF ClaimsOK
  <2>2. CASE held'[p] # NoClaim /\ held'[p] # held[p]
    <3>1. PICK m \in Modes : held'[p] = [file |-> entry, mode |-> m] /\ CanClaim(m)
      BY <2>2
    <3>2. \A x \in Procs \ {p} : held'[x] # NoClaim => m = "read" /\ held'[x].mode = "read"
      BY <3>1 DEF CanClaim, Holders, ClaimsOK, Mine
    <3>3. QED BY <1>3, <3>1, <3>2 DEF ClaimsOK
  <2>3. QED BY <2>1, <2>2
<1>4. QED BY <1>1, <1>2, <1>3 DEF ClaimsOK, Mine

LEMMA ClaimsStep ==
  ASSUME TypeOK, IInv, [Next]_vars, OnePlacer
  PROVE  ClaimsOK'
<1> USE DEF IInv
<1>1. CASE UNCHANGED vars BY <1>1 DEF vars, host, ClaimsOK, Mine
<1>2. ASSUME NEW p \in Procs, NEW i \in Modes, Claim(p, i) PROVE ClaimsOK'
  <2>1. /\ UNCHANGED entry /\ intent'[p] = i /\ held[p] = NoClaim
        /\ \A q \in Procs \ {p} : intent'[q] = intent[q] /\ pc'[q] = pc[q] /\ held'[q] = held[q]
    BY <1>2 DEF Claim, host, Goto, Take, Drop, TypeOK, ClaimsOK
  <2>2. CASE CanClaim(i)
    <3>1. pc'[p] = "look" /\ held'[p] = [file |-> entry, mode |-> i]
      BY <1>2, <2>2 DEF Claim, Goto, Take, TypeOK
    <3>2. held'[p] # NoClaim BY <2>2, <3>1, NewClaim DEF CanClaim, TypeOK
    <3>3. QED
      BY <2>1, <2>2, <3>1, <3>2, ClaimsFrame DEF Waiting, Placing, Restoring, Committing
  <2>3. CASE ~CanClaim(i)
    <3>1. pc'[p] = "idle" /\ held'[p] = NoClaim
      BY <1>2, <2>3 DEF Claim, Goto, Drop, TypeOK
    <3>2. QED BY <2>1, <3>1, ClaimsFrame DEF Waiting, Placing, Restoring, Committing
  <2>4. QED BY <2>2, <2>3
<1>3. ASSUME NEW p \in Procs, Open(p) PROVE ClaimsOK'
  <2>1. /\ UNCHANGED <<entry, intent>> /\ \A q \in Procs \ {p} : pc'[q] = pc[q] /\ held'[q] = held[q]
    BY <1>3 DEF Open, Look, Ask, Exclusive, Lost, Reclaim, Reconcile, Restore, Discard,
       Reconciled, Refuse, Expose, Goto, Take, Drop, host, TypeOK
  <2>2. intent[p] \in Modes BY DEF TypeOK
  <2>3. CASE Look(p)
    <3>1. \/ pc'[p] = "open" /\ held'[p] = held[p]
          \/ pc'[p] = "reconcile" /\ held'[p] = held[p] /\ intent[p] = "write"
          \/ pc'[p] = "ask" /\ held'[p] = NoClaim /\ intent[p] # "write"
      BY <2>3 DEF Look, Expose, Goto, Drop, TypeOK
    <3>2. held[p] # NoClaim /\ held[p].mode = intent[p]
      BY <2>3 DEF Look, ClaimsOK, Waiting, Placing
    <3>3. QED
      BY <2>1, <2>2, <3>1, <3>2, ClaimsFrame DEF Waiting, Placing, Restoring, Committing, Modes
  <2>4. CASE Ask(p)
    <3>1. held'[p] = held[p] /\ held[p] = NoClaim /\ pc'[p] \in {"reclaim", "exclusive"} /\ intent[p] = "read"
      BY <2>4 DEF Ask, Goto, TypeOK, ClaimsOK, Waiting
    <3>2. QED BY <2>1, <3>1, ClaimsFrame DEF Waiting, Placing, Restoring, Committing
  <2>5. CASE Exclusive(p)
    <3>1. held[p] = NoClaim /\ intent[p] = "read" BY <2>5 DEF Exclusive, ClaimsOK, Waiting
    <3>2. \/ /\ held'[p] = [file |-> entry, mode |-> "write"] /\ CanClaim("write")
             /\ pc'[p] = "reconcile"
          \/ held'[p] = held[p] /\ pc'[p] = "lost"
      BY <2>5 DEF Exclusive, Take, Goto, TypeOK
    <3>3. CanClaim("write") => [file |-> entry, mode |-> "write"] # NoClaim
      BY NewClaim DEF CanClaim, TypeOK, Modes
    <3>4. QED
      BY <2>1, <3>1, <3>2, <3>3, ClaimsFrame DEF Waiting, Placing, Restoring, Committing, Modes
  <2>6. CASE Lost(p)
    <3>1. held[p] = NoClaim /\ intent[p] = "read" BY <2>6 DEF Lost, ClaimsOK, Waiting
    <3>2. pc'[p] \in {"reclaim", "idle"} /\ held'[p] = NoClaim
      BY <2>6, <3>1 DEF Lost, Refuse, Goto, Drop, TypeOK
    <3>3. QED BY <2>1, <3>1, <3>2, ClaimsFrame DEF Waiting, Placing, Restoring, Committing
  <2>7. CASE Reclaim(p)
    <3>1. held[p] = NoClaim /\ intent[p] = "read" BY <2>7 DEF Reclaim, ClaimsOK, Waiting
    <3>2. \/ /\ held'[p] = [file |-> entry, mode |-> "read"] /\ CanClaim("read")
             /\ pc'[p] = "open"
          \/ held'[p] = NoClaim /\ pc'[p] = "idle"
      BY <2>7 DEF Reclaim, Refuse, Expose, Take, Drop, Goto, TypeOK
    <3>3. CanClaim("read") => [file |-> entry, mode |-> "read"] # NoClaim
      BY NewClaim DEF CanClaim, TypeOK, Modes
    <3>4. QED
      BY <2>1, <3>1, <3>2, <3>3, ClaimsFrame DEF Waiting, Placing, Restoring, Committing, Modes
  <2>8. CASE Reconcile(p) \/ Restore(p) \/ Discard(p)
    <3>1. held[p] # NoClaim /\ held[p].mode = "write"
      BY <2>8 DEF Reconcile, Restore, Discard, ClaimsOK, Restoring, Waiting, Placing
    <3>2. \/ pc'[p] = "open" /\ held'[p] = held[p] /\ intent[p] = "write"
          \/ pc'[p] \in {"restore", "discard"} /\ held'[p] = held[p]
          \/ pc'[p] = "reclaim" /\ held'[p] = NoClaim /\ intent[p] # "write"
      BY <2>8 DEF Reconcile, Restore, Discard, Reconciled, Expose, Goto, Drop, TypeOK
    <3>3. QED
      BY <2>1, <2>2, <3>1, <3>2, ClaimsFrame DEF Waiting, Placing, Restoring, Committing, Modes
  <2>9. QED BY <1>3, <2>3, <2>4, <2>5, <2>6, <2>7, <2>8 DEF Open
<1>4. ASSUME NEW p \in Procs, Commit(p) PROVE ClaimsOK'
  <2>1. /\ UNCHANGED <<entry, intent, held>> /\ \A q \in Procs \ {p} : pc'[q] = pc[q]
        /\ pc'[p] \in {"record", "apply", "applying", "retire", "reconcile", "open"}
    BY <1>4 DEF Commit, Record, Seal, Apply, Applied, ApplyFails, Retire, Goto, host, TypeOK
  <2>2. held[p] # NoClaim /\ held[p].mode = "write" /\ intent[p] = "write"
    BY <1>4 DEF Commit, Record, Seal, Apply, Applied, ApplyFails, Retire, ClaimsOK, Waiting,
       Placing, Committing
  <2>3. QED BY <2>1, <2>2, ClaimsFrame DEF Waiting, Placing, Restoring, Committing
<1>5. ASSUME NEW p \in Procs, Place(p) PROVE ClaimsOK'
  <2>1. /\ UNCHANGED <<intent, held>> /\ \A q \in Procs \ {p} : pc'[q] = pc[q]
        /\ pc'[p] \in {"idle"} \cup Placing
    BY <1>5 DEF Place, PlaceChecked, PlaceBuild, PlaceBuilt, PlaceRename, Goto, host, TypeOK,
       Placing
  <2>2. held[p] = NoClaim
    BY <1>5 DEF Place, PlaceChecked, PlaceBuild, PlaceBuilt, PlaceRename, ClaimsOK, Placing
  <2>3. entry' = entry \/ (entry = NoFile /\ pc[p] \in Placing)
    BY <1>5 DEF Place, PlaceChecked, PlaceBuild, PlaceBuilt, PlaceRename, host, PlacedOK, Placing
  <2>4. entry = NoFile => \A q \in Procs : held[q] = NoClaim
    BY DEF PlacedOK, ClaimsOK
  <2>5. QED
    BY <2>1, <2>2, <2>3, <2>4, ClaimsFrame DEF Waiting, Placing, Restoring, Committing
<1>6. ASSUME NEW p \in Procs, Close(p) \/ Crash(p) PROVE ClaimsOK'
  <2>1. /\ UNCHANGED <<entry, intent>> /\ pc'[p] = "idle" /\ held'[p] = NoClaim
        /\ \A q \in Procs \ {p} : pc'[q] = pc[q] /\ held'[q] = held[q]
    BY <1>6 DEF Close, Crash, Goto, Drop, host, TypeOK
  <2>2. QED BY <2>1, ClaimsFrame DEF Waiting, Placing, Restoring, Committing
<1>7. QED BY <1>1, <1>2, <1>3, <1>4, <1>5, <1>6 DEF Next

LEMMA PlacedStep ==
  ASSUME TypeOK, IInv, [Next]_vars, OnePlacer
  PROVE  PlacedOK'
<1> USE DEF IInv
<1>1. CASE UNCHANGED vars BY <1>1 DEF vars, host, history, PlacedOK
\* A step that changes no file and makes no artifact.
<1>2. ASSUME NEW p \in Procs, NEW s,
             Goto(p, s), s \notin Placing, entry # NoFile \/ s = "idle",
             UNCHANGED <<host, acked>>, fresh'[p] = NoFile,
             UNCHANGED fresh \/ fresh' = [fresh EXCEPT ![p] = NoFile]
      PROVE  PlacedOK'
  <2>1. pc'[p] = s /\ \A q \in Procs \ {p} : pc'[q] = pc[q] /\ fresh'[q] = fresh[q]
    BY <1>2, Others DEF TypeOK
  <2>2. UNCHANGED <<entry, bytes, sidecar, acked>> BY <1>2 DEF host
  <2>3. QED BY <1>2, <2>1, <2>2 DEF PlacedOK, Placing
<1>3. ASSUME NEW p \in Procs, NEW i \in Modes, Claim(p, i) PROVE PlacedOK'
  <2>1. UNCHANGED <<host, fresh, acked>> /\ pc[p] = "idle" /\ fresh[p] = NoFile
    BY <1>3 DEF Claim, PlacedOK
  <2>2. CanClaim(i) => entry # NoFile BY DEF CanClaim
  <2>3. (Goto(p, "look") /\ CanClaim(i)) \/ Goto(p, "idle") BY <1>3 DEF Claim
  <2>4. QED BY <1>2, <2>1, <2>2, <2>3 DEF Placing
<1>4. ASSUME NEW p \in Procs, Open(p) \/ Commit(p) PROVE PlacedOK'
  <2>1. pc[p] \notin {"idle"} \cup Placing
    BY <1>4 DEF Open, Look, Ask, Exclusive, Lost, Reclaim, Reconcile, Restore, Discard,
       Commit, Record, Seal, Apply, Applied, ApplyFails, Retire, Placing
  <2>2. entry # NoFile BY <2>1 DEF PlacedOK
  <2>3. \E s : Goto(p, s) /\ s \notin Placing
    BY <1>4 DEF Open, Look, Ask, Exclusive, Lost, Reclaim, Reconcile, Restore, Discard,
       Reconciled, Refuse, Expose, Commit, Record, Seal, Apply, Applied, ApplyFails, Retire,
       Placing
  <2>4. /\ UNCHANGED <<entry, fresh>>
        /\ bytes' = bytes \/ \E f, x : bytes' = [bytes EXCEPT ![f] = x]
    BY <1>4 DEF Open, Look, Ask, Exclusive, Lost, Reclaim, Reconcile, Restore, Discard,
       Commit, Record, Seal, Apply, Applied, ApplyFails, Retire, host
  <2>5. PICK s : Goto(p, s) /\ s \notin Placing BY <2>3
  <2>6. pc'[p] = s /\ \A q \in Procs \ {p} : pc'[q] = pc[q] BY <2>5, Others
  <2>7. \A q \in Procs : pc'[q] \notin Placing BY <2>2, <2>5, <2>6 DEF PlacedOK
  <2>8. \A q \in Procs : fresh'[q] = NoFile BY <2>2, <2>4 DEF PlacedOK, Placing
  <2>9. QED BY <2>2, <2>4, <2>7, <2>8 DEF PlacedOK, Placing
<1>5. ASSUME NEW p \in Procs, Close(p) PROVE PlacedOK'
  <2>1. fresh[p] = NoFile BY <1>5 DEF Close, PlacedOK
  <2>2. QED BY <1>2, <1>5, <2>1 DEF Close, history, Placing
<1>6. ASSUME NEW p \in Procs, Crash(p) PROVE PlacedOK'
  <2>1. fresh' = [fresh EXCEPT ![p] = NoFile] /\ fresh'[p] = NoFile
    BY <1>6 DEF Crash, TypeOK
  <2>2. QED BY <1>2, <1>6, <2>1 DEF Crash, Placing
<1>7. ASSUME NEW p \in Procs, Place(p) PROVE PlacedOK'
  <2>1. p \in Placers /\ entry = NoFile
    BY <1>7 DEF Place, PlaceChecked, PlaceBuild, PlaceBuilt, PlaceRename, PlacedOK, Placing
  <2>2. /\ sidecar = NoSidecar /\ sidecar' = sidecar
        /\ \A q \in Procs \ {p} : pc[q] = "idle" /\ fresh[q] = NoFile
    <3>1. \A q \in Procs \ {p} : pc[q] \notin Placing
      BY <2>1 DEF PlacedOK, OnePlacer
    <3>2. QED
      BY <1>7, <2>1, <3>1 DEF Place, PlaceChecked, PlaceBuild, PlaceBuilt, PlaceRename,
         PlacedOK, host, Placing
  <2>3. \A q \in Procs \ {p} : pc'[q] = "idle" /\ fresh'[q] = NoFile
    BY <1>7, <2>2 DEF Place, PlaceChecked, PlaceBuild, PlaceBuilt, PlaceRename, Goto, TypeOK
  <2>4. CASE PlaceChecked(p)
    <3>1. pc'[p] = "build" /\ fresh'[p] = NoFile /\ entry' = NoFile
      BY <2>1, <2>4 DEF PlaceChecked, Goto, TypeOK, PlacedOK, host
    <3>2. QED BY <2>1, <2>2, <2>3, <3>1 DEF PlacedOK, Placing
  <2>5. CASE \E f \in Files : PlaceBuild(p, f)
    <3>1. pc'[p] = "building" /\ fresh'[p] # NoFile /\ entry' = NoFile
      BY <2>1, <2>5, MarksAssumption DEF PlaceBuild, Goto, TypeOK
    <3>2. QED BY <2>1, <2>2, <2>3, <3>1 DEF PlacedOK, Placing
  <2>6. CASE PlaceBuilt(p)
    <3>1. fresh[p] \in Files BY <2>6 DEF PlaceBuilt, PlacedOK, TypeOK
    <3>2. /\ bytes'[fresh[p]] = 0 /\ acked'[fresh[p]] = 0 /\ entry' = NoFile
          /\ \/ pc'[p] = "rename" /\ fresh'[p] = fresh[p]
             \/ pc'[p] = "idle" /\ fresh'[p] = NoFile
      BY <2>1, <2>6, <3>1 DEF PlaceBuilt, Goto, TypeOK
    <3>3. QED BY <2>1, <2>2, <2>3, <3>1, <3>2, MarksAssumption DEF PlacedOK, Placing
  <2>7. CASE PlaceRename(p)
    <3>1. pc'[p] = "idle" /\ fresh'[p] = NoFile
      BY <2>7 DEF PlaceRename, Goto, TypeOK
    <3>2. QED BY <2>1, <2>2, <2>3, <3>1 DEF PlacedOK, Placing
  <2>8. QED BY <1>7, <2>4, <2>5, <2>6, <2>7 DEF Place
<1>8. QED BY <1>1, <1>3, <1>4, <1>5, <1>6, <1>7 DEF Next

\* What the journal's invariant asks of the place one process is at.
LocalOK(p) ==
  /\ pc[p] = "open" /\ held[p].mode = "write" => sidecar = NoSidecar
  /\ pc[p] = "record" => sidecar = Unsealed
  /\ pc[p] \in {"apply", "applying", "retire", "restore"} => sidecar \in Sealed
  /\ pc[p] \in {"apply", "discard"} => bytes[entry] = acked[entry]
  /\ pc[p] = "retire" => bytes[entry] = acked[entry] + 1
  /\ pc[p] \in Committing => acked[entry] < MaxVersion

\* It asks nothing of a process that holds no claim for writing.
LEMMA LocalElsewhere ==
  ASSUME ClaimsOK, NEW p \in Procs, held[p] = NoClaim \/ held[p].mode # "write"
  PROVE  LocalOK(p)
<1>1. pc[p] \notin Restoring \cup Committing BY DEF ClaimsOK, Restoring, Committing, Waiting, Placing
<1>2. pc[p] = "open" => held[p] # NoClaim BY DEF ClaimsOK, Waiting, Placing
<1>3. QED BY <1>1, <1>2 DEF LocalOK, Restoring, Committing

\* Only one process has to be looked at: the one that writes.
LEMMA JournalAlone ==
  ASSUME ClaimsOK', NEW p \in Procs,
         held'[p] # NoClaim /\ held'[p].mode = "write",
         sidecar' \in Sealed => sidecar' = [file |-> entry', undo |-> acked'[entry']],
         sidecar' \notin Sealed => bytes'[entry'] = acked'[entry'],
         LocalOK(p)'
  PROVE  JournalOK'
<1>1. ASSUME NEW q \in Procs PROVE LocalOK(q)'
  <2>1. CASE q = p BY <2>1
  <2>2. CASE q # p
    <3>1. held'[q] = NoClaim BY <2>2 DEF ClaimsOK
    <3>2. pc'[q] \notin {"open"} \cup Restoring \cup Committing
      BY <3>1 DEF ClaimsOK, Restoring, Committing, Waiting, Placing
    <3>3. QED BY <3>2 DEF LocalOK, Restoring, Committing
  <2>3. QED BY <2>1, <2>2
<1>2. QED BY <1>1 DEF JournalOK, LocalOK

LEMMA JournalStep ==
  ASSUME TypeOK, IInv, [Next]_vars, OnePlacer, ClaimsOK'
  PROVE  JournalOK'
<1> USE DEF IInv
<1>1. CASE UNCHANGED vars BY <1>1 DEF vars, host, history, JournalOK
\* A step that leaves the files alone and takes no claim for writing further.
<1>2. ASSUME NEW p \in Procs, NEW s, Goto(p, s), UNCHANGED <<host, acked>>,
             \A q \in Procs \ {p} : held'[q] = held[q],
             \/ s \notin {"open"} \cup Restoring \cup Committing
             \/ s = "open" /\ (held'[p].mode = "write" => sidecar = NoSidecar)
             \/ s = "reconcile"
      PROVE  JournalOK'
  <2>1. pc'[p] = s /\ \A q \in Procs \ {p} : pc'[q] = pc[q] BY <1>2, Others
  <2>2. UNCHANGED <<entry, bytes, sidecar, acked>> BY <1>2 DEF host
  <2>3. QED BY <1>2, <2>1, <2>2 DEF JournalOK, Restoring, Committing
<1>3. ASSUME NEW p \in Procs, NEW i \in Modes, Claim(p, i) PROVE JournalOK'
  <2>1. UNCHANGED <<host, acked>> /\ \A q \in Procs \ {p} : held'[q] = held[q]
    BY <1>3, OthersClaims DEF Claim
  <2>2. Goto(p, "look") \/ Goto(p, "idle") BY <1>3 DEF Claim
  <2>3. QED BY <1>2, <2>1, <2>2 DEF Restoring, Committing
<1>4. ASSUME NEW p \in Procs, Look(p) \/ Ask(p) \/ Exclusive(p) \/ Lost(p) \/ Reclaim(p)
      PROVE  JournalOK'
  <2>1. UNCHANGED <<host, acked>> /\ \A q \in Procs \ {p} : held'[q] = held[q]
    BY <1>4, OthersClaims DEF Look, Ask, Exclusive, Lost, Reclaim, Refuse, history
  <2>2. CASE Look(p)
    BY <1>2, <2>1, <2>2 DEF Look, Expose, Restoring, Committing
  <2>3. CASE Ask(p) \/ Exclusive(p) \/ Lost(p)
    BY <1>2, <2>1, <2>3 DEF Ask, Exclusive, Lost, Refuse, Restoring, Committing
  <2>4. CASE Reclaim(p)
    <3>1. Goto(p, "idle") \/ (Goto(p, "open") /\ held'[p] = [file |-> entry, mode |-> "read"])
      BY <2>4, OthersClaims DEF Reclaim, Refuse, Expose
    <3>2. QED BY <1>2, <2>1, <3>1 DEF Restoring, Committing
  <2>5. QED BY <1>4, <2>2, <2>3, <2>4
<1>5. ASSUME NEW p \in Procs, Reconcile(p) \/ Restore(p) \/ Discard(p) PROVE JournalOK'
  <2>1. /\ held[p] # NoClaim /\ held[p].mode = "write" /\ Mine(p) = entry /\ entry \in Files
        /\ entry # NoFile
    <3>1. pc[p] \in Restoring /\ pc[p] \notin {"idle"} \cup Waiting \cup Placing
      BY <1>5 DEF Reconcile, Restore, Discard, Restoring, Waiting, Placing
    <3>2. QED BY <3>1, Holds, MarksAssumption DEF ClaimsOK
  <2>2. LocalOK(p) BY <2>1 DEF JournalOK, LocalOK
  <2>3. UNCHANGED <<entry, acked>> BY <1>5 DEF Reconcile, Restore, Discard, history
  <2>4. CASE Reconciled(p) /\ sidecar' = NoSidecar /\ UNCHANGED bytes /\ bytes[entry] = acked[entry]
    <3>1. /\ \A q \in Procs \ {p} : pc'[q] = pc[q] /\ held'[q] = held[q]
          /\ pc'[p] \in {"open", "reclaim"}
      BY <2>4, OthersClaims, Others DEF Reconciled, Expose
    <3>2. \A q \in Procs \ {p} : pc'[q] \in {"idle"} \cup Waiting \cup Placing
      BY <2>1, <3>1, WritesAlone
    <3>3. QED
      BY <2>1, <2>3, <2>4, <3>1, <3>2, MarksAssumption DEF JournalOK, Waiting, Placing, Committing
  <2>5. CASE Reconcile(p) /\ sidecar = NoSidecar
    BY <2>1, <2>4, <2>5, MarksAssumption DEF Reconcile, JournalOK
  <2>6. CASE Reconcile(p) /\ sidecar = Unsealed
    <3>1. pc'[p] = "discard" /\ held' = held /\ UNCHANGED <<bytes, sidecar>>
      BY <2>6, MarksAssumption DEF Reconcile, Goto, TypeOK
    <3>2. bytes[entry] = acked[entry] BY <2>1, <2>6, MarksAssumption DEF JournalOK
    <3>3. QED
      BY <2>1, <2>3, <2>6, <3>1, <3>2, JournalAlone, MarksAssumption DEF LocalOK, Committing
  <2>7. CASE Reconcile(p) /\ sidecar \in Sealed
    <3>1. pc'[p] = "restore" /\ held' = held /\ UNCHANGED sidecar
      BY <2>7, MarksAssumption DEF Reconcile, Goto, TypeOK
    <3>2. sidecar = [file |-> entry, undo |-> acked[entry]]
      BY <2>1, <2>7 DEF JournalOK
    <3>3. QED BY <2>1, <2>3, <2>7, <3>1, <3>2, JournalAlone DEF LocalOK, Committing
  <2>8. CASE Restore(p)
    <3>1. sidecar = [file |-> entry, undo |-> acked[entry]] /\ sidecar \in Sealed
      BY <2>1, <2>2, <2>8 DEF JournalOK, LocalOK, Restore
    <3>2. /\ bytes'[entry] = acked[entry] /\ pc'[p] = "discard" /\ held' = held
          /\ UNCHANGED sidecar
      BY <2>1, <2>8, <3>1 DEF Restore, Goto, TypeOK
    <3>3. QED BY <2>1, <2>3, <3>1, <3>2, JournalAlone DEF LocalOK, Committing
  <2>9. CASE Discard(p)
    BY <2>2, <2>4, <2>9 DEF Discard, LocalOK
  <2>10. QED BY <1>5, <2>5, <2>6, <2>7, <2>8, <2>9 DEF Reconcile, TypeOK
<1>6. ASSUME NEW p \in Procs, Commit(p) PROVE JournalOK'
  <2>1. /\ held[p] # NoClaim /\ held[p].mode = "write" /\ Mine(p) = entry /\ entry \in Files
        /\ entry # NoFile /\ held' = held /\ entry' = entry
    <3>1. pc[p] \notin {"idle"} \cup Waiting \cup Placing
      BY <1>6 DEF Commit, Record, Seal, Apply, Applied, ApplyFails, Retire, Waiting, Placing
    <3>2. held[p].mode = "write" /\ held' = held /\ entry' = entry
      BY <1>6 DEF Commit, Record, Seal, Apply, Applied, ApplyFails, Retire, ClaimsOK, Committing, host
    <3>3. QED BY <3>1, <3>2, Holds, MarksAssumption
  <2>2. /\ LocalOK(p)
        /\ sidecar \in Sealed => sidecar = [file |-> entry, undo |-> acked[entry]]
        /\ sidecar \notin Sealed => bytes[entry] = acked[entry]
    BY <2>1 DEF JournalOK, LocalOK
  <2>3. acked[entry] \in Nat /\ MaxVersion \in Nat /\ bytes[entry] \in Versions \cup {Torn}
    BY <2>1, BoundsAssumption DEF TypeOK, Versions
  <2>4. CASE Record(p)
    <3>1. /\ pc'[p] = "record" /\ sidecar' = Unsealed /\ UNCHANGED <<bytes, acked>>
          /\ bytes[entry] \in 0 .. MaxVersion - 1 /\ sidecar = NoSidecar
      BY <2>1, <2>2, <2>4 DEF Record, Goto, TypeOK, history, LocalOK
    <3>2. bytes[entry] = acked[entry] BY <2>2, <3>1, MarksAssumption
    <3>3. QED BY <2>1, <2>3, <3>1, <3>2, JournalAlone, MarksAssumption DEF LocalOK
  <2>5. CASE Seal(p)
    <3>1. /\ pc'[p] = "apply" /\ UNCHANGED <<bytes, acked>> /\ pc[p] = "record"
          /\ sidecar' = [file |-> entry, undo |-> bytes[entry]]
      BY <2>1, <2>5 DEF Seal, Goto, TypeOK, history
    <3>2. bytes[entry] = acked[entry] /\ acked[entry] < MaxVersion
      BY <2>2, <3>1, MarksAssumption DEF LocalOK, Committing
    <3>3. sidecar' \in Sealed BY <2>1, <2>3, <3>1, <3>2 DEF Sealed, Versions
    <3>4. QED BY <2>1, <3>1, <3>2, <3>3, JournalAlone DEF LocalOK
  <2>6. CASE Apply(p)
    <3>1. pc'[p] = "applying" /\ UNCHANGED <<sidecar, acked>> /\ pc[p] = "apply"
      BY <2>6 DEF Apply, Goto, TypeOK, history
    <3>2. QED BY <2>1, <2>2, <3>1, JournalAlone DEF LocalOK, Committing
  <2>7. CASE Applied(p)
    <3>1. /\ pc'[p] = "retire" /\ UNCHANGED <<sidecar, acked>> /\ pc[p] = "applying"
          /\ bytes'[entry] = acked[entry] + 1
      BY <2>1, <2>7 DEF Applied, Goto, TypeOK, history
    <3>2. QED BY <2>1, <2>2, <3>1, JournalAlone DEF LocalOK, Committing
  <2>8. CASE ApplyFails(p)
    BY <1>2, <2>1, <2>8 DEF ApplyFails, history, Restoring, Committing
  <2>9. CASE Retire(p)
    <3>1. /\ pc'[p] = "open" /\ sidecar' = NoSidecar /\ bytes' = bytes
          /\ acked'[entry] = bytes[entry]
      BY <2>1, <2>9 DEF Retire, Goto, TypeOK
    <3>2. QED BY <2>1, <3>1, JournalAlone, MarksAssumption DEF LocalOK, Committing
  <2>10. QED BY <1>6, <2>4, <2>5, <2>6, <2>7, <2>8, <2>9 DEF Commit
<1>7. ASSUME NEW p \in Procs, Place(p) PROVE JournalOK'
  <2>1. entry = NoFile /\ sidecar = NoSidecar /\ sidecar' = NoSidecar
    BY <1>7 DEF Place, PlaceChecked, PlaceBuild, PlaceBuilt, PlaceRename, PlacedOK, Placing, host
  <2>2. CASE PlaceRename(p)
    <3>1. entry' = fresh[p] /\ bytes[fresh[p]] = acked[fresh[p]] /\ UNCHANGED <<bytes, acked>>
      BY <2>2 DEF PlaceRename, PlacedOK, history
    <3>2. \A q \in Procs : pc'[q] = "idle"
      <4>1. \A q \in Procs \ {p} : pc[q] = "idle"
        BY <2>1, <2>2 DEF PlacedOK, OnePlacer, PlaceRename, Placing
      <4>2. QED BY <2>2, <4>1, Others DEF PlaceRename
    <3>3. QED BY <2>1, <3>1, <3>2, MarksAssumption DEF JournalOK, Committing
  <2>3. CASE ~PlaceRename(p)
    <3>1. entry' = NoFile
      BY <1>7, <2>1, <2>3 DEF Place, PlaceChecked, PlaceBuild, PlaceBuilt, host
    <3>2. QED BY <3>1 DEF JournalOK
  <2>4. QED BY <2>2, <2>3
<1>8. ASSUME NEW p \in Procs, Close(p) \/ Crash(p) PROVE JournalOK'
  <2>1. UNCHANGED <<host, acked>> /\ Goto(p, "idle") /\ \A q \in Procs \ {p} : held'[q] = held[q]
    BY <1>8, OthersClaims DEF Close, Crash, history
  <2>2. QED BY <1>2, <2>1 DEF Restoring, Committing
<1>9. QED BY <1>1, <1>3, <1>4, <1>5, <1>6, <1>7, <1>8 DEF Next, Open

LEMMA LeftoverStep ==
  ASSUME TypeOK, IInv, [Next]_vars
  PROVE  LeftoverOK'
<1> USE DEF IInv
<1> DEFINE Busy(q) == pc[q] \in Restoring \cup Committing
<1>1. CASE UNCHANGED vars BY <1>1 DEF vars, host, LeftoverOK
\* A step that neither leaves a journal nor starts to read over one.
<1>2. ASSUME NEW p \in Procs, NEW s, Goto(p, s), crashes' = crashes, ~Busy(p),
             s \notin {"open", "reclaim"} \/ sidecar = NoSidecar, sidecar' = sidecar
      PROVE  LeftoverOK'
  <2>1. pc'[p] = s /\ \A q \in Procs \ {p} : pc'[q] = pc[q] BY <1>2, Others
  <2>2. QED BY <1>2, <2>1 DEF LeftoverOK
\* A step of whoever is at work on the journal.
<1>3. ASSUME NEW p \in Procs, NEW s, Goto(p, s),
             s \in Restoring \cup Committing \/ sidecar' = NoSidecar
      PROVE  LeftoverOK'
  <2>1. pc'[p] = s BY <1>3, Others
  <2>2. QED BY <1>3, <2>1 DEF LeftoverOK
<1>4. ASSUME NEW p \in Procs, NEW i \in Modes, Claim(p, i) PROVE LeftoverOK'
  BY <1>2, <1>4 DEF Claim, host, Restoring, Committing
<1>5. ASSUME NEW p \in Procs, Open(p) PROVE LeftoverOK'
  <2>1. CASE Look(p) \/ Ask(p) \/ Exclusive(p) \/ Lost(p)
    <3>1. crashes' = crashes /\ sidecar' = sidecar /\ ~Busy(p)
      BY <2>1 DEF Look, Ask, Exclusive, Lost, host, Restoring, Committing
    <3>2. \E s : Goto(p, s) /\ (s \notin {"open", "reclaim"} \/ sidecar = NoSidecar)
      BY <2>1 DEF Look, Ask, Exclusive, Lost, Expose, Refuse
    <3>3. QED BY <1>2, <3>1, <3>2
  <2>2. CASE Reclaim(p)
    <3>1. crashes' = crashes /\ sidecar' = sidecar /\ ~Busy(p)
      BY <2>2 DEF Reclaim, host, Restoring, Committing
    <3>2. CASE CanClaim("read") /\ crashes = 0
      <4>1. \A q \in Procs : ~Busy(q)
        <5>1. SUFFICES ASSUME NEW q \in Procs, Busy(q) PROVE FALSE OBVIOUS
        <5>2. held[q] # NoClaim /\ held[q].mode = "write" /\ Mine(q) = entry
          BY <5>1, Holds DEF ClaimsOK, Restoring, Committing, Waiting, Placing
        <5>3. QED BY <3>2, <5>2 DEF CanClaim, Holders, Mine
      <4>2. sidecar = NoSidecar BY <2>2, <3>2, <4>1 DEF LeftoverOK, Reclaim
      <4>3. QED BY <3>1, <4>2 DEF LeftoverOK
    <3>3. CASE ~CanClaim("read")
      BY <1>2, <2>2, <3>1, <3>3 DEF Reclaim, Refuse
    <3>4. CASE crashes # 0 BY <3>1, <3>4 DEF LeftoverOK
    <3>5. QED BY <3>2, <3>3, <3>4
  <2>3. CASE Reconcile(p)
    BY <1>3, <2>3 DEF Reconcile, Reconciled, Expose, Restoring
  <2>4. CASE Restore(p) \/ Discard(p)
    BY <1>3, <2>4 DEF Restore, Discard, Reconciled, Expose, Restoring
  <2>5. QED BY <1>5, <2>1, <2>2, <2>3, <2>4 DEF Open
<1>6. ASSUME NEW p \in Procs, Commit(p) PROVE LeftoverOK'
  BY <1>3, <1>6 DEF Commit, Record, Seal, Apply, Applied, ApplyFails, Retire, Restoring, Committing
<1>7. ASSUME NEW p \in Procs, Place(p) PROVE LeftoverOK'
  <2>1. sidecar' = NoSidecar
    BY <1>7 DEF Place, PlaceChecked, PlaceBuild, PlaceBuilt, PlaceRename, PlacedOK, Placing, host
  <2>2. QED BY <2>1 DEF LeftoverOK
<1>8. ASSUME NEW p \in Procs, Close(p) PROVE LeftoverOK'
  BY <1>2, <1>8 DEF Close, host, Restoring, Committing
<1>9. ASSUME NEW p \in Procs, Crash(p) PROVE LeftoverOK'
  BY <1>9 DEF Crash, LeftoverOK, TypeOK
<1>10. QED BY <1>1, <1>4, <1>5, <1>6, <1>7, <1>8, <1>9 DEF Next

\* Whoever keeps another from a claim has not been refused.
LEMMA BlockedByHolder ==
  ASSUME TypeOK, IInv, NEW m \in Modes, entry # NoFile, ~CanClaim(m)
  PROVE  \E q \in Procs : held[q] # NoClaim /\ ~Doomed(q)
<1>1. PICK q \in Holders(entry) : TRUE BY DEF CanClaim
<1>2. q \in Procs /\ held[q] # NoClaim BY <1>1 DEF Holders
<1>3. pc[q] \notin {"idle"} \cup Waiting \cup Placing BY <1>2 DEF IInv, ClaimsOK
<1>4. ~Doomed(q) BY <1>2, <1>3 DEF IInv, FatesOK, Doomed, Waiting
<1>5. QED BY <1>2, <1>4

LEMMA FatesStep ==
  ASSUME TypeOK, IInv, [Next]_vars
  PROVE  FatesOK'
<1> USE DEF IInv
<1>1. CASE UNCHANGED vars BY <1>1 DEF vars, host, history, FatesOK, Doomed
\* A step that refuses nobody and records no journal, or that another holds up.
<1>2. ASSUME NEW p \in Procs, NEW s, Goto(p, s),
             \A q \in Procs \ {p} : fate'[q] = fate[q],
             sidecar' # NoSidecar => sidecar # NoSidecar,
             s \notin {"idle"} \cup Placing => fate'[p] # "refused",
             \/ (fate'[p] = "refused" => fate[p] = "refused") /\ s # "lost"
             \/ \E q \in Procs \ {p} : ~Doomed(q)
      PROVE  FatesOK'
  <2>1. pc'[p] = s /\ \A q \in Procs \ {p} : pc'[q] = pc[q] BY <1>2, Others
  <2>2. \A q \in Procs : pc'[q] \notin {"idle"} \cup Placing => fate'[q] # "refused"
    BY <1>2, <2>1 DEF FatesOK
  <2>3. \A q \in Procs \ {p} : ~Doomed(q) => ~Doomed(q)'
    BY <1>2, <2>1 DEF Doomed
  <2>4. \E q \in Procs : ~Doomed(q)'
    <3>1. CASE \E q \in Procs \ {p} : ~Doomed(q) BY <2>3, <3>1
    <3>2. CASE /\ fate'[p] = "refused" => fate[p] = "refused"
               /\ s # "lost"
               /\ \A q \in Procs \ {p} : Doomed(q)
      <4>1. ~Doomed(p) BY <3>2 DEF FatesOK
      <4>2. ~Doomed(p)' BY <1>2, <2>1, <3>2, <4>1 DEF Doomed
      <4>3. QED BY <4>2
    <3>3. QED BY <1>2, <3>1, <3>2
  <2>5. QED BY <2>2, <2>4 DEF FatesOK
<1>3. ASSUME NEW p \in Procs, NEW i \in Modes, Claim(p, i) PROVE FatesOK'
  <2>1. /\ UNCHANGED sidecar /\ \A q \in Procs \ {p} : fate'[q] = fate[q]
        /\ held[p] = NoClaim
    BY <1>3 DEF Claim, host, TypeOK, ClaimsOK
  <2>2. CASE CanClaim(i)
    <3>1. Goto(p, "look") /\ fate'[p] \in {"none", "again"}
      BY <1>3, <2>2 DEF Claim, TypeOK
    <3>2. QED BY <1>2, <2>1, <3>1
  <2>3. CASE ~CanClaim(i) /\ entry # NoFile
    <3>1. \E q \in Procs \ {p} : ~Doomed(q) BY <2>1, <2>3, BlockedByHolder
    <3>2. Goto(p, "idle") BY <1>3, <2>3 DEF Claim
    <3>3. QED BY <1>2, <2>1, <3>1, <3>2
  <2>4. CASE ~CanClaim(i) /\ entry = NoFile
    <3>1. Goto(p, "idle") /\ fate'[p] \in {"again", "absent"}
      BY <1>3, <2>4 DEF Claim, TypeOK
    <3>2. QED BY <1>2, <2>1, <3>1
  <2>5. QED BY <2>2, <2>3, <2>4
<1>4. ASSUME NEW p \in Procs, Open(p) PROVE FatesOK'
  <2>1. pc[p] \notin {"idle"} \cup Placing
    BY <1>4 DEF Open, Look, Ask, Exclusive, Lost, Reclaim, Reconcile, Restore, Discard, Placing
  <2>2. entry # NoFile /\ fate[p] # "refused" BY <2>1 DEF PlacedOK, FatesOK
  <2>3. /\ \A q \in Procs \ {p} : fate'[q] = fate[q]
        /\ sidecar' # NoSidecar => sidecar # NoSidecar
    BY <1>4, OthersFates DEF Open, Look, Ask, Exclusive, Lost, Reclaim, Reconcile, Restore,
       Discard, Reconciled, Refuse, Expose, host, history
  <2>4. ASSUME NEW s, Goto(p, s), s # "lost", UNCHANGED fate \/ Fate(p, "in") PROVE FatesOK'
    <3>1. fate'[p] # "refused" BY <2>2, <2>4, OthersFates
    <3>2. QED BY <1>2, <2>2, <2>3, <2>4, <3>1
  <2>5. CASE Look(p) \/ Ask(p) \/ Reconcile(p) \/ Restore(p) \/ Discard(p)
    BY <2>4, <2>5 DEF Look, Ask, Reconcile, Restore, Discard, Reconciled, Expose, history
  <2>6. CASE Exclusive(p)
    <3>1. held[p] = NoClaim /\ UNCHANGED fate
      BY <2>6 DEF Exclusive, ClaimsOK, Waiting, history
    <3>2. CASE CanClaim("write") BY <2>4, <2>6, <3>1, <3>2 DEF Exclusive
    <3>3. CASE ~CanClaim("write")
      <4>1. \E q \in Procs \ {p} : ~Doomed(q)
        BY <2>2, <3>1, <3>3, BlockedByHolder DEF Modes
      <4>2. Goto(p, "lost") BY <2>6, <3>3 DEF Exclusive
      <4>3. QED BY <1>2, <2>2, <2>3, <3>1, <4>1, <4>2
    <3>4. QED BY <3>2, <3>3
  <2>7. CASE Lost(p)
    <3>1. CASE sidecar = NoSidecar BY <2>4, <2>7, <3>1 DEF Lost
    <3>2. CASE sidecar # NoSidecar
      <4>1. Goto(p, "idle") BY <2>7, <3>2 DEF Lost, Refuse
      <4>2. Doomed(p) BY <2>7, <3>2 DEF Lost, Doomed
      <4>3. \E q \in Procs \ {p} : ~Doomed(q) BY <4>2 DEF FatesOK
      <4>4. QED BY <1>2, <2>3, <4>1, <4>3
    <3>3. QED BY <3>1, <3>2
  <2>8. CASE Reclaim(p)
    <3>1. CASE CanClaim("read") BY <2>4, <2>8, <3>1 DEF Reclaim, Expose
    <3>2. CASE ~CanClaim("read")
      <4>1. Goto(p, "idle") /\ held[p] = NoClaim
        BY <2>8, <3>2 DEF Reclaim, Refuse, ClaimsOK, Waiting
      <4>2. \E q \in Procs \ {p} : ~Doomed(q)
        BY <2>2, <3>2, <4>1, BlockedByHolder DEF Modes
      <4>3. QED BY <1>2, <2>3, <4>1, <4>2
    <3>3. QED BY <3>1, <3>2
  <2>9. QED BY <1>4, <2>5, <2>6, <2>7, <2>8 DEF Open
<1>5. ASSUME NEW p \in Procs, Commit(p) PROVE FatesOK'
  <2>1. /\ pc[p] \notin {"idle"} \cup Placing \cup Waiting /\ UNCHANGED fate
    BY <1>5 DEF Commit, Record, Seal, Apply, Applied, ApplyFails, Retire, Placing, Waiting, history
  <2>2. PICK s : Goto(p, s) /\ s \notin {"idle", "lost"} \cup Placing
    BY <1>5 DEF Commit, Record, Seal, Apply, Applied, ApplyFails, Retire, Placing
  <2>3. fate[p] # "refused" BY <2>1 DEF FatesOK
  <2>4. /\ pc'[p] = s BY <2>2, Others
  <2>5. ~Doomed(p)' BY <2>1, <2>2, <2>3, <2>4 DEF Doomed
  <2>6. \A q \in Procs : pc'[q] \notin {"idle"} \cup Placing => fate'[q] # "refused"
    BY <2>1, <2>2, <2>3, Others DEF FatesOK
  <2>7. QED BY <2>5, <2>6 DEF FatesOK
<1>6. ASSUME NEW p \in Procs, Place(p) PROVE FatesOK'
  <2>1. UNCHANGED <<fate, sidecar>> /\ \E s \in {"idle"} \cup Placing : Goto(p, s)
    BY <1>6 DEF Place, PlaceChecked, PlaceBuild, PlaceBuilt, PlaceRename, Placing, host, history
  <2>2. QED BY <1>2, <2>1 DEF Placing
<1>7. ASSUME NEW p \in Procs, Close(p) \/ Crash(p) PROVE FatesOK'
  <2>1. UNCHANGED fate \/ Fate(p, "again") BY <1>7 DEF Close, Crash, history
  <2>2. /\ \A q \in Procs \ {p} : fate'[q] = fate[q]
        /\ fate'[p] = "refused" => fate[p] = "refused"
    BY <2>1, OthersFates
  <2>3. UNCHANGED sidecar /\ Goto(p, "idle")
    BY <1>7 DEF Close, Crash, host
  <2>4. QED BY <1>2, <2>2, <2>3
<1>8. QED BY <1>1, <1>3, <1>4, <1>5, <1>6, <1>7 DEF Next

LEMMA InitOK ==
  ASSUME Init
  PROVE  TypeOK /\ IInv
<1>1. TypeOK
  BY BoundsAssumption DEF Init, TypeOK, Versions, Sealed, Steps, Modes
<1>2. \A u \in [file : Files, undo : {0}] : u \in Sealed
  BY BoundsAssumption DEF Sealed, Versions
<1>3. ClaimsOK BY DEF Init, ClaimsOK, Waiting, Placing, Restoring, Committing
<1>4. PlacedOK BY DEF Init, PlacedOK, Placing
<1>5. JournalOK
  <2>1. SUFFICES ASSUME entry # NoFile
                 PROVE  /\ sidecar \in Sealed => sidecar = [file |-> entry, undo |-> acked[entry]]
                        /\ sidecar \notin Sealed => bytes[entry] = acked[entry]
    BY DEF Init, JournalOK, Committing
  <2>2. entry \in Files /\ acked[entry] = 0 BY <2>1 DEF Init
  <2>3. ASSUME sidecar \in Sealed PROVE sidecar = [file |-> entry, undo |-> 0]
    <3>1. sidecar \in [file : Files, undo : {0}] /\ sidecar.file = entry
      BY <2>3, MarksAssumption DEF Init
    <3>2. QED BY <3>1
  <2>4. sidecar \notin Sealed => bytes[entry] = 0 BY <2>2 DEF Init
  <2>5. QED BY <2>2, <2>3, <2>4
<1>6. LeftoverOK BY DEF Init, LeftoverOK
<1>7. FatesOK BY ProcsAssumption DEF Init, FatesOK, Doomed
<1>8. QED BY <1>1, <1>3, <1>4, <1>5, <1>6, <1>7 DEF IInv

-----------------------------------------------------------------------------
(* Theorems *)

\* Who holds a claim and what the journal undoes to, at every step of every
\* process.
THEOREM ClaimsTheorem == OnePlacer => (Spec => [](TypeOK /\ IInv))
<1> SUFFICES ASSUME OnePlacer PROVE Spec => [](TypeOK /\ IInv)
  OBVIOUS
<1>1. Init => TypeOK /\ IInv BY InitOK
<1>2. TypeOK /\ IInv /\ [Next]_vars => (TypeOK /\ IInv)'
  BY TypeStep, ClaimsStep, PlacedStep, JournalStep, LeftoverStep, FatesStep DEF IInv
<1>3. QED BY <1>1, <1>2, PTL DEF Spec

\* A writer is exposed to a whole image however many sessions were cut off
\* before it (recognition.rs:80-83).
THEOREM WriterTheorem == OnePlacer => (Spec => []WriterSeesWhole)
<1> SUFFICES ASSUME OnePlacer PROVE Spec => []WriterSeesWhole
  OBVIOUS
<1>1. ASSUME TypeOK, IInv PROVE WriterSeesWhole
  <2>1. SUFFICES ASSUME NEW p \in Procs, Writes(p) PROVE bytes[Mine(p)] # Torn
    BY DEF WriterSeesWhole
  <2>2. Mine(p) = entry /\ entry \in Files
    BY <1>1, <2>1, Holds DEF IInv, Writes, Waiting, Placing
  <2>3. sidecar = NoSidecar
    BY <1>1, <2>1, <2>2, MarksAssumption DEF IInv, JournalOK, Writes
  <2>4. bytes[entry] = acked[entry]
    BY <1>1, <2>2, <2>3, MarksAssumption DEF IInv, JournalOK
  <2>5. QED BY <1>1, <2>2, <2>4, MarksAssumption DEF TypeOK
<1>2. TypeOK /\ IInv => WriterSeesWhole BY <1>1
<1>3. QED BY <1>2, ClaimsTheorem, PTL

\* While no process is lost, nobody reads what an earlier session left before
\* it is reconciled (recognition.rs:84-104).
THEOREM EarlierTheorem == OnePlacer => (Spec => []EarlierCommitReconciled)
<1> SUFFICES ASSUME OnePlacer PROVE Spec => []EarlierCommitReconciled
  OBVIOUS
<1>1. ASSUME TypeOK, IInv, crashes = 0 PROVE ReaderSeesWhole
  <2>1. SUFFICES ASSUME NEW p \in Procs, Reads(p) PROVE bytes[Mine(p)] # Torn
    BY DEF ReaderSeesWhole
  <2>2. Mine(p) = entry /\ entry \in Files /\ held[p] # NoClaim
    BY <1>1, <2>1, Holds DEF IInv, Reads, Waiting, Placing
  <2>3. \A q \in Procs : pc[q] \notin Restoring \cup Committing
    <3>1. \A q \in Procs : pc[q] \in Restoring \cup Committing =>
            held[q] # NoClaim /\ held[q].mode = "write"
      BY <1>1 DEF IInv, ClaimsOK, Restoring, Committing, Waiting, Placing
    <3>2. \A q \in Procs : ~(held[q] # NoClaim /\ held[q].mode = "write")
      BY <1>1, <2>1, <2>2 DEF IInv, ClaimsOK, Reads
    <3>3. QED BY <3>1, <3>2, Zenon
  <2>4. sidecar = NoSidecar BY <1>1, <2>1, <2>3 DEF IInv, LeftoverOK, Reads
  <2>5. bytes[entry] = acked[entry]
    BY <1>1, <2>2, <2>4, MarksAssumption DEF IInv, JournalOK
  <2>6. QED BY <1>1, <2>2, <2>5, MarksAssumption DEF TypeOK
<1>2. TypeOK /\ IInv /\ WriterSeesWhole => EarlierCommitReconciled
  BY <1>1 DEF EarlierCommitReconciled
<1>3. QED BY <1>2, ClaimsTheorem, WriterTheorem, PTL

\* No reconciliation runs under a live commit, whose journal stays its own
\* (recognition.rs:91-92).
THEOREM LiveCommitTheorem == OnePlacer => (Spec => []LiveCommitKeepsJournal)
<1> SUFFICES ASSUME OnePlacer PROVE Spec => []LiveCommitKeepsJournal
  OBVIOUS
<1>1. ASSUME TypeOK, IInv, NEW p \in Procs, pc[p] \in {"apply", "applying", "retire"}
      PROVE  /\ sidecar = [file |-> Mine(p), undo |-> acked[Mine(p)]]
             /\ \A q \in Procs \ {p} : pc[q] \notin Restoring
  <2>1. /\ Mine(p) = entry /\ entry \in Files /\ held[p] # NoClaim /\ held[p].mode = "write"
    BY <1>1, Holds DEF IInv, ClaimsOK, Committing, Waiting, Placing
  <2>2. sidecar = [file |-> entry, undo |-> acked[entry]]
    BY <1>1, <2>1, MarksAssumption DEF IInv, JournalOK
  <2>3. QED BY <1>1, <2>1, <2>2, WritesAlone DEF IInv, Restoring, Waiting, Placing
<1>2. TypeOK /\ IInv => LiveCommitKeepsJournal BY <1>1 DEF LiveCommitKeepsJournal
<1>3. QED BY <1>2, ClaimsTheorem, PTL

\* A commit that returned is never taken back, and one that did not is never
\* half kept, whoever is lost.
THEOREM AckedTheorem == OnePlacer => (Spec => []AckedVersionRecovered)
<1> SUFFICES ASSUME OnePlacer PROVE Spec => []AckedVersionRecovered
  OBVIOUS
<1>1. TypeOK /\ IInv => AckedVersionRecovered
  BY DEF IInv, JournalOK, AckedVersionRecovered, Recovered
<1>2. QED BY <1>1, ClaimsTheorem, PTL

\* Of processes that each ask once, somebody gets in: a claim is refused only
\* on account of a process that has one.
THEOREM OneGetsInTheorem == OnePlacer => (Spec => []OneGetsIn)
<1> SUFFICES ASSUME OnePlacer PROVE Spec => []OneGetsIn
  OBVIOUS
<1>1. TypeOK /\ IInv => OneGetsIn BY DEF IInv, FatesOK, Doomed, OneGetsIn
<1>2. QED BY <1>1, ClaimsTheorem, PTL

\* The bytes under a reader move for nobody (device.rs:18-27).
THEOREM StandStillTheorem == OnePlacer => (Spec => SessionBytesStandStill)
<1> SUFFICES ASSUME OnePlacer PROVE Spec => SessionBytesStandStill
  OBVIOUS
<1>1. ASSUME TypeOK, IInv, [Next]_vars, NEW p \in Procs, Reads(p), pc'[p] = "open"
      PROVE  bytes'[Mine(p)] = bytes[Mine(p)]
  <2>1. /\ Mine(p) = entry /\ entry \in Files /\ entry # NoFile /\ held[p] # NoClaim
        /\ held[p].mode = "read"
    BY <1>1, Holds, MarksAssumption DEF IInv, Reads, Waiting, Placing
  <2>2. \A q \in Procs : pc[q] \notin Restoring \cup Committing \cup Placing
    <3>1. \A q \in Procs : pc[q] \in Restoring \cup Committing =>
            held[q] # NoClaim /\ held[q].mode = "write"
      BY <1>1 DEF IInv, ClaimsOK, Restoring, Committing, Waiting, Placing
    <3>2. \A q \in Procs : ~(held[q] # NoClaim /\ held[q].mode = "write")
      BY <1>1, <2>1 DEF IInv, ClaimsOK
    <3>3. \A q \in Procs : pc[q] \notin Placing BY <1>1, <2>1 DEF IInv, PlacedOK
    <3>4. QED BY <3>1, <3>2, <3>3, Zenon
  <2>3. CASE UNCHANGED vars BY <2>3 DEF vars, host
  <2>4. ASSUME NEW q \in Procs, \/ \E i \in Modes : Claim(q, i)
                                \/ Open(q) \/ Commit(q) \/ Place(q) \/ Close(q) \/ Crash(q)
        PROVE  bytes' = bytes
    BY <2>2, <2>4 DEF Claim, Open, Look, Ask, Exclusive, Lost, Reclaim, Reconcile, Restore,
       Discard, Commit, Record, Seal, Apply, Applied, ApplyFails, Retire, Place, PlaceChecked,
       PlaceBuild, PlaceBuilt, PlaceRename, Close, Crash, Restoring, Committing, Placing, host
  <2>5. QED BY <1>1, <2>3, <2>4 DEF Next
<1>2. TypeOK /\ IInv /\ [Next]_vars =>
        [\A p \in Procs : Reads(p) /\ pc'[p] = "open" => bytes'[Mine(p)] = bytes[Mine(p)]]_vars
  BY <1>1
<1>3. QED BY <1>2, ClaimsTheorem, PTL DEF Spec, SessionBytesStandStill
=============================================================================
