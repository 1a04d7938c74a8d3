----------------------------- MODULE ChainOpen -----------------------------
(***************************************************************************)
(* Composing an image with the images it lies over                         *)
(* (crates/remanence/src/image/qcow2.rs open_chain, image/vdi.rs           *)
(* open_chain).  A qcow2 names its backing file by path; a VDI names its   *)
(* parent by identity, which is searched for beside the child and in the   *)
(* directory above it.  Each member is parsed, what it names resolved,     *)
(* reconciled and claimed, one host call at a time, while another process  *)
(* takes, commits to, replaces and releases files, or is lost over them.   *)
(*                                                                         *)
(* A file is a record: its format ("none" for bytes no driver claims), the *)
(* identity it declares, what it names (a path, an identity, Absent for a  *)
(* path that leads nowhere, or NoParent), the format its parent pins, the  *)
(* directory it sits in and the identity it is named for.                  *)
(***************************************************************************)
EXTENDS Integers, Sequences, FiniteSetTheorems, FunctionTheorems, TLAPS

CONSTANTS
  Libraries,    \* the sets of files a chain may be opened among
  Top,          \* the image opened
  NoParent, Absent,
  MaxChain,     \* MAX_CHAIN_LENGTH, in files
  MaxMeddling   \* bound: what the other process does to the files

VARIABLES
  files,      \* the host's files
  torn,       \* files whose sidecar holds an interrupted or live commit
  held,       \* files the other process has a write claim on
  chain,      \* files this open holds claimed, the top first
  reads,      \* how the last member is read: "qcow2", "vdi" or "raw"
  found,      \* the file the last member's parent resolved to
  pc,
  late,       \* history: files left half applied after this open had looked
              \* for their sidecar
  meddling

chainVars == <<files, torn, held, chain, reads, found, pc, late, meddling>>

Paths   == DOMAIN files
Last    == chain[Len(chain)]
Header  == files[Last]
Members == {chain[n] : n \in 1 .. Len(chain)}

Refuse ==
  /\ pc' = "refused" /\ chain' = <<>> /\ found' = Absent
  /\ UNCHANGED <<files, torn, held, reads, late, meddling>>

Go(step) ==
  /\ pc' = step
  /\ UNCHANGED <<files, torn, held, chain, reads, late, meddling>>

-----------------------------------------------------------------------------
(* One member *)

\* Qcow2Header::parse and VdiHeader::parse: a member outside the claim is
\* refused before anything it names is looked at.
Claimed == Header.format = reads

\* assemble, or on to what the header names.  An image whose own file cannot
\* be named has nowhere to look.
Parse ==
  /\ pc = "parse"
  /\ IF reads = "raw" \/ (Claimed /\ Header.parent = NoParent)
       THEN Go("opened") /\ found' = Absent
       ELSE IF ~Claimed \/ ~files[Top].reachable THEN Refuse
       ELSE Go("resolve") /\ UNCHANGED found

\* A path leads to a file or nowhere; a qcow2 chain cycles at one already
\* visited.
ResolvePath ==
  LET f == Header.parent
  IN  IF f \notin Paths \/ f \in Members \/ Len(chain) >= MaxChain
        THEN Refuse
        ELSE Go("reconcile") /\ found' = f

\* identity_of needs the file's bytes, which a writer denies.
Examined(f) == files[f].format = "vdi" /\ f \notin held

Beside(d)        == {f \in Paths : files[f].dir = d}
Nominated(d, id) == {f \in Beside(d) : files[f].named = id}
Matching(d, id)  == {f \in Beside(d) \ {Last} : Examined(f) /\ files[f].id = id}

\* The directory that answers: the child's own, or the one above it.
Answers(d, id) == Nominated(d, id) \cup Matching(d, id) # {}
Searched(id) ==
  LET here == Header.dir
  IN  IF Answers(here, id) \/ here = "above" THEN here ELSE "above"

\* A nominated file that cannot be examined, or declares another identity, is
\* a refusal and never a reason to search on.
ResolveIdentity ==
  LET id  == Header.parent
      d   == Searched(id)
      nom == Nominated(d, id)
      ids == {files[m].id : m \in Members}
  IN  IF id \in ids \/ Len(chain) >= MaxChain THEN Refuse
      ELSE IF nom # {}
        THEN \E f \in nom :
               IF f \in held \/ (Examined(f) /\ files[f].id # id) THEN Refuse
               ELSE Go("reconcile") /\ found' = f
      ELSE IF Cardinality(Matching(d, id)) # 1 THEN Refuse
      ELSE \E f \in Matching(d, id) : Go("reconcile") /\ found' = f

Resolve ==
  /\ pc = "resolve"
  /\ IF reads = "qcow2" THEN ResolvePath ELSE ResolveIdentity

\* Mutant of Reconcile: the sidecar is not looked for.
ReconcileUnlooked == pc = "reconcile" /\ Go("claim") /\ UNCHANGED found

\* reconcile_at, under an exclusive claim of its own that ends here.
Reconcile ==
  /\ pc = "reconcile"
  /\ IF found \notin torn THEN Go("claim") /\ UNCHANGED found
     ELSE IF found \in held \cup Members THEN Refuse
     ELSE /\ torn' = torn \ {found}
          /\ pc' = "claim"
          /\ UNCHANGED <<files, held, chain, reads, found, late, meddling>>

\* The read claim the chain holds for its life, and how the member is read:
\* as the image above pins it, else by its magic.
ReadAs(f) ==
  IF reads = "vdi" THEN "vdi"
  ELSE IF Header.pins # "any" THEN Header.pins
  ELSE IF files[f].format = "qcow2" THEN "qcow2" ELSE "raw"

\* Mutant of Claim: the open waits for the file's claim.
ClaimWaits ==
  /\ pc = "claim" /\ found \notin held
  /\ IF ReadAs(found) = "other" THEN Refuse
     ELSE /\ chain' = Append(chain, found)
          /\ reads' = ReadAs(found)
          /\ pc' = "parse"
          /\ UNCHANGED <<files, torn, held, found, late, meddling>>

Claim ==
  /\ pc = "claim"
  /\ IF found \in held \/ ReadAs(found) = "other" THEN Refuse
     ELSE /\ chain' = Append(chain, found)
          /\ reads' = ReadAs(found)
          /\ pc' = "parse"
          /\ UNCHANGED <<files, torn, held, found, late, meddling>>

\* Mutant of NamesParent: the claimed file's identity is not looked at again.
NamesParentUnchecked(c, f) == TRUE

\* The members join from the last up, each checked to be the one its child
\* names: resolution selected a file, and the claim is what holds it.
NamesParent(c, f) == c.format = "vdi" => f.id = c.parent

Joins == \A n \in 1 .. Len(chain) - 1 :
           NamesParent(files[chain[n]], files[chain[n + 1]])

Join ==
  /\ pc = "opened"
  /\ IF Joins THEN Go("joined") /\ UNCHANGED found ELSE Refuse

-----------------------------------------------------------------------------
(* The other process *)

Free(f) == f \notin Members \cup held

Meddle ==
  /\ meddling < MaxMeddling
  /\ meddling' = meddling + 1
  /\ UNCHANGED <<chain, reads, found, pc>>

\* A file it finds half applied it holds while it reconciles it.
OtherOpens(f) ==
  /\ Meddle /\ Free(f)
  /\ held' = held \cup {f}
  /\ UNCHANGED <<files, torn, late>>

\* Its commit or its reconciliation: the sidecar stands for as long as the
\* image is in between.
OtherCommits(f) ==
  /\ Meddle /\ f \in held
  /\ torn' = IF f \in torn THEN torn \ {f} ELSE torn \cup {f}
  /\ late' = late \ {f}
  /\ UNCHANGED <<files, held>>

\* It closes the file, or is lost, its commit half applied perhaps: the claim
\* goes with it and the sidecar stays.
OtherLeaves(f) ==
  /\ Meddle /\ f \in held
  /\ held' = held \ {f}
  /\ late' = IF pc = "claim" /\ f = found /\ f \in torn THEN late \cup {f} ELSE late
  /\ UNCHANGED <<files, torn>>

\* Another image is put in a file's place, under the same name.
OtherReplaces(f, g) ==
  /\ Meddle /\ Free(f) /\ f \notin torn
  /\ files' = [files EXCEPT ![f].id = files[g].id,
                            ![f].parent = files[g].parent]
  /\ UNCHANGED <<torn, held, late>>

OpenInit ==
  /\ \E l \in Libraries : files = l.files /\ torn = l.torn
  /\ held = {} /\ chain = <<Top>> /\ reads = files[Top].format
  /\ found = Absent /\ pc = "parse" /\ late = {} /\ meddling = 0

Opening == Parse \/ Resolve \/ Reconcile \/ Claim \/ Join

OpenNext ==
  \/ Opening
  \/ \E f \in Paths : OtherOpens(f) \/ OtherCommits(f) \/ OtherLeaves(f)
  \/ \E f, g \in Paths : OtherReplaces(f, g)

OpenSpec == OpenInit /\ [][OpenNext]_chainVars

\* Each step of the open is a host call that returns.
FairOpenSpec == OpenSpec /\ WF_chainVars(Opening)

-----------------------------------------------------------------------------
(* Properties *)

\* A composed chain is the chain its images name, whole: no file twice, no
\* longer than the claim, ending in an image that lies over nothing, each VDI
\* parent of the very identity its child names although the file was found,
\* reconciled and claimed in separate calls, no member another process's, and
\* none left half applied but by a process lost between the look for that
\* file's sidecar and the claim on the file (open_member of both drivers).
ComposedIsWhole ==
  pc = "joined" =>
    /\ Cardinality(Members) = Len(chain) /\ Len(chain) <= MaxChain
    /\ reads = "raw" \/ Header.parent = NoParent
    /\ \A n \in 1 .. Len(chain) - 1 :
         LET c == files[chain[n]] IN
         IF c.format = "vdi" THEN files[chain[n + 1]].id = c.parent
                             ELSE chain[n + 1] = c.parent
    /\ Members \cap held = {} /\ Members \cap torn \subseteq late

\* "it is reconciled before the chain composes over it (P9), exactly as at a
\* top-level open" (qcow2.rs:650-652, vdi.rs:753-755): no member is half
\* applied.  Not so, as at a top-level open.
ComposedIsReconciled == pc = "joined" => Members \cap torn = {}

\* Whatever names what, and whoever holds what, an open ends: a chain or a
\* refusal (the cycle check and MAX_CHAIN_LENGTH).
OpenEnds == <>(pc \in {"joined", "refused"})

-----------------------------------------------------------------------------
(* The inductive invariant behind ComposedIsWhole *)

FileFields == {"format", "id", "parent", "pins", "dir", "named", "reachable"}

FileOK(r) ==
  /\ r = [x \in DOMAIN r |-> r[x]] /\ FileFields \subseteq DOMAIN r
  /\ r.pins \in {"any", "raw", "qcow2", "other"}

FilesOK ==
  /\ files = [f \in Paths |-> files[f]]
  /\ \A f \in Paths : FileOK(files[f])

\* The files an open holds are all different, and nobody else has them: none
\* is claimed by a writer, and one that stands between two commits came to in
\* the gap.
ChainOK ==
  /\ chain \in Seq(Paths) /\ Len(chain) <= MaxChain
  /\ \A m, n \in 1 .. Len(chain) : chain[m] = chain[n] => m = n
  /\ Members \cap held = {} /\ Members \cap torn \subseteq late

\* Every member but the last has been parsed as what it is read as, and a
\* qcow2's next member is the file its path led to.
LinksOK ==
  /\ reads \in {"qcow2", "vdi", "raw"}
  /\ \A n \in 1 .. Len(chain) - 1 :
       /\ files[chain[n]].format = IF reads = "vdi" THEN "vdi" ELSE "qcow2"
       /\ reads # "vdi" => chain[n + 1] = files[chain[n]].parent

\* Where the open stands.  A file found and reconciled is no member; when it
\* is to be claimed, one that stands between two commits has a writer or lost
\* one since.
StepOK ==
  /\ pc \in {"parse", "resolve", "reconcile", "claim", "opened", "joined", "refused"}
  /\ pc # "refused" => chain # <<>>
  /\ pc \in {"resolve", "reconcile", "claim"} =>
       reads \in {"qcow2", "vdi"} /\ Header.format = reads
  /\ pc \in {"reconcile", "claim"} =>
       /\ found \in Paths \ Members /\ Len(chain) < MaxChain
       /\ reads = "qcow2" => found = Header.parent
  /\ pc = "claim" => (found \in torn => found \in held \cup late)
  /\ pc \in {"opened", "joined"} => reads = "raw" \/ Header.parent = NoParent
  /\ pc = "joined" => Joins

ChainIInv == FilesOK /\ ChainOK /\ LinksOK /\ StepOK

\* The open is of an image a driver claims, which its own claim reconciled
\* first, among files of any kind.
Openable ==
  /\ MaxChain \in Nat \ {0}
  /\ \A l \in Libraries :
       /\ l.files = [f \in DOMAIN l.files |-> l.files[f]]
       /\ \A f \in DOMAIN l.files : FileOK(l.files[f])
       /\ Top \in DOMAIN l.files /\ Top \notin l.torn
       /\ l.files[Top].format \in {"qcow2", "vdi"}

LEMMA InitChain == ASSUME Openable, OpenInit PROVE ChainIInv
<1> PICK l \in Libraries : files = l.files /\ torn = l.torn
  BY DEF OpenInit
<1>1. /\ held = {} /\ late = {} /\ chain = <<Top>> /\ reads = files[Top].format
      /\ found = Absent /\ pc = "parse"
  BY DEF OpenInit
<1>2. FilesOK /\ Top \in Paths /\ Top \notin torn /\ files[Top].format \in {"qcow2", "vdi"}
  BY DEF Openable, FilesOK, Paths
<1>3. Len(chain) = 1 /\ chain[1] = Top /\ chain \in Seq(Paths)
  BY <1>1, <1>2
<1>4. ChainOK
  BY <1>1, <1>2, <1>3 DEF ChainOK, Members, Openable
<1>5. LinksOK
  BY <1>1, <1>2, <1>3 DEF LinksOK
<1>6. StepOK
  BY <1>1 DEF StepOK
<1> QED
  BY <1>2, <1>4, <1>5, <1>6 DEF ChainIInv

\* A refusal lets every claim go.
LEMMA RefuseKeeps == ASSUME Openable, ChainIInv, Refuse PROVE ChainIInv'
<1>1. chain' = <<>> /\ pc' = "refused" /\ UNCHANGED <<files, torn, held, reads, late>>
  BY DEF Refuse
<1>2. Len(<<>>) = 0 /\ <<>> \in Seq(Paths)
  OBVIOUS
<1>3. FilesOK'
  BY <1>1 DEF ChainIInv, FilesOK, Paths
<1>4. ChainOK'
  BY <1>1, <1>2 DEF ChainOK, Members, Openable, Paths
<1>5. LinksOK'
  BY <1>1, <1>2 DEF ChainIInv, LinksOK
<1>6. StepOK'
  BY <1>1 DEF StepOK
<1> QED
  BY <1>3, <1>4, <1>5, <1>6 DEF ChainIInv

\* The last file held.
LEMMA LastIs ==
  ASSUME ChainIInv, pc # "refused"
  PROVE  /\ Len(chain) \in Nat \ {0} /\ Last = chain[Len(chain)]
         /\ Last \in Members /\ Last \in Paths /\ Members \subseteq Paths
<1>1. chain \in Seq(Paths) /\ chain # <<>>
  BY DEF ChainIInv, ChainOK, StepOK
<1>2. Len(chain) \in Nat \ {0} /\ \A n \in 1 .. Len(chain) : chain[n] \in Paths
  BY <1>1
<1> QED
  BY <1>2 DEF Last, Members

\* A step of the open that holds the same files.
LEMMA GoKeeps ==
  ASSUME Openable, ChainIInv, NEW step, Go(step), StepOK'
  PROVE  ChainIInv'
BY DEF Go, ChainIInv, FilesOK, ChainOK, LinksOK, Members, Paths

LEMMA ParseKeeps == ASSUME Openable, ChainIInv, Parse PROVE ChainIInv'
<1>1. CASE reads = "raw" \/ (Claimed /\ Header.parent = NoParent)
  <2>1. Go("opened")
    BY <1>1 DEF Parse
  <2>2. StepOK'
    BY <1>1, <2>1 DEF Go, ChainIInv, StepOK, Parse, Header, Last
  <2> QED
    BY <2>1, <2>2, GoKeeps
<1>2. CASE /\ ~(reads = "raw" \/ (Claimed /\ Header.parent = NoParent))
           /\ ~Claimed \/ ~files[Top].reachable
  BY <1>2, RefuseKeeps DEF Parse
<1>3. CASE /\ ~(reads = "raw" \/ (Claimed /\ Header.parent = NoParent))
           /\ ~(~Claimed \/ ~files[Top].reachable)
  <2>1. Go("resolve") /\ UNCHANGED found
    BY <1>3 DEF Parse
  <2>2. StepOK'
    BY <1>3, <2>1 DEF Go, ChainIInv, StepOK, LinksOK, Parse, Header, Last, Claimed
  <2> QED
    BY <2>1, <2>2, GoKeeps
<1> QED
  BY <1>1, <1>2, <1>3

\* What resolving hands on is a file of the host, and no member.
LEMMA FoundKeeps ==
  ASSUME Openable, ChainIInv, pc = "resolve", NEW f \in Paths \ Members, Len(chain) < MaxChain,
         reads = "qcow2" => f = Header.parent,
         Go("reconcile"), found' = f
  PROVE  ChainIInv'
<1>1. StepOK'
  BY DEF Go, ChainIInv, StepOK, Header, Last, Members, Paths
<1> QED
  BY <1>1, GoKeeps

LEMMA ResolveKeeps == ASSUME Openable, ChainIInv, Resolve PROVE ChainIInv'
<1>0. pc = "resolve" /\ reads \in {"qcow2", "vdi"} /\ MaxChain \in Nat /\ Len(chain) \in Nat
      /\ Members \subseteq Paths /\ Last \in Members
  BY LastIs DEF Resolve, ChainIInv, StepOK, Openable
<1>1. CASE reads = "qcow2"
  <2> DEFINE f == Header.parent
  <2>1. CASE f \notin Paths \/ f \in Members \/ Len(chain) >= MaxChain
    BY <1>1, <2>1, RefuseKeeps DEF Resolve, ResolvePath
  <2>2. CASE ~(f \notin Paths \/ f \in Members \/ Len(chain) >= MaxChain)
    <3>1. Go("reconcile") /\ found' = f
      BY <1>1, <2>2 DEF Resolve, ResolvePath
    <3> QED
      BY <1>0, <2>2, <3>1, FoundKeeps
  <2> QED
    BY <2>1, <2>2
<1>2. CASE reads = "vdi"
  <2> DEFINE id  == Header.parent
             d   == Searched(id)
             nom == Nominated(d, id)
             ids == {files[m].id : m \in Members}
  <2>1. ResolveIdentity
    BY <1>2 DEF Resolve
  <2>2. CASE id \in ids \/ Len(chain) >= MaxChain
    BY <2>1, <2>2, RefuseKeeps DEF ResolveIdentity
  <2>3. CASE ~(id \in ids \/ Len(chain) >= MaxChain)
    <3>1. \A m \in Members : files[m].id # id
      BY <2>3
    <3>2. Len(chain) < MaxChain
      BY <1>0, <2>3
    <3>3. \A m \in Members : files[m].format = "vdi"
      <4>1. \A n \in 1 .. Len(chain) : files[chain[n]].format = "vdi"
        <5>1. files[chain[Len(chain)]].format = "vdi"
          BY <1>0, <1>2 DEF ChainIInv, StepOK, Header, Last
        <5>2. \A n \in 1 .. Len(chain) - 1 : files[chain[n]].format = "vdi"
          BY <1>2 DEF ChainIInv, LinksOK
        <5> QED
          BY <1>0, <5>1, <5>2
      <4> QED
        BY <4>1 DEF Members
    <3>4. CASE nom # {}
      <4> PICK f \in nom :
            IF f \in held \/ (Examined(f) /\ files[f].id # id) THEN Refuse
            ELSE Go("reconcile") /\ found' = f
        BY <2>1, <2>3, <3>4 DEF ResolveIdentity
      <4>1. CASE f \in held \/ (Examined(f) /\ files[f].id # id)
        BY <4>1, RefuseKeeps
      <4>2. CASE ~(f \in held \/ (Examined(f) /\ files[f].id # id))
        <5>1. f \in Paths
          BY DEF Nominated, Beside
        <5>2. f \notin Members
          BY <3>1, <3>3, <4>2 DEF Examined
        <5> HIDE DEF id, nom
        <5>3. Go("reconcile") /\ found' = f
          BY <4>2
        <5> QED
          BY <1>0, <1>2, <3>2, <5>1, <5>2, <5>3, FoundKeeps
      <4> QED
        BY <4>1, <4>2
    <3>5. CASE nom = {} /\ Cardinality(Matching(d, id)) # 1
      BY <2>1, <2>3, <3>5, RefuseKeeps DEF ResolveIdentity
    <3>6. CASE nom = {} /\ Cardinality(Matching(d, id)) = 1
      <4> PICK f \in Matching(d, id) : Go("reconcile") /\ found' = f
        BY <2>1, <2>3, <3>6 DEF ResolveIdentity
      <4>1. f \in Paths /\ f \notin Members
        BY <3>1 DEF Matching, Beside
      <4> QED
        BY <1>0, <1>2, <3>2, <4>1, FoundKeeps
    <3> QED
      BY <3>4, <3>5, <3>6
  <2> QED
    BY <2>2, <2>3
<1> QED
  BY <1>0, <1>1, <1>2

LEMMA ReconcileKeeps == ASSUME Openable, ChainIInv, Reconcile PROVE ChainIInv'
<1>1. CASE found \notin torn
  <2>1. Go("claim") /\ UNCHANGED found
    BY <1>1 DEF Reconcile
  <2>2. StepOK'
    BY <1>1, <2>1 DEF Reconcile, Go, ChainIInv, StepOK, Header, Last, Members, Paths
  <2> QED
    BY <2>1, <2>2, GoKeeps
<1>2. CASE found \in torn /\ found \in held \cup Members
  BY <1>2, RefuseKeeps DEF Reconcile
<1>3. CASE found \in torn /\ found \notin held \cup Members
  <2>1. /\ torn' = torn \ {found} /\ pc' = "claim"
        /\ UNCHANGED <<files, held, chain, reads, found, late, meddling>>
    BY <1>3 DEF Reconcile
  <2>2. StepOK'
    BY <2>1 DEF Reconcile, ChainIInv, StepOK, Header, Last, Members, Paths
  <2>3. FilesOK' /\ LinksOK'
    BY <2>1 DEF ChainIInv, FilesOK, LinksOK, Paths
  <2>4. ChainOK'
    BY <2>1 DEF ChainIInv, ChainOK, Members, Paths
  <2> QED
    BY <2>2, <2>3, <2>4 DEF ChainIInv
<1> QED
  BY <1>1, <1>2, <1>3

\* The claim is on a file nobody else has, and the chain is one file longer.
LEMMA ClaimKeeps == ASSUME Openable, ChainIInv, Claim PROVE ChainIInv'
<1>0. pc = "claim"
  BY DEF Claim
<1>1. CASE found \in held \/ ReadAs(found) = "other"
  BY <1>1, RefuseKeeps DEF Claim
<1>2. CASE ~(found \in held \/ ReadAs(found) = "other")
  <2> DEFINE n == Len(chain)
  <2>1. /\ chain' = Append(chain, found) /\ reads' = ReadAs(found) /\ pc' = "parse"
        /\ UNCHANGED <<files, torn, held, found, late>>
    BY <1>2 DEF Claim
  <2>2. /\ chain \in Seq(Paths) /\ found \in Paths \ Members /\ n < MaxChain /\ n \in Nat \ {0}
        /\ found \notin held /\ (found \in torn => found \in late) /\ Last = chain[n]
        /\ reads \in {"qcow2", "vdi"} /\ Header.format = reads
        /\ (reads = "qcow2" => found = Header.parent)
    BY <1>0, <1>2, LastIs DEF ChainIInv, ChainOK, StepOK
  <2>3. /\ chain' \in Seq(Paths) /\ Len(chain') = n + 1 /\ chain'[n + 1] = found
        /\ \A m \in 1 .. n : chain'[m] = chain[m]
    BY <2>1, <2>2
  <2> HIDE DEF n
  <2>4. Members' = Members \cup {found}
    <3>1. Members' = {chain'[m] : m \in 1 .. n + 1}
      BY <2>3 DEF Members
    <3>2. Members = {chain[m] : m \in 1 .. n}
      BY DEF Members, n
    <3> QED
      BY <2>2, <2>3, <3>1, <3>2
  <2>5. FilesOK'
    BY <2>1 DEF ChainIInv, FilesOK, Paths
  <2>6. ChainOK'
    <3>1. n + 1 <= MaxChain
      BY <2>2 DEF Openable
    <3>2. \A m, k \in 1 .. n + 1 : chain'[m] = chain'[k] => m = k
      <4>1. \A m, k \in 1 .. n : chain[m] = chain[k] => m = k
        BY DEF ChainIInv, ChainOK, n
      <4>2. \A m \in 1 .. n : chain[m] # found
        BY <2>2 DEF Members, n
      <4> QED
        BY <2>2, <2>3, <4>1, <4>2
    <3>3. Members' \cap held' = {} /\ Members' \cap torn' \subseteq late'
      BY <2>1, <2>2, <2>4 DEF ChainIInv, ChainOK
    <3> QED
      BY <2>1, <2>3, <3>1, <3>2, <3>3 DEF ChainOK, Paths
  <2>7. LinksOK'
    <3>1. Header.pins \in {"any", "raw", "qcow2", "other"}
      BY <1>0, LastIs DEF Header, ChainIInv, FilesOK, FileOK
    <3>2. reads' \in {"qcow2", "vdi", "raw"} /\ (reads' = "vdi" <=> reads = "vdi")
      BY <1>2, <2>1, <2>2, <3>1 DEF ReadAs
    <3>3. \A m \in 1 .. n - 1 :
            /\ files[chain[m]].format = IF reads = "vdi" THEN "vdi" ELSE "qcow2"
            /\ reads # "vdi" => chain[m + 1] = files[chain[m]].parent
      BY DEF ChainIInv, LinksOK, n
    <3>4. files[chain[n]].format = reads /\ (reads # "vdi" => found = files[chain[n]].parent)
      BY <2>2 DEF Header
    <3>5. \A m \in 1 .. n :
            /\ files[chain'[m]].format = IF reads = "vdi" THEN "vdi" ELSE "qcow2"
            /\ reads # "vdi" => chain'[m + 1] = files[chain'[m]].parent
      <4> SUFFICES ASSUME NEW m \in 1 .. n
                   PROVE  /\ files[chain'[m]].format = IF reads = "vdi" THEN "vdi" ELSE "qcow2"
                          /\ reads # "vdi" => chain'[m + 1] = files[chain'[m]].parent
        OBVIOUS
      <4>1. CASE m = n
        BY <2>2, <2>3, <3>4, <4>1
      <4>2. CASE m # n
        <5>1. m \in 1 .. n - 1 /\ m + 1 \in 1 .. n
          BY <2>2, <4>2
        <5> QED
          BY <2>3, <3>3, <5>1
      <4> QED
        BY <4>1, <4>2
    <3>6. Len(chain') - 1 = n
      BY <2>2, <2>3
    <3> QED
      BY <2>1, <3>2, <3>5, <3>6 DEF LinksOK
  <2>8. StepOK'
    BY <2>1, <2>2, <2>3 DEF StepOK
  <2> QED
    BY <2>5, <2>6, <2>7, <2>8 DEF ChainIInv
<1> QED
  BY <1>1, <1>2

LEMMA JoinKeeps == ASSUME Openable, ChainIInv, Join PROVE ChainIInv'
<1>1. CASE Joins
  <2>1. Go("joined") /\ UNCHANGED found
    BY <1>1 DEF Join
  <2>2. StepOK'
    BY <1>1, <2>1 DEF Join, Go, ChainIInv, StepOK, Joins, Header, Last
  <2> QED
    BY <2>1, <2>2, GoKeeps
<1>2. CASE ~Joins
  BY <1>2, RefuseKeeps DEF Join
<1> QED
  BY <1>1, <1>2

\* Whatever the other process does, it does to files this open does not hold.
LEMMA MeddleKeeps ==
  ASSUME Openable, ChainIInv, UNCHANGED <<chain, reads, found, pc>>,
         FilesOK', Paths' = Paths, \A m \in Members : files'[m] = files[m],
         Members \cap held' = {}, Members \cap torn' \subseteq late',
         pc = "claim" => (found \in torn' => found \in held' \cup late')
  PROVE  ChainIInv'
<1>1. Members' = Members
  BY DEF Members
<1>2. ChainOK'
  BY <1>1 DEF ChainIInv, ChainOK
<1>3. \A n \in 1 .. Len(chain) : files'[chain[n]] = files[chain[n]]
  BY DEF Members
<1>4. Len(chain) \in Nat
  BY DEF ChainIInv, ChainOK
<1>5. LinksOK'
  <2>1. \A n \in 1 .. Len(chain) - 1 : files'[chain[n]] = files[chain[n]]
    BY <1>3, <1>4
  <2> QED
    BY <2>1 DEF ChainIInv, LinksOK
<1>6. pc # "refused" => Header' = Header
  <2> SUFFICES ASSUME pc # "refused" PROVE Header' = Header
    OBVIOUS
  <2>1. Last \in Members
    BY LastIs
  <2> QED
    BY <2>1 DEF Header, Last
<1>7. Joins => Joins'
  <2>1. \A n \in 1 .. Len(chain) - 1 :
          files'[chain[n]] = files[chain[n]] /\ files'[chain[n + 1]] = files[chain[n + 1]]
    BY <1>3, <1>4
  <2> QED
    BY <2>1 DEF Joins
<1>8. StepOK'
  BY <1>1, <1>6, <1>7 DEF ChainIInv, StepOK
<1> QED
  BY <1>2, <1>5, <1>8 DEF ChainIInv

LEMMA OthersKeep ==
  ASSUME Openable, ChainIInv, NEW f \in Paths, NEW g \in Paths,
         OtherOpens(f) \/ OtherCommits(f) \/ OtherLeaves(f) \/ OtherReplaces(f, g)
  PROVE  ChainIInv'
<1>0. /\ UNCHANGED <<chain, reads, found, pc>>
      /\ Members \cap held = {} /\ Members \cap torn \subseteq late
      /\ (pc = "claim" => (found \in torn => found \in held \cup late))
  BY DEF OtherOpens, OtherCommits, OtherLeaves, OtherReplaces, Meddle, ChainIInv, ChainOK, StepOK
<1>1. CASE OtherOpens(f)
  <2>1. held' = held \cup {f} /\ UNCHANGED <<files, torn, late>> /\ f \notin Members
    BY <1>1 DEF OtherOpens, Free
  <2>2. FilesOK' /\ Paths' = Paths
    BY <2>1 DEF ChainIInv, FilesOK, Paths
  <2> QED
    BY <1>0, <2>1, <2>2, MeddleKeeps
<1>2. CASE OtherCommits(f)
  <2>1. /\ f \in held /\ UNCHANGED <<files, held>>
        /\ torn' = IF f \in torn THEN torn \ {f} ELSE torn \cup {f}
        /\ late' = late \ {f}
    BY <1>2 DEF OtherCommits
  <2>2. FilesOK' /\ Paths' = Paths
    BY <2>1 DEF ChainIInv, FilesOK, Paths
  <2> QED
    BY <1>0, <2>1, <2>2, MeddleKeeps
<1>3. CASE OtherLeaves(f)
  <2>1. /\ held' = held \ {f} /\ UNCHANGED <<files, torn>>
        /\ late' = IF pc = "claim" /\ f = found /\ f \in torn THEN late \cup {f} ELSE late
    BY <1>3 DEF OtherLeaves
  <2>2. FilesOK' /\ Paths' = Paths
    BY <2>1 DEF ChainIInv, FilesOK, Paths
  <2> QED
    BY <1>0, <2>1, <2>2, MeddleKeeps
<1>4. CASE OtherReplaces(f, g)
  <2> DEFINE old == files[f]
             new == [old EXCEPT !.id = files[g].id, !.parent = files[g].parent]
  <2>1. /\ files' = [files EXCEPT ![f].id = files[g].id, ![f].parent = files[g].parent]
        /\ UNCHANGED <<torn, held, late>> /\ f \notin Members
    BY <1>4 DEF OtherReplaces, Free
  <2>2. FileOK(old) /\ files = [p \in Paths |-> files[p]]
    BY DEF ChainIInv, FilesOK
  <2>3. files' = [files EXCEPT ![f] = new]
    BY <2>1, <2>2 DEF Paths
  <2>4. FileOK(new)
    <3> DEFINE a == files[g].id
               b == files[g].parent
    <3> HIDE DEF a, b, old
    <3>1. FileOK([old EXCEPT !.id = a, !.parent = b])
      BY <2>2 DEF FileOK, FileFields
    <3> QED
      BY <3>1 DEF a, b
  <2> HIDE DEF new
  <2>5. Paths' = Paths /\ \A p \in Paths : files'[p] = IF p = f THEN new ELSE files[p]
    BY <2>2, <2>3 DEF Paths
  <2>6. FilesOK'
    <3>1. files' = [p \in Paths' |-> files'[p]]
      BY <2>2, <2>3, <2>5 DEF Paths
    <3>2. \A p \in Paths' : FileOK(files'[p])
      BY <2>4, <2>5 DEF ChainIInv, FilesOK
    <3> QED
      BY <3>1, <3>2 DEF FilesOK
  <2>7. \A m \in Members : files'[m] = files[m]
    <3>1. Members \subseteq Paths
      BY DEF ChainIInv, ChainOK, Members
    <3> QED
      BY <2>1, <2>5, <3>1
  <2> QED
    BY <1>0, <2>1, <2>5, <2>6, <2>7, MeddleKeeps
<1> QED
  BY <1>1, <1>2, <1>3, <1>4

LEMMA StepChain == ASSUME Openable, ChainIInv, [OpenNext]_chainVars PROVE ChainIInv'
<1>1. CASE Opening
  BY <1>1, ParseKeeps, ResolveKeeps, ReconcileKeeps, ClaimKeeps, JoinKeeps DEF Opening
<1>2. CASE \E f \in Paths : OtherOpens(f) \/ OtherCommits(f) \/ OtherLeaves(f)
  BY <1>2, OthersKeep
<1>3. CASE \E f, g \in Paths : OtherReplaces(f, g)
  BY <1>3, OthersKeep
<1>4. CASE UNCHANGED chainVars
  BY <1>4 DEF chainVars, ChainIInv, FilesOK, ChainOK, LinksOK, StepOK, Members, Header, Last, Joins, Paths
<1> QED
  BY <1>1, <1>2, <1>3, <1>4 DEF OpenNext

LEMMA WholeChain == ASSUME Openable, ChainIInv PROVE ComposedIsWhole
<1> SUFFICES ASSUME pc = "joined"
             PROVE  /\ Cardinality(Members) = Len(chain) /\ Len(chain) <= MaxChain
                    /\ reads = "raw" \/ Header.parent = NoParent
                    /\ \A n \in 1 .. Len(chain) - 1 :
                         LET c == files[chain[n]] IN
                         IF c.format = "vdi" THEN files[chain[n + 1]].id = c.parent
                                             ELSE chain[n + 1] = c.parent
                    /\ Members \cap held = {} /\ Members \cap torn \subseteq late
  BY DEF ComposedIsWhole
<1>1. Cardinality(Members) = Len(chain)
  <2> DEFINE n == Len(chain)
             h == [m \in 1 .. n |-> chain[m]]
  <2>1. n \in Nat
    BY LastIs
  <2>2. IsFiniteSet(1 .. n) /\ Cardinality(1 .. n) = n
    <3> HIDE DEF n
    <3>1. /\ IsFiniteSet(1 .. n)
          /\ Cardinality(1 .. n) = IF 1 > n THEN 0 ELSE n - 1 + 1
      BY <2>1, FS_Interval
    <3> QED
      BY <2>1, <3>1
  <2>3. h \in Bijection(1 .. n, Members)
    <3>1. h \in [1 .. n -> Members] /\ \A x, y \in 1 .. n : h[x] = h[y] => x = y
      BY DEF Members, ChainIInv, ChainOK
    <3>2. \A m \in Members : \E x \in 1 .. n : h[x] = m
      BY DEF Members
    <3> HIDE DEF h, n
    <3> QED
      BY <3>1, <3>2, Fun_IsBij
  <2>4. ExistsBijection(1 .. n, Members)
    BY <2>3 DEF ExistsBijection
  <2> HIDE DEF n, h
  <2>5. Cardinality(1 .. n) = Cardinality(Members)
    BY <2>2, <2>4, FS_Bijection
  <2> QED
    BY <2>2, <2>5 DEF n
<1>2. Len(chain) <= MaxChain /\ Members \cap held = {} /\ Members \cap torn \subseteq late
  BY DEF ChainIInv, ChainOK
<1>3. (reads = "raw" \/ Header.parent = NoParent) /\ Joins
  BY DEF ChainIInv, StepOK
<1>4. ASSUME NEW n \in 1 .. Len(chain) - 1
      PROVE  LET c == files[chain[n]] IN
             IF c.format = "vdi" THEN files[chain[n + 1]].id = c.parent
                                 ELSE chain[n + 1] = c.parent
  <2>1. /\ files[chain[n]].format = IF reads = "vdi" THEN "vdi" ELSE "qcow2"
        /\ reads # "vdi" => chain[n + 1] = files[chain[n]].parent
    BY DEF ChainIInv, LinksOK
  <2>2. files[chain[n]].format = "vdi" => files[chain[n + 1]].id = files[chain[n]].parent
    BY <1>3 DEF Joins, NamesParent
  <2> QED
    BY <2>1, <2>2
<1> QED
  BY <1>1, <1>2, <1>3, <1>4

\* A chain that opens is whole, whatever the files name and whatever another
\* process takes, commits to, replaces, gives back or is lost over between its
\* steps: no file twice, each VDI parent of the identity its child names, nobody
\* else in any of the files, and none half applied but by a process lost in the
\* gap between the look for that file's sidecar and the claim (open_member of
\* both drivers).
THEOREM ChainTheorem ==
  ASSUME Openable
  PROVE  OpenSpec => []ComposedIsWhole
<1>1. OpenInit => ChainIInv
  BY InitChain
<1>2. ChainIInv /\ [OpenNext]_chainVars => ChainIInv'
  BY StepChain
<1>3. ChainIInv => ComposedIsWhole
  BY WholeChain
<1> QED
  BY <1>1, <1>2, <1>3, PTL DEF OpenSpec
=============================================================================
