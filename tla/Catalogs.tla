------------------------------ MODULE Catalogs ------------------------------
(***************************************************************************)
(* Flat namespaces read through a Catalog (crates/remanence/src/           *)
(* filesystem/mod.rs): opening lists the directory, and a name is then     *)
(* asked about and read, each by a walk of its own.  What a disk holds is  *)
(* what somebody else wrote, so its chains may cross, circle or lead off   *)
(* the volume.                                                             *)
(***************************************************************************)
EXTENDS Integers, Sequences, FiniteSets, SequencesExt

CONSTANTS
  CbmDisks, HdosDisks, CpmDisks,   \* the disks, as each namespace sees one
  FileNames,
  ChainBound, BlockData, DirDepth, CpmBlocks, BlockRecords, FullExtent

VARIABLES
  namespace,   \* which of the three is declared over the medium
  medium,      \* the disk
  listing,     \* whether the directory was listed, and its entries
  answer       \* whether a name was asked for, its stat and what reading gave

catalogVars == <<namespace, medium, listing, answer>>

Cbm     == INSTANCE CbmDos
HdosDos == INSTANCE Hdos
CpmDos  == INSTANCE Cpm

Unlisted == [done |-> FALSE, entries |-> <<>>]
NoAnswer == [done |-> FALSE]

Lists ==
  CASE namespace = "cbmdos" -> Cbm!Lists(medium)
    [] namespace = "hdos"   -> HdosDos!Lists(medium)
    [] namespace = "cpm"    -> CpmDos!Lists(medium)

Listing ==
  CASE namespace = "cbmdos" -> Cbm!Listing(medium)
    [] namespace = "hdos"   -> HdosDos!Listing(medium)
    [] namespace = "cpm"    -> CpmDos!Listing(medium)

ReadFile(name) ==
  CASE namespace = "cbmdos" -> Cbm!ReadFile(medium, name)
    [] namespace = "hdos"   -> HdosDos!ReadFile(medium, name)
    [] namespace = "cpm"    -> CpmDos!ReadFile(medium, name)

\* The first entry of the name.
StatOf(name) == SelectInSeq(listing.entries, LAMBDA e : e.name = name)

Entries ==
  /\ ~listing.done /\ Lists
  /\ listing' = [done |-> TRUE, entries |-> Listing]
  /\ UNCHANGED <<namespace, medium, answer>>

ReadName(name) ==
  /\ listing.done
  /\ answer' = [done |-> TRUE, name |-> name, stat |-> StatOf(name), read |-> ReadFile(name)]
  /\ UNCHANGED <<namespace, medium, listing>>

CatalogInit ==
  /\ \/ namespace = "cbmdos" /\ medium \in CbmDisks
     \/ namespace = "hdos"   /\ medium \in HdosDisks
     \/ namespace = "cpm"    /\ medium \in CpmDisks
  /\ listing = Unlisted /\ answer = NoAnswer

CatalogNext == Entries \/ \E name \in FileNames : ReadName(name)

CatalogSpec == CatalogInit /\ [][CatalogNext]_catalogVars

-----------------------------------------------------------------------------
(* Properties *)

\* A name that is listed reads, and reads what its first entry's size says,
\* unless that entry is one whose chain leads off the volume or does not end;
\* a name that is not listed does not read.  The two walks agree although the
\* listing's stops before the last group and the read's does not
\* (hdos.rs:200-230 and 285-330; cbm_dos.rs:35-47).
ReadsAsListed ==
  answer.done =>
    /\ answer.read.ok <=> (answer.stat # 0 /\ listing.entries[answer.stat].readable)
    /\ answer.read.ok => Len(answer.read.bytes) = listing.entries[answer.stat].size

\* A CP/M file whose extents are all there reads every record from where CP/M
\* put it, in whatever order the directory holds its entries (cpm.rs: extents
\* are joined in the order of their numbers).
RecordsInPlace ==
  (answer.done /\ namespace = "cpm") =>
    (answer.read.ok =>
      LET files == CpmDos!Files(medium)
          user  == files[SelectInSeq(files, LAMBDA f : f.name = answer.name)].user
      IN  CpmDos!Dense(medium, user, answer.name) =>
            \A r \in DOMAIN answer.read.bytes :
              answer.read.bytes[r] = CpmDos!PlaceOf(medium, user, answer.name, r - 1))

CatalogsAgree == ReadsAsListed /\ RecordsInPlace
=============================================================================
