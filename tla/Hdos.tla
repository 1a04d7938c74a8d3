-------------------------------- MODULE Hdos --------------------------------
(***************************************************************************)
(* The HDOS namespace (crates/remanence/src/filesystem/hdos.rs): a chain   *)
(* of directory clusters, and files that are chains of groups through the  *)
(* group reservation table.  The listing sizes a file by one walk of the   *)
(* table and reading it makes another.                                     *)
(*                                                                         *)
(* A disk d is its label's facts - whether it reads, the groups, the       *)
(* sectors of a group - its table, its directory clusters by sector, and   *)
(* the first of them.  A sector is known by its number.                    *)
(***************************************************************************)
EXTENDS Integers, Sequences, SequencesExt

CONSTANT
  DirDepth      \* directory clusters followed (64 in the code)

NoCluster == 0

Volume(d) == d.groups * d.perGroup      \* sectors of the volume

\* The clusters walked: up to the one that ends the directory, or the depth.
Clusters(d) ==
  LET At(path) == IF path = <<>> THEN d.directory ELSE d.clusters[Last(path)].next
      Goes(path) ==
        /\ path # <<>> => ~d.clusters[Last(path)].last
        /\ At(path) # NoCluster /\ At(path) \in DOMAIN d.clusters
      Walk[n \in 0 .. DirDepth] ==
        IF n = 0 THEN <<>>
        ELSE LET path == Walk[n - 1] IN IF Goes(path) THEN Append(path, At(path)) ELSE path
  IN  Walk[DirDepth]

\* The walk met a cluster that is not on the volume.
Strays(d) ==
  LET path == Clusters(d)
  IN  /\ Len(path) < DirDepth
      /\ IF path = <<>> THEN d.directory \notin DOMAIN d.clusters \cup {NoCluster}
         ELSE /\ ~d.clusters[Last(path)].last
              /\ d.clusters[Last(path)].next \notin DOMAIN d.clusters \cup {NoCluster}

Directory(d) ==
  LET path == Clusters(d) IN FlattenSeq([n \in DOMAIN path |-> d.clusters[path[n]].entries])

-----------------------------------------------------------------------------
(* Groups *)

\* The groups from first up to last, last left out, for as long as the walk
\* goes on: no more hops than there are groups, and only groups there are.
Before(d, e) ==
  LET At(path) == IF path = <<>> THEN e.first ELSE d.table[Last(path)]
      Goes(path) == At(path) # e.last /\ Len(path) < d.groups /\ At(path) < d.groups
      Walk[n \in 0 .. d.groups] ==
        IF n = 0 THEN <<>>
        ELSE LET path == Walk[n - 1] IN IF Goes(path) THEN Append(path, At(path)) ELSE path
  IN  Walk[d.groups]

Reaches(d, e) ==
  LET path == Before(d, e)
  IN  (IF path = <<>> THEN e.first ELSE d.table[Last(path)]) = e.last

\* file_size_sectors: refused where the walk made as many hops as there are
\* groups, or never came to the last group.
HasSize(d, e) == Reaches(d, e) /\ Len(Before(d, e)) < d.groups
SizeOf(d, e) == Len(Before(d, e)) * d.perGroup + e.index

\* What reading e collects: every group whole, the last up to its index.  The
\* last group, too, has to be one there is, and each sector on the volume.
Sectors(d, group, count) == [k \in 1 .. count |-> group * d.perGroup + k - 1]

ReadGroups(d, e) ==
  LET path == Before(d, e)
      all  == FlattenSeq([n \in DOMAIN path |-> Sectors(d, path[n], d.perGroup)])
                \o Sectors(d, e.last, e.index)
  IN  IF Reaches(d, e) /\ e.last < d.groups /\ \A n \in DOMAIN all : all[n] < Volume(d)
      THEN [ok |-> TRUE, bytes |-> all]
      ELSE [ok |-> FALSE, bytes |-> <<>>]

-----------------------------------------------------------------------------

\* One file whose table does not lead to its last group refuses the listing.
Lists(d) ==
  /\ d.label /\ ~Strays(d)
  /\ \A n \in DOMAIN Directory(d) : HasSize(d, Directory(d)[n])

Entry(d, e) == [name |-> e.name, size |-> SizeOf(d, e),
                readable |-> e.last < d.groups /\ e.last * d.perGroup + e.index <= Volume(d)]
Listing(d)  == [n \in DOMAIN Directory(d) |-> Entry(d, Directory(d)[n])]

\* The first file so named, wherever the walk comes to it: what is wrong
\* beyond it is not met.
ReadFile(d, name) ==
  LET n == SelectInSeq(Directory(d), LAMBDA e : e.name = name)
  IN  IF d.label /\ n # 0 THEN ReadGroups(d, Directory(d)[n])
      ELSE [ok |-> FALSE, bytes |-> <<>>]
=============================================================================
