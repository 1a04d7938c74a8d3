----------------------------- MODULE MCLibrary -----------------------------
(***************************************************************************)
(* The parts of the library that keep no state of each other's, in one     *)
(* run: topic picks the part a behaviour is about, the others staying at   *)
(* an initial state of theirs.  The handles of the bindings, the partition *)
(* table, the raw plane, the coverage account and FAT volumes are the      *)
(* modules this extends; the others' parts are instances, whose variables  *)
(* carry a prefix.                                                         *)
(***************************************************************************)
EXTENDS Handles, PartitionTable, RawPlane, Coverage, FatVolume

VARIABLE topic

-----------------------------------------------------------------------------
(* The session cache where any host call may fail *)

CONSTANTS Absent, NoSlot, Blank, FaultKinds, MaxClock

VARIABLES
  memCache, memClock, memSpill, memSpillOpen, memEnabled, memInFlight, memPrespilled,
  memJobs, memDone, memBase, memPc, memOp, memAt, memResult, memExpected, memFaults

memVars == <<memCache, memClock, memSpill, memSpillOpen, memEnabled, memInFlight,
             memPrespilled, memJobs, memDone, memBase, memPc, memOp, memAt, memResult,
             memExpected, memFaults>>

Mem == INSTANCE SessionCache WITH
  NExtents <- 3, ExtentBlocks <- 1, Vals <- {0, 1}, Bound <- 2, Offloading <- TRUE,
  OffloadFloor <- 2, InFlightMax <- 2, MaxFaults <- 1, MaxSpan <- 2,
  cache <- memCache, clock <- memClock, spill <- memSpill, spillOpen <- memSpillOpen,
  enabled <- memEnabled, inFlight <- memInFlight, prespilled <- memPrespilled,
  jobs <- memJobs, done <- memDone, base <- memBase, pc <- memPc, op <- memOp, at <- memAt,
  result <- memResult, expected <- memExpected, faults <- memFaults

\* The disk beneath starts out zeroed: no value is like another only there.
ZeroedCache == memBase = [e \in 0 .. 2 |-> [i \in {0} |-> 0]] /\ Mem!Init

-----------------------------------------------------------------------------
(* FAT volumes *)

fatVars == <<vars, shown>>

MCPaths    == {<<"A">>, <<"B">>, <<"D">>, <<"D", "X">>, <<"D", "+">>, <<"D", "Y">>}
MCContents == {<<>>, <<1>>, <<2, 1, 2, 1>>}
MCLabels   == {<<"DOS">>, <<"NO NAME">>}

NoFat == vol = Fresh /\ ShownInit

-----------------------------------------------------------------------------
(* Partition tables: a boot record, three boot records of the chain, and     *)
(* sectors that are none.                                                    *)

Slot(type, start) == [type |-> type, start |-> start]
NoRecord          == Slot("empty", 0)
Record(slots)     == [zero |-> FALSE, signed |-> TRUE, bpb |-> FALSE, slots |-> slots]
Junk(signed, bpb, zero) ==
  [zero |-> zero, signed |-> signed, bpb |-> bpb, slots |-> <<NoRecord, NoRecord>>]

Chained(links) ==
  {Record(<<Slot(t, 7), Slot("extended", k)>>) :
     t \in {"empty", "data", "extended"}, k \in links}
  \cup {Record(<<Slot("data", 7), NoRecord>>),
        Record(<<Slot("foreign", 7), Slot("foreign", 1)>>)}

Boots ==
  {Record(<<Slot("data", 5), x, y>>) :
     x \in {Slot("extended", 1), Slot("foreign", 9), NoRecord},
     y \in {Slot("extended", 2), NoRecord}}

PartitionedDisks ==
  {<<b, x, y, z>> : b \in Boots, x \in Chained({0, 1, 2}),
     y \in Chained({0, 2}) \cup {Junk(FALSE, FALSE, FALSE)}, z \in Chained({1, 5})}
  \cup {<<>>} \cup {<<Junk(s, b, z)>> : s, b, z \in BOOLEAN}

NoTable == disk = <<>> /\ scheme = "none" /\ TableInit

-----------------------------------------------------------------------------
(* Namespaces read through a catalog *)

VARIABLES catNamespace, catMedium, catListing, catAnswer

catVars == <<catNamespace, catMedium, catListing, catAnswer>>

\* Chains that end, circle, cross and lead to blocks that never came back.
Block(link, filled, entries) == [link |-> link, filled |-> filled, entries |-> entries]
CbmEntry(name, first)        == [name |-> name, first |-> first, blocks |-> 2]
MCCbmDisks ==
  {[bam |-> b, directory |-> 1, blocks |-> [k \in back |->
      CASE k = 1 -> Block(dl, 1, <<CbmEntry("A", 3)>>)
        [] k = 2 -> Block(0, 1, <<CbmEntry("B", bf), CbmEntry("A", 4)>>)
        [] k = 3 -> Block(l3, 2, <<>>)
        [] k = 4 -> Block(l4, f4, <<>>)]] :
   b \in BOOLEAN, back \in {1 .. 4, 1 .. 3, {1, 3, 4}}, dl \in {0, 1, 2},
   bf \in {0, 4, 9}, l3 \in {0, 3, 4}, l4 \in {0, 3}, f4 \in {0, 1, 2}}

HdosEntry(name, first, last, index) ==
  [name |-> name, first |-> first, last |-> last, index |-> index]
HdosSectors(entries, onward, end) == [entries |-> entries, next |-> onward, last |-> end]
MCHdosDisks ==
  {[label |-> TRUE, groups |-> 3, perGroup |-> 2, directory |-> dir,
    table |-> [g \in 0 .. 2 |-> CASE g = 0 -> t0 [] g = 1 -> t1 [] g = 2 -> t2],
    clusters |-> [s \in {1, 3} |->
      CASE s = 1 -> HdosSectors(<<HdosEntry("A", 1, la, i)>>, nx, FALSE)
        [] s = 3 -> HdosSectors(<<HdosEntry("B", 0, 2, 1), HdosEntry("A", 0, 0, 0)>>, 1, lst)]] :
   dir \in {0, 1, 3}, t0 \in {0, 1, 2}, t1 \in {0, 2, 4}, t2 \in {0, 1},
   la \in {1, 2, 3}, i \in {0, 2, 3}, nx \in {0, 3, 5}, lst \in BOOLEAN}

\* Extents of one file in either order, short, missing, or two of a number.
CpmSlot(user, name, extent, records, blocks) ==
  [user |-> user, name |-> name, extent |-> extent, records |-> records, blocks |-> blocks]
MCCpmDisks ==
  {[held |-> h, slots |-> <<CpmSlot(0, "A", e1, r1, b1),
                            CpmSlot(u, "A", e2, 4, <<3, 4>>), CpmSlot(0, "B", 0, 1, b3)>>] :
   h \in {0 .. 5, 0 .. 3}, e1 \in 0 .. 1, r1 \in 0 .. 4, b1 \in {<<>>, <<1>>, <<1, 2>>},
   u \in {0, 1}, e2 \in 0 .. 2, b3 \in {<<2>>, <<5>>, <<6>>}}

Cat == INSTANCE Catalogs WITH
  CbmDisks <- MCCbmDisks, HdosDisks <- MCHdosDisks, CpmDisks <- MCCpmDisks,
  FileNames <- {"A", "B", "C"}, ChainBound <- 4, BlockData <- 2, DirDepth <- 3,
  CpmBlocks <- 6, BlockRecords <- 2, FullExtent <- 4,
  namespace <- catNamespace, medium <- catMedium, listing <- catListing, answer <- catAnswer

ADisk == CHOOSE d \in MCCbmDisks : TRUE
NoCatalog == catNamespace = "cbmdos" /\ catMedium = ADisk /\ Cat!CatalogInit

-----------------------------------------------------------------------------
(* The raw plane *)

NoRaw == file = [e \in RawExtents |-> 0] /\ PlaneInit

-----------------------------------------------------------------------------
(* All of them *)

Topics == {"cache", "fat", "table", "coverage", "catalog", "handles", "raw"}

LibraryInit ==
  /\ topic \in Topics
  /\ IF topic = "fat"      THEN ShownInit        ELSE NoFat
  /\ IF topic = "table"    THEN TableInit        ELSE NoTable
  /\ IF topic = "catalog"  THEN Cat!CatalogInit  ELSE NoCatalog
  /\ IF topic = "raw"      THEN PlaneInit        ELSE NoRaw
  /\ ZeroedCache /\ CoverInit /\ Init

LibraryNext ==
  /\ UNCHANGED topic
  /\ \/ topic = "cache" /\ Mem!Next
     \/ topic = "fat" /\ ShownNext
     \/ topic = "table" /\ TableNext
     \/ topic = "coverage" /\ CoverNext
     \/ topic = "catalog" /\ Cat!CatalogNext
     \/ topic = "handles" /\ Next
     \/ topic = "raw" /\ PlaneNext
  /\ topic # "cache"    => UNCHANGED memVars
  /\ topic # "fat"      => UNCHANGED fatVars
  /\ topic # "table"    => UNCHANGED tableVars
  /\ topic # "coverage" => UNCHANGED coverVars
  /\ topic # "catalog"  => UNCHANGED catVars
  /\ topic # "handles"  => UNCHANGED handleVars
  /\ topic # "raw"      => UNCHANGED planeVars

libVars == <<topic, memVars, fatVars, tableVars, coverVars, catVars, handleVars, planeVars>>

LibrarySpec ==
  /\ LibraryInit /\ [][LibraryNext]_libVars
  /\ WF_planeVars(Reader) /\ WF_planeVars(Joined)

\* The last call on a FAT volume and their count tell no two volumes apart.
View == <<topic, memVars, vol, shown, tableVars, coverVars, catVars, handleVars, planeVars>>

\* A store gives back what was put into it.  The session's cache keeps to its
\* bound with two offloads in flight, and what was never altered keeps its slot;
\* a FAT volume is whole after every call; and a catalog's answers agree with
\* the directory it lists.
StoresAreTrue ==
  /\ topic = "cache" => Mem!WithinBound /\ Mem!UnmodifiedIsSaved
  /\ topic = "fat" => VolumeIsWhole
  /\ Cat!CatalogsAgree
=============================================================================
