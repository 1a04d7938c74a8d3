------------------------------- MODULE CbmDos -------------------------------
(***************************************************************************)
(* The CBM DOS namespace (crates/remanence/src/filesystem/cbm_dos.rs): a   *)
(* directory and files that are chains of blocks, each block naming the    *)
(* next, walked without trusting that they end.                            *)
(*                                                                         *)
(* A disk d is its blocks - those that never came back are not in the      *)
(* domain - and the directory's first block.  A block is what its link     *)
(* names (NoBlock ends a chain), how much of it the link says is filled,   *)
(* and the directory entries it would hold.                                *)
(***************************************************************************)
EXTENDS Integers, Sequences, SequencesExt

CONSTANTS
  ChainBound,   \* blocks a chain may run to (35 * 21 in the code)
  BlockData     \* bytes a block carries beside its link (254)

NoBlock == 0

Names(entries, name) == SelectInSeq(entries, LAMBDA e : e.name = name)

\* The blocks visited from first, for as long as the walk goes on.
Visited(d, first) ==
  LET At(path) == IF path = <<>> THEN first ELSE d.blocks[Last(path)].link
      Goes(path) ==
        /\ At(path) # NoBlock /\ At(path) \in DOMAIN d.blocks
        /\ ~Contains(path, At(path)) /\ Len(path) < ChainBound
      Walk[n \in 0 .. ChainBound] ==
        IF n = 0 THEN <<>>
        ELSE LET path == Walk[n - 1] IN IF Goes(path) THEN Append(path, At(path)) ELSE path
  IN  Walk[ChainBound]

\* The walk came to a block that ends the chain.
Ends(d, first) ==
  LET path == Visited(d, first)
  IN  IF path = <<>> THEN first = NoBlock ELSE d.blocks[Last(path)].link = NoBlock

\* A file's bytes, each as the block and the place it was read from.  The last
\* block must not say it is filled up to a byte of its own link.
BytesOf(block, count) == [k \in 1 .. count |-> <<block, k>>]

ReadChain(d, first) ==
  LET path == Visited(d, first)
      fill == IF path = <<>> THEN 1 ELSE d.blocks[Last(path)].filled
  IN  IF Ends(d, first) /\ fill > 0
      THEN [ok |-> TRUE,
            bytes |-> FlattenSeq([n \in DOMAIN path |->
              BytesOf(path[n], IF n = Len(path) THEN fill ELSE BlockData)])]
      ELSE [ok |-> FALSE, bytes |-> <<>>]

\* A directory whose chain cannot be walked to its end is refused whole.
Opens(d)     == d.bam /\ d.directory # NoBlock
Lists(d)     == Opens(d) /\ Ends(d, d.directory)
Directory(d) ==
  LET path == Visited(d, d.directory)
  IN  FlattenSeq([n \in DOMAIN path |-> d.blocks[path[n]].entries])

\* A size is walked where the chain reads, and the count the directory records
\* where it does not; which of the two it is travels beside it.
Entry(d, e) ==
  LET chain == ReadChain(d, e.first)
  IN  [name |-> e.name,
       size |-> IF chain.ok THEN Len(chain.bytes) ELSE e.blocks * BlockData,
       readable |-> chain.ok]

Listing(d) == [n \in DOMAIN Directory(d) |-> Entry(d, Directory(d)[n])]

ReadFile(d, name) ==
  LET n == Names(Directory(d), name)
  IN  IF Lists(d) /\ n # 0 THEN ReadChain(d, Directory(d)[n].first)
      ELSE [ok |-> FALSE, bytes |-> <<>>]
=============================================================================
