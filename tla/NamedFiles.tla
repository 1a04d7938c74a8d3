----------------------------- MODULE NamedFiles -----------------------------
(***************************************************************************)
(* What a filesystem's namespace promises (crates/remanence/src/           *)
(* filesystem/fat.rs, the file verbs): a tree of names, each nothing, a    *)
(* directory, a file of bytes or a broken file no call may write, and one  *)
(* label.  A call changes the one name it is about, and missing parents    *)
(* where it says so; it is refused or it happens whole.  No cluster,       *)
(* chain, slot or table is here.                                           *)
(***************************************************************************)
EXTENDS Integers, Sequences

CONSTANTS
  Paths,    \* the paths, as sequences of names
  Slack     \* bytes stored together: the granule a file's end stands in

VARIABLES
  tree,     \* what each path names
  label,      \* the volume's label
  formatted,  \* the label the format gave, which shows through without one
  call      \* the last call: what was asked, of which path, and whether it
            \* was accepted

Nothing == [kind |-> "none", bytes |-> <<>>]
Folder  == [kind |-> "directory", bytes |-> <<>>]
File(b) == [kind |-> "file", bytes |-> b]

Parent(p)    == SubSeq(p, 1, Len(p) - 1)
HasParent(p) == Len(p) = 1 \/ tree[Parent(p)].kind = "directory"
MayBeFile(p) == HasParent(p) /\ tree[p].kind \in {"none", "file"}

\* p comes to name the file b, and nothing else changes.
Becomes(p, b) ==
  /\ tree' = [tree EXCEPT ![p] = File(b)]
  /\ UNCHANGED label

Write(p, b) == MayBeFile(p) /\ Becomes(p, b)

\* The span is overwritten in place; the size stays.
WriteAt(p, at, b) ==
  LET old == tree[p].bytes
  IN  /\ tree[p].kind = "file" /\ at + Len(b) <= Len(old)
      /\ Becomes(p, [n \in 1 .. Len(old) |->
                       IF n \in at + 1 .. at + Len(b) THEN b[n - at] ELSE old[n]])

\* The kept prefix is preserved and a grown region reads as zeros - save that
\* nothing is said here of the rest of the granule the old end stood in, when
\* the new end stays in it.
Keeps(old, new) ==
  \A n \in 1 .. Len(new) :
    IF n <= Len(old) THEN new[n] = old[n]
    ELSE new[n] = 0 \/ (Len(new) - 1) \div Slack = (Len(old) - 1) \div Slack

Resize(p, size) ==
  LET new == tree'[p].bytes
  IN  /\ MayBeFile(p)
      /\ Len(new) = size /\ Keeps(tree[p].bytes, new)
      /\ Becomes(p, new)

MakeDirectory(p) ==
  LET made == {SubSeq(p, 1, n) : n \in 1 .. Len(p)}
  IN  /\ \A q \in made : tree[q].kind \in {"none", "directory"}
      /\ tree' = [q \in Paths |-> IF q \in made THEN Folder ELSE tree[q]]
      /\ UNCHANGED label

\* A read answers what the file holds; of a broken file, nothing.
ReadAt(p, at, b) ==
  /\ \/ tree[p].kind = "file" /\ at + Len(b) <= Len(tree[p].bytes)
     \/ tree[p].kind = "broken" /\ b = <<>>
  /\ b = SubSeq(tree[p].bytes, at + 1, at + Len(b))
  /\ UNCHANGED <<tree, label>>

SetLabel(l)  == label' = l /\ UNCHANGED tree
RemoveLabel  == label' = formatted /\ UNCHANGED tree

Happens(c) ==
  CASE c.verb = "write"   -> Write(c.path, c.bytes)
    [] c.verb = "writeAt" -> WriteAt(c.path, c.at, c.bytes)
    [] c.verb = "resize"  -> Resize(c.path, c.at)
    [] c.verb = "mkdir"   -> MakeDirectory(c.path)
    [] c.verb = "readAt"  -> ReadAt(c.path, c.at, c.bytes)
    [] c.verb = "label"   -> SetLabel(c.path)
    [] c.verb = "unlabel" -> RemoveLabel

Next ==
  /\ IF call'.accepted THEN Happens(call') ELSE UNCHANGED <<tree, label>>
  /\ UNCHANGED formatted

\* A tree has no name beneath a file or beneath nothing.
Init == \A p \in Paths : tree[p].kind # "none" => HasParent(p)

Spec == Init /\ [][Next]_<<tree, label, formatted, call>>
=============================================================================
