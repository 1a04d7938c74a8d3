---------------------------- MODULE BufferedDisk ----------------------------
(***************************************************************************)
(* What a buffer over a disk promises (ARCHITECTURE.md, P2), a session's   *)
(* cache or an image-format driver with an open batch of writes: a read    *)
(* sees the writes made, the disk changes at a commit and then to exactly  *)
(* what reads saw, and a rollback, or a batch that does not land, forgets  *)
(* the writes.  Nothing here is bounded, mapped, allocated, evicted,       *)
(* spilled, speculated or refused.                                         *)
(***************************************************************************)
CONSTANTS Places, Contents

VARIABLES
  view,    \* what a read of each place returns
  saved    \* what it returned when the last commit landed

Init ==
  /\ saved \in [Places -> Contents]
  /\ view = saved

Write(e, c) ==
  /\ view' = [view EXCEPT ![e] = c]
  /\ UNCHANGED saved

Commit ==
  /\ saved' = view
  /\ UNCHANGED view

Rollback ==
  /\ view' = saved
  /\ UNCHANGED saved

Next == (\E e \in Places, c \in Contents : Write(e, c)) \/ Commit \/ Rollback

Spec == Init /\ [][Next]_<<view, saved>>
=============================================================================
