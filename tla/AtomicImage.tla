----------------------------- MODULE AtomicImage -----------------------------
(***************************************************************************)
(* What the durable commit promises (commit.rs, "Interruption never        *)
(* invents a third state"): an image is always one of the whole contents   *)
(* proposed since the last acknowledged commit, and acknowledging settles  *)
(* it.  There is no journal here, no order of writes and no crash: a step  *)
(* of this module is everything a reader of the reopened image can see.    *)
(***************************************************************************)
CONSTANT Content

VARIABLES
  content,     \* what an open after an interruption now would expose
  candidates   \* the contents it may be

Init ==
  /\ content \in Content
  /\ candidates = {content}

\* A commit starts: one more whole content becomes possible.
Propose(t) ==
  /\ candidates' = candidates \cup {t}
  /\ UNCHANGED content

\* A commit lands, or is undone, in one step.
Land ==
  /\ content' \in candidates
  /\ UNCHANGED candidates

\* The commit is acknowledged, or an open has shown the content.
Settle ==
  /\ candidates' = {content}
  /\ UNCHANGED content

Next == (\E t \in Content : Propose(t)) \/ Land \/ Settle

Spec == Init /\ [][Next]_<<content, candidates>>

\* The promise as an invariant: nothing but a candidate is ever exposed.
Whole == content \in candidates
=============================================================================
