------------------------------ MODULE RawPlane ------------------------------
(***************************************************************************)
(* The raw plane of a block medium (crates/remanence/src/io/source.rs, and *)
(* the reads of io/cache.rs it makes): the image's own bytes, read through *)
(* a session cache of its own, with a worker that reads ahead of the host  *)
(* outside the cache's lock.  The presented plane commits to the same file *)
(* and does not pass this cache.                                           *)
(*                                                                         *)
(* An extent is abstracted to one value.  Nothing writes to this cache, so *)
(* every resident extent is clean and nothing spills.                      *)
(***************************************************************************)
EXTENDS Integers, Sequences, SequencesExt, FiniteSets

CONSTANTS
  NExtents,     \* extents of the image: the length the source was opened at
  Vals,         \* what an extent may hold
  Bound,        \* extents the cache holds
  Depth,        \* extents read ahead of a sequential demand (8 in the code)
  MaxReads,     \* bound: reads the host makes
  MaxCommits    \* bound: commits

VARIABLES
  file,         \* the image
  resident,     \* the cached extents: extent -> value
  recency,      \* the cached extents, least recently used first
  demands,      \* the channel from the host to the worker
  sending,      \* whether the channel's sending end is open
  worker,       \* the worker: where it is, the demand it serves, what it read
  host,         \* what the host is doing: idle, committing, dropping, gone
  todo,         \* the extents a commit still writes
  answer,       \* the last read: the extents asked and what was answered
  reads, commits

planeVars == <<file, resident, recency, demands, sending, worker, host, todo,
               answer, reads, commits>>
hostVars  == <<host, todo, answer, reads, commits>>

ASSUME PlaneAssumption == NExtents \in Nat \ {0} /\ Bound \in Nat \ {0} /\ Depth \in Nat

RawExtents == 0 .. NExtents - 1
None == -1

-----------------------------------------------------------------------------
(* The cache *)

\* Room for one more: the least recently used extent leaves a full cache.
Victim(c) == IF Cardinality(DOMAIN c.held) < Bound THEN None ELSE Head(c.order)

PutLast(s, e) == LET n == CHOOSE i \in DOMAIN s : s[i] = e IN Append(RemoveAt(s, n), e)
Touched(c, e) == [c EXCEPT !.order = PutLast(c.order, e)]

Installed(c, e, v) ==
  LET kept == DOMAIN c.held \ {Victim(c)}
  IN  [held  |-> [x \in kept \cup {e} |-> IF x = e THEN v ELSE c.held[x]],
       order |-> Append(IF Victim(c) = None THEN c.order ELSE Tail(c.order), e)]

Cache == [held |-> resident, order |-> recency]
Becomes(c) == resident' = c.held /\ recency' = c.order

\* One extent of a read: served where it is held, loaded where it is not.
Served(c, e) == IF e \in DOMAIN c.held THEN Touched(c, e) ELSE Installed(c, e, file[e])

\* The read's extents in order, each answered as it stands when it is served.
Further(r, e) ==
  LET after == Served(r.cache, e)
  IN  [cache |-> after, got |-> Append(r.got, after.held[e])]

ReadThrough(first, last) ==
  LET Step[e \in first - 1 .. last] ==
        IF e < first THEN [cache |-> Cache, got |-> <<>>] ELSE Further(Step[e - 1], e)
  IN  Step[last]

-----------------------------------------------------------------------------
(* The host *)

\* read_at: under the cache's lock from the first extent to the last, then the
\* last extent is sent to the worker.
Read(first, last) ==
  /\ host = "idle" /\ reads < MaxReads
  /\ LET r == ReadThrough(first, last)
     IN  /\ Becomes(r.cache)
         /\ answer' = [first |-> first, got |-> r.got]
  /\ demands' = Append(demands, last)
  /\ reads' = reads + 1
  /\ UNCHANGED <<file, sending, worker, host, todo, commits>>

\* A later extent cannot be read: the earlier ones stay cached, the call is an
\* error and no demand is sent.
ReadFails(first, last) ==
  /\ host = "idle" /\ reads < MaxReads
  /\ first < last /\ last \notin DOMAIN ReadThrough(first, last - 1).cache.held
  /\ Becomes(ReadThrough(first, last - 1).cache)
  /\ reads' = reads + 1
  /\ UNCHANGED <<file, demands, sending, worker, host, todo, answer, commits>>

\* A commit of the presented plane writes its extents to the file one by one.
CommitStarts(E) ==
  /\ host = "idle" /\ commits < MaxCommits /\ E # {}
  /\ host' = "committing" /\ todo' = E /\ commits' = commits + 1
  /\ UNCHANGED <<file, resident, recency, demands, sending, worker, answer, reads>>

Apply(e, v) ==
  /\ host = "committing" /\ e \in todo
  /\ file' = [file EXCEPT ![e] = v]
  /\ todo' = todo \ {e}
  /\ host' = IF todo' = {} THEN "idle" ELSE "committing"
  /\ UNCHANGED <<resident, recency, demands, sending, worker, answer, reads, commits>>

\* Mutant of DropPlane: the sending end is still held while joining.
DropPlaneKeepsSending ==
  /\ host = "idle"
  /\ host' = "dropping"
  /\ UNCHANGED <<file, resident, recency, demands, sending, worker, todo, answer, reads,
                 commits>>

\* Drop: the sending end is replaced, so that the worker meets a closed
\* channel, and then the worker is joined.
DropPlane ==
  /\ host = "idle"
  /\ host' = "dropping" /\ sending' = FALSE
  /\ UNCHANGED <<file, resident, recency, demands, worker, todo, answer, reads, commits>>

Joined ==
  /\ host = "dropping" /\ worker.at = "ended"
  /\ host' = "gone"
  /\ UNCHANGED <<file, resident, recency, demands, sending, worker, todo, answer, reads, commits>>

-----------------------------------------------------------------------------
(* The predictive reader *)

Waiting == [worker EXCEPT !.at = "recv", !.extent = None, !.ahead = 0, !.data = None]

\* Every demand waiting is received and the latest one counts; only the one
\* that follows the demand before it is read ahead of.
Receive ==
  /\ worker.at = "recv" /\ demands # <<>>
  /\ LET extent == Last(demands)
         sequential == worker.previous # None /\ extent = worker.previous + 1
     IN  worker' = IF sequential
                   THEN [worker EXCEPT !.at = "look", !.extent = extent,
                                       !.ahead = 1, !.previous = extent]
                   ELSE [worker EXCEPT !.previous = extent]
  /\ demands' = <<>>
  /\ UNCHANGED <<file, resident, recency, sending, hostVars>>

ChannelClosed ==
  /\ worker.at = "recv" /\ demands = <<>> /\ ~sending
  /\ worker' = [worker EXCEPT !.at = "ended"]
  /\ UNCHANGED <<file, resident, recency, demands, sending, hostVars>>

Target == worker.extent + worker.ahead

\* Under the lock: is the next extent held already?
Look ==
  /\ worker.at = "look"
  /\ worker' = IF worker.ahead > Depth \/ Target >= NExtents THEN Waiting
               ELSE IF Target \in DOMAIN resident
               THEN [worker EXCEPT !.ahead = @ + 1]
               ELSE [worker EXCEPT !.at = "read"]
  /\ UNCHANGED <<file, resident, recency, demands, sending, hostVars>>

\* With no lock held.  A failure is silent and ends this run.
ReadAhead ==
  /\ worker.at = "read"
  /\ \/ worker' = [worker EXCEPT !.at = "insert", !.data = file[Target]]
     \/ worker' = Waiting
  /\ UNCHANGED <<file, resident, recency, demands, sending, hostVars>>

\* Mutant of InsertPrefetched: the bytes go in at the extent demanded.
InsertPrefetchedAtDemand ==
  /\ worker.at = "insert"
  /\ Becomes(Installed(Cache, worker.extent, worker.data))
  /\ worker' = [worker EXCEPT !.at = "look", !.ahead = @ + 1, !.data = None]
  /\ UNCHANGED <<file, demands, sending, hostVars>>

\* Under the lock again: what the host loaded meanwhile is kept.
InsertPrefetched ==
  /\ worker.at = "insert"
  /\ IF Target \in DOMAIN resident THEN UNCHANGED <<resident, recency>>
     ELSE Becomes(Installed(Cache, Target, worker.data))
  /\ worker' = [worker EXCEPT !.at = "look", !.ahead = @ + 1, !.data = None]
  /\ UNCHANGED <<file, demands, sending, hostVars>>

-----------------------------------------------------------------------------

PlaneInit ==
  /\ file \in [RawExtents -> Vals]
  /\ resident = [x \in {} |-> None] /\ recency = <<>>
  /\ demands = <<>> /\ sending = TRUE
  /\ worker = [at |-> "recv", extent |-> None, ahead |-> 0, previous |-> None, data |-> None]
  /\ host = "idle" /\ todo = {} /\ answer = [first |-> 0, got |-> <<>>]
  /\ reads = 0 /\ commits = 0

Host ==
  \/ \E first, last \in RawExtents : first <= last /\ (Read(first, last) \/ ReadFails(first, last))
  \/ \E E \in SUBSET RawExtents : CommitStarts(E)
  \/ \E e \in RawExtents, v \in Vals : Apply(e, v)
  \/ DropPlane

Reader == Receive \/ ChannelClosed \/ Look \/ ReadAhead \/ InsertPrefetched

PlaneNext == Host \/ Joined \/ Reader

\* The worker is a thread of its own and the join waits for it.
PlaneFair == WF_planeVars(Reader) /\ WF_planeVars(Joined)
PlaneSpec == PlaneInit /\ [][PlaneNext]_planeVars /\ PlaneFair

-----------------------------------------------------------------------------
(* Properties *)

\* Until something is committed, the plane holds and answers the image's own
\* bytes whatever the worker was reading when, in no more room than the bound.
PlaneIsTheImage ==
  /\ Cardinality(DOMAIN resident) <= Bound
  /\ ToSet(recency) = DOMAIN resident
  /\ commits = 0 =>
       /\ \A e \in DOMAIN resident : resident[e] = file[e]
       /\ \A n \in DOMAIN answer.got : answer.got[n] = file[answer.first + n - 1]

\* Dropping the medium returns: the worker meets the closed channel and is
\* joined, whatever it was doing and however many demands were waiting.
DropReturns == host = "dropping" ~> host = "gone"

\* "Reads buf from the resolved image at offset - the medium's own bytes"
\* (media.rs:810): a read answers what the image holds.
RawReadsTheImage ==
  [][answer' # answer =>
       \A n \in DOMAIN answer'.got : answer'.got[n] = file[answer'.first + n - 1]]_planeVars

-----------------------------------------------------------------------------
(* The inductive invariant behind PlaneIsTheImage *)

\* A cache: what it holds is what is in the order, once, and within the bound;
\* and, while nothing was committed, it is what the image holds.
CacheOK(c) ==
  /\ c = [held |-> c.held, order |-> c.order]
  /\ c.held \in [DOMAIN c.held -> Vals] /\ DOMAIN c.held \subseteq RawExtents
  /\ c.order \in Seq(DOMAIN c.held) /\ \A e \in DOMAIN c.held : \E n \in DOMAIN c.order : c.order[n] = e
  /\ \A m, n \in DOMAIN c.order : c.order[m] = c.order[n] => m = n
  /\ Cardinality(DOMAIN c.held) <= Bound
  /\ commits = 0 => \A e \in DOMAIN c.held : c.held[e] = file[e]

\* The worker stands at an extent of the image, and what it read is the image's
\* while nothing was committed.
WorkerOK ==
  /\ worker \in [at : {"recv", "look", "read", "insert", "ended"}, extent : RawExtents \cup {None},
                 ahead : Nat, previous : RawExtents \cup {None}, data : Vals \cup {None}]
  /\ worker.at \in {"look", "read", "insert"} => worker.extent \in RawExtents
  /\ worker.at \in {"read", "insert"} => Target \in RawExtents
  /\ worker.at = "insert" => worker.data \in Vals /\ (commits = 0 => worker.data = file[Target])

AnswerOK ==
  /\ answer.got \in Seq(Vals)
  /\ commits = 0 => \A n \in DOMAIN answer.got : answer.got[n] = file[answer.first + n - 1]

PlaneIInv ==
  /\ file \in [RawExtents -> Vals] /\ demands \in Seq(RawExtents) /\ commits \in Nat
  /\ todo \subseteq RawExtents /\ (host = "committing" => commits # 0)
  /\ CacheOK(Cache) /\ WorkerOK /\ AnswerOK
=============================================================================
