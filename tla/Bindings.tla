------------------------------- MODULE Bindings -------------------------------
(***************************************************************************)
(* The objects a Python host holds below a session                         *)
(* (crates/remanence-py/src/lib.rs): media, partitions, spaces, files, the *)
(* sources taken out of them, and the rungs of a recording.                *)
(*                                                                         *)
(* An object over a medium shares the session and keeps names - the        *)
(* medium's identity, a partition's ordinal, a path - and resolves them    *)
(* again at every verb; what it said of itself when it was made it goes on *)
(* saying.  An object over a rung of its own shares the rung, whatever     *)
(* becomes of the medium.  A source or a discovery is taken once.  Session *)
(* and device objects are Handles'.                                        *)
(*                                                                         *)
(* Each medium and each opened flux image is given a life, which the code  *)
(* does not keep: it says what an object stood for.                        *)
(***************************************************************************)
EXTENDS Integers, Sequences, FiniteSets

CONSTANTS
  Arrivals,      \* what a load may bring: a family and the files it names
  MaxLives,      \* bound: media and flux images ever opened
  MaxObjects,    \* bound: objects held at once
  MaxTaken,      \* bound: sources and discoveries ever made
  MaxSessions,   \* bound: sessions the Session object has held
  MaxWrites      \* bound: writes of a file

VARIABLES
  pool,          \* the media of the session: identity -> life
  next,          \* the next identity
  session,       \* which session the Session object holds
  content,       \* what each life's medium holds now
  images,        \* the flux images not closed
  objects,       \* the objects held
  made,          \* sources and discoveries made
  taken,         \* those consumed
  loaded,        \* what each life was loaded from
  answer         \* the last verb and what it answered

vars == <<pool, next, session, content, images, objects, made, taken, loaded, answer>>

Lives == Len(content)

Said(verb, object, of, outcome, files) ==
  [verb |-> verb, object |-> object, of |-> of, outcome |-> outcome, files |-> files]

NoObject == [kind |-> "none", by |-> "none", at |-> 0, session |-> 0, life |-> 0,
             ordinal |-> 0, declared |-> "none", path |-> "none", facts |-> {}, n |-> 0]

Object(kind, by, at, life) ==
  [NoObject EXCEPT !.kind = kind, !.by = by, !.at = at, !.session = session, !.life = life]

Holding(new) == Cardinality(objects \cup new) <= MaxObjects /\ objects' = objects \cup new

Refused(verb, object, why) ==
  /\ answer' = Said(verb, object, 0, why, {})
  /\ UNCHANGED <<pool, next, session, content, images, objects, made, taken, loaded>>

Answered(verb, object, life) ==
  /\ answer' = Said(verb, object, life, "ok", {})
  /\ UNCHANGED <<pool, next, session, content, images, objects, made, taken, loaded>>

\* A verb that answers with an object.
Gives(verb, object, life, new) ==
  /\ Holding({new}) /\ answer' = Said(verb, object, life, "ok", {})
  /\ UNCHANGED <<pool, next, session, content, images, made, taken, loaded>>

-----------------------------------------------------------------------------
(* Resolution *)

\* What an object's names lead to now: nothing once the medium was released
\* or the image closed.  A rung that is the object's own is there.
Reach(o) ==
  CASE o.by = "medium" -> IF o.at \in DOMAIN pool THEN {pool[o.at]} ELSE {}
    [] o.by = "image"  -> images \cap {o.at}
    [] OTHER           -> {o.at}

Medium(id)  == Object("medium", "medium", id, pool[id])
Objects(kind) == {o \in objects : o.kind = kind}

\* A record layer is what its recording was recognized as.
Family(o, life) ==
  IF o.by # "layer" THEN content[life].family
  ELSE IF content[life].family = "cbm" THEN "blocks" ELSE "device"

\* The ordinals of a medium's pool, and what its partition there is.
Ordinals(family) == IF family = "table" THEN {1, 2} ELSE {0}
Facts(family, ordinal) ==
  {f \in {"names", "extent"} :
     CASE family = "dos"    -> TRUE
       [] family = "table"  -> ordinal = 1
       [] family = "zip"    -> f = "names"
       [] family = "device" -> f = "extent"
       [] OTHER             -> FALSE}

\* The vantage a verb is answered from: the reading the caller declared, else
\* the names, else the extent.  A layer's own names come with no extent.
OpenVantage(o, family) ==
  CASE o.declared = "cbmdos" -> IF family \in {"cbm", "blocks"} THEN {"names"} ELSE {}
    [] o.declared = "fat"    -> IF family = "device" THEN {"names"}
                                ELSE IF "extent" \in Facts(family, o.ordinal)
                                THEN {"names", "extent"} ELSE {}
    [] OTHER                 -> Facts(family, o.ordinal)

\* What a verb of a space or a file comes to: the life it is answered from, or
\* why it is refused - the medium, the partition, then what the vantage lacks.
WithFilesystem(o, wants) ==
  IF Reach(o) = {} THEN [life |-> 0, why |-> "released"]
  ELSE LET life    == CHOOSE l \in Reach(o) : TRUE
           family  == Family(o, life)
           vantage == OpenVantage(o, family)
       IN  CASE o.ordinal \notin Ordinals(family) -> [life |-> 0, why |-> "no-partition"]
             [] o.ordinal \in Ordinals(family) /\ wants \notin vantage ->
                  [life |-> 0, why |-> IF vantage = {} THEN "no-vantage" ELSE "absent"]
             [] OTHER -> [life |-> life, why |-> "ok"]

-----------------------------------------------------------------------------
(* What a load brings *)

\* What is authored is blank, and nothing else is.
Loads == {a \in Arrivals : a.family # "blank"}

\* A life of its own is in the pool and the host has its medium.
Admits(verb, from, arriving) ==
  \E arrival \in arriving :
    /\ Lives < MaxLives
    /\ content' = Append(content, arrival)
    /\ loaded' = Append(loaded, from)
    /\ pool' = [id \in DOMAIN pool \cup {next} |-> IF id = next THEN Lives + 1 ELSE pool[id]]
    /\ next' = next + 1
    /\ Holding({Object("medium", "medium", next, Lives + 1)})
    /\ answer' = Said(verb, NoObject, Lives + 1, "ok", {})
    /\ UNCHANGED <<session, images, made>>

RefusedHaving(verb) ==
  /\ answer' = Said(verb, NoObject, 0, "refused", {})
  /\ UNCHANGED <<pool, next, session, content, images, objects, made, loaded>>

\* The host's file is duplicated, and its own stays its own.
OpenedFile == [NoObject EXCEPT !.kind = "opened"]

IsSource(member) == member.kind = "source"

\* The members before the first that cannot be taken: no source, or consumed.
Takeable(list, at) ==
  IsSource(list[at]) /\ list[at].n \notin taken \cup {list[k].n : k \in 1 .. at - 1}
Stop(list) ==
  LET good == {n \in 0 .. Len(list) : \A at \in 1 .. n : Takeable(list, at)}
  IN  CHOOSE n \in good : \A k \in good : k <= n

\* Each source is taken as it is come to; a member of the other kind refuses
\* the load, and what was taken before it is gone.
MediaSource(list) ==
  IF list # <<>> /\ IsSource(list[1])
  THEN [takes |-> {list[at].n : at \in 1 .. Stop(list)}, whole |-> Stop(list) = Len(list)]
  ELSE [takes |-> {}, whole |-> \A at \in DOMAIN list : ~IsSource(list[at])]

\* What is declared is looked at before the source is touched.
LoadMedia ==
  \/ RefusedHaving("load_media") /\ UNCHANGED taken
  \/ LET some  == Objects("source")
         given == {<<OpenedFile>>} \cup {<<m>> : m \in some} \cup (some \X some)
                   \cup ({OpenedFile} \X some) \cup (some \X {OpenedFile})
     IN  \E list \in given :
           LET source == MediaSource([at \in DOMAIN list |-> list[at]]) IN
           /\ taken' = taken \cup source.takes
           /\ \/ source.whole /\ Admits("load_media", source.takes, Loads)
              \/ source.takes # {} /\ RefusedHaving("load_media")

\* Mutant of LoadDiscovery: a discovery that was loaded is still there.
LoadDiscoveryAgain ==
  \E d \in Objects("discovery") :
    IF d.n \in taken THEN Refused("load_discovery", d, "consumed")
    ELSE \/ UNCHANGED taken /\ Admits("load_discovery", {d.n}, Loads)
         \/ taken' = taken \cup {d.n} /\ RefusedHaving("load_discovery")

\* The discovery is taken before the session is asked.
LoadDiscovery ==
  \E d \in Objects("discovery") :
    IF d.n \in taken THEN Refused("load_discovery", d, "consumed")
    ELSE /\ taken' = taken \cup {d.n}
         /\ Admits("load_discovery", {d.n}, Loads) \/ RefusedHaving("load_discovery")

NewMedia ==
  /\ UNCHANGED taken
  /\ Admits("new_media", {}, Arrivals \ Loads) \/ RefusedHaving("new_media")

AskMedium ==
  \E id \in DOMAIN pool \cup {next} :
    IF id \notin DOMAIN pool THEN Refused("medium", NoObject, "none")
    ELSE Gives("medium", NoObject, pool[id], Medium(id))

\* Mutant of ReleaseMedia: the last identity is given out again.
ReleaseMediaFreesIdentity ==
  \E id \in DOMAIN pool :
    /\ pool' = [k \in DOMAIN pool \ {id} |-> pool[k]]
    /\ next' = IF id + 1 = next THEN id ELSE next
    /\ answer' = Said("release_media", NoObject, pool[id], "ok", {})
    /\ UNCHANGED <<session, content, images, objects, made, taken, loaded>>

ReleaseMedia ==
  \E id \in DOMAIN pool :
    /\ pool' = [k \in DOMAIN pool \ {id} |-> pool[k]]
    /\ answer' = Said("release_media", NoObject, pool[id], "ok", {})
    /\ UNCHANGED <<next, session, content, images, objects, made, taken, loaded>>

\* The Session object takes a new session, under the objects that share it.
Exit ==
  /\ session < MaxSessions /\ session' = session + 1
  /\ pool' = [id \in {} |-> 0] /\ next' = 0
  /\ answer' = Said("__exit__", NoObject, 0, "ok", {})
  /\ UNCHANGED <<content, images, objects, made, taken, loaded>>

-----------------------------------------------------------------------------
(* A source and a discovery: held, then taken *)

\* A free-standing thing taken out of a medium, or found at a path.
Minted(kind, verb, o, life) ==
  /\ made < MaxTaken /\ made' = made + 1
  /\ Holding({[NoObject EXCEPT !.kind = kind, !.by = "own", !.life = life, !.n = made + 1]})
  /\ answer' = Said(verb, o, life, "ok", {})
  /\ UNCHANGED <<pool, next, session, content, images, taken, loaded>>

DiscoverMedia == Minted("discovery", "discover_media", NoObject, 0)

DiscoveryReads ==
  \E d \in Objects("discovery") :
    IF d.n \in taken THEN Refused("discovery", d, "consumed") ELSE Answered("discovery", d, d.life)

FileSourceReads ==
  \E s \in Objects("source") :
    IF s.n \in taken THEN Refused("source", s, "consumed") ELSE Answered("source", s, s.life)

-----------------------------------------------------------------------------
(* A medium, its partitions, and their doors *)

\* Its facts, its bytes, its reports and its sectors.
MediumReads ==
  \E m \in Objects("medium") :
    IF Reach(m) = {} THEN Refused("read", m, "released")
    ELSE \E life \in Reach(m) : Answered("read", m, life)

PartitionRecord(o, by, at, life, ordinal, family) ==
  [Object("partition", by, at, life) EXCEPT !.ordinal = ordinal, !.facts = Facts(family, ordinal),
                                            !.session = o.session]

Partition ==
  \E m \in Objects("medium"), ordinal \in 0 .. 2 :
    IF Reach(m) = {} THEN Refused("partition", m, "released")
    ELSE \E life \in Reach(m) :
           LET family == content[life].family IN
           IF ordinal \notin Ordinals(family) THEN Refused("partition", m, "none")
           ELSE Gives("partition", m, life, PartitionRecord(m, "medium", m.at, life, ordinal, family))

\* The space names what its partition does, and says of itself what it says now.
ComposedOf(p, declared, facts) ==
  [p EXCEPT !.kind = "space", !.declared = declared, !.facts = facts]

\* A door that is not there is an answer.  Over a record layer the addressable
\* door has nothing to compose its space over.
Doors ==
  \E p \in Objects("partition"), door \in {"volume", "filesystem", "cbmdos", "fat"} :
    IF Reach(p) = {} THEN Refused(door, p, "released")
    ELSE \E life \in Reach(p) :
      LET family  == Family(p, life)
          facts   == Facts(family, p.ordinal)
          declared == OpenVantage([p EXCEPT !.declared = door], family)
      IN  CASE p.ordinal \notin Ordinals(family) -> Refused(door, p, "no-partition")
            [] p.ordinal \in Ordinals(family) /\ door \in {"volume", "filesystem"} ->
                 IF (IF door = "volume" THEN "extent" ELSE "names") \notin facts
                 THEN Answered(door, p, life)
                 ELSE IF family = "device" THEN Refused(door, p, "panic")
                 ELSE Gives(door, p, life, ComposedOf(p, "none", facts))
            [] OTHER ->
                 IF declared = {} THEN Refused(door, p, "not-recognized")
                 ELSE Gives(door, p, life, ComposedOf(p, door, declared))

\* Onto a blank article, and nothing else: its pool is established again.
RecordAs ==
  \E p \in Objects("partition") :
    IF Reach(p) = {} THEN Refused("record_as", p, "released")
    ELSE \E life \in Reach(p) :
      IF Family(p, life) # "blank" \/ p.ordinal # 0 THEN Refused("record_as", p, "refused")
      ELSE /\ content' = [content EXCEPT ![life] = [family |-> "dos", files |-> {}]]
           /\ answer' = Said("record_as", p, life, "ok", {})
           /\ UNCHANGED <<pool, next, session, images, objects, made, taken, loaded>>

-----------------------------------------------------------------------------
(* A space and its files *)

\* A verb that answers with what the medium's files are.
Shows(verb, o, life, files) ==
  /\ answer' = Said(verb, o, life, "ok", files)
  /\ UNCHANGED <<pool, next, session, content, images, objects, made, taken, loaded>>

\* entries, stat, read_file, label, evidence.
SpaceReads ==
  \E s \in Objects("space") :
    LET names == WithFilesystem(s, "names") IN
    IF names.why # "ok" THEN Refused("entries", s, names.why)
    ELSE Shows("entries", s, names.life, content[names.life].files)

SpaceReadAt ==
  \E s \in Objects("space") :
    LET bytes == WithFilesystem(s, "extent") IN
    IF bytes.why # "ok" THEN Refused("read_at", s, bytes.why)
    ELSE Answered("read_at", s, bytes.life)

\* A file of the namespace as it is now: its path, and its entry kept.
FileOf(s, file) == [s EXCEPT !.kind = "file", !.path = file[1], !.n = file[2]]

At(life, path) == {f \in content[life].files : f[1] = path}

GetFile ==
  \E s \in Objects("space"), path \in {"F", "G"} :
    LET names == WithFilesystem(s, "names") IN
    IF names.why # "ok" THEN Refused("get_file", s, names.why)
    ELSE IF At(names.life, path) = {} THEN Refused("get_file", s, "not-found")
    ELSE Gives("get_file", s, names.life, FileOf(s, CHOOSE f \in At(names.life, path) : TRUE))

\* A write by name, in place or of a size, where the volume is a disk's.
Writes(verb, o, path, life) ==
  LET old == At(life, path)
      now == IF old = {} THEN 1 ELSE (CHOOSE f \in old : TRUE)[2] + 1
  IN  IF content[life].family \notin {"dos", "table"} THEN Refused(verb, o, "not-writable")
      ELSE /\ now <= MaxWrites + 1
           /\ content' = [content EXCEPT ![life].files = (@ \ old) \cup {<<path, now>>}]
           /\ answer' = Said(verb, o, life, "ok", {})
           /\ UNCHANGED <<pool, next, session, images, objects, made, taken, loaded>>

SpaceWrites ==
  \E s \in Objects("space") :
    LET names == WithFilesystem(s, "names") IN
    IF names.why # "ok" THEN Refused("write_file", s, names.why)
    ELSE Writes("write_file", s, "F", names.life)

\* A file's verbs ask the namespace for its path again.
WithFile(f) ==
  LET names == WithFilesystem(f, "names") IN
  IF names.why = "ok" /\ At(names.life, f.path) = {}
  THEN [life |-> 0, why |-> "not-found"] ELSE names

FileReads ==
  \E f \in Objects("file") :
    LET named == WithFile(f) IN
    IF named.why # "ok" THEN Refused("bytes", f, named.why)
    ELSE Shows("bytes", f, named.life, At(named.life, f.path))

FileWrites ==
  \E f \in Objects("file") :
    LET named == WithFile(f) IN
    IF named.why # "ok" THEN Refused("write_at", f, named.why)
    ELSE Writes("write_at", f, f.path, named.life)

\* A source rides the archive's claim; the medium may go.
FileTaken ==
  \E f \in Objects("file"), kind \in {"source", "discovery"} :
    LET named == WithFile(f) IN
    IF named.why # "ok" THEN Refused(kind, f, named.why)
    ELSE IF content[named.life].family # "zip" THEN Refused(kind, f, "no-archive")
    ELSE Minted(kind, kind, f, named.life)

-----------------------------------------------------------------------------
(* The rungs of a recording *)

IsFlux(life) == content[life].family \in {"cbm", "ibm"}

Rung(kind, o, by, at, life) == [Object(kind, by, at, life) EXCEPT !.session = o.session]

\* A medium's streams are its own, and their objects share the session.
MediumStreams ==
  \E m \in Objects("medium"), rung \in {"bitstream", "bytestream"} :
    IF Reach(m) = {} THEN Refused(rung, m, "released")
    ELSE \E life \in Reach(m) :
           IF ~IsFlux(life) THEN Refused(rung, m, "not-flux")
           ELSE Gives(rung, m, life, Rung(rung, m, "medium", m.at, life))

StreamReads ==
  \E s \in Objects("bitstream") \cup Objects("bytestream") :
    IF Reach(s) = {} THEN Refused("stream", s, "released")
    ELSE \E life \in Reach(s) :
           IF ~IsFlux(life) THEN Refused("stream", s, "not-flux") ELSE Answered("stream", s, life)

\* What is materialized is the object's own.
Materialize ==
  \E s \in Objects("bitstream") :
    IF Reach(s) = {} THEN Refused("materialize", s, "released")
    ELSE \E life \in Reach(s) :
           IF ~IsFlux(life) THEN Refused("materialize", s, "not-flux")
           ELSE Gives("materialize", s, life, Rung("bytestream", s, "own", life, life))

\* The records are recognized whole, and then asked whether they are of the
\* family wanted.
Recognize ==
  \E s \in Objects("bytestream"), family \in {"cbm", "ibm"} :
    IF Reach(s) = {} THEN Refused("recognize", s, "released")
    ELSE \E life \in Reach(s) :
           IF content[life].family # family THEN Refused("recognize", s, "not-" \o family)
           ELSE Gives("recognize", s, life, Rung("sectors", s, "layer", life, life))

SectorsRead == \E s \in Objects("sectors") : Answered("read_sector", s, s.at)

\* The layer's direct partition shares the layer.
SectorsPartition ==
  \E s \in Objects("sectors") :
    Gives("sectors_partition", s, s.at,
          PartitionRecord(s, "layer", s.at, s.at, 0, Family(s, s.at)))

OpenFlux ==
  \E arrival \in {a \in Arrivals : a.family \in {"cbm", "ibm"}} :
    /\ Lives < MaxLives
    /\ content' = Append(content, arrival) /\ loaded' = Append(loaded, {})
    /\ images' = images \cup {Lives + 1}
    /\ Holding({Object("image", "image", Lives + 1, Lives + 1)})
    /\ answer' = Said("FluxImage", NoObject, Lives + 1, "ok", {})
    /\ UNCHANGED <<pool, next, session, made, taken>>

\* Its facts and its renditions; what it said when it was opened it goes on saying.
FluxReads ==
  \E i \in Objects("image") :
    IF Reach(i) = {} THEN Refused("image", i, "closed") ELSE Answered("image", i, i.at)

FluxBitstream ==
  \E i \in Objects("image") :
    IF Reach(i) = {} THEN Refused("materialize_bitstream", i, "closed")
    ELSE Gives("materialize_bitstream", i, i.at, Rung("bitstream", i, "own", i.at, i.at))

CloseFlux ==
  \E i \in Objects("image") :
    /\ images' = images \ {i.at}
    /\ answer' = Said("close", i, 0, "ok", {})
    /\ UNCHANGED <<pool, next, session, content, objects, made, taken, loaded>>

\* The host lets go of an object.
Forget ==
  \E o \in objects :
    /\ objects' = objects \ {o}
    /\ answer' = Said("del", o, 0, "ok", {})
    /\ UNCHANGED <<pool, next, session, content, images, made, taken, loaded>>

-----------------------------------------------------------------------------

BindingsInit ==
  /\ pool = [id \in {} |-> 0] /\ next = 0 /\ session = 1 /\ content = <<>> /\ images = {}
  /\ objects = {} /\ made = 0 /\ taken = {} /\ loaded = <<>>
  /\ answer = Said("none", NoObject, 0, "ok", {})

Media    == LoadMedia \/ LoadDiscovery \/ NewMedia \/ AskMedium \/ ReleaseMedia \/ Exit
Sources  == DiscoverMedia \/ DiscoveryReads \/ FileSourceReads
Spaces   == MediumReads \/ Partition \/ Doors \/ RecordAs \/ SpaceReads \/ SpaceReadAt \/ SpaceWrites
Files    == GetFile \/ FileReads \/ FileWrites \/ FileTaken
Rungs    == MediumStreams \/ StreamReads \/ Materialize \/ Recognize \/ SectorsRead \/ SectorsPartition
Flux     == OpenFlux \/ FluxReads \/ FluxBitstream \/ CloseFlux

BindingsNext == Media \/ Sources \/ Spaces \/ Files \/ Rungs \/ Flux \/ Forget

BindingsSpec == BindingsInit /\ [][BindingsNext]_vars

-----------------------------------------------------------------------------
(* Properties *)

Verb == answer' # answer
Of   == answer'.object

\* For as long as the Session object holds the session an object was made in,
\* whatever it answers it answers of the medium it was made over.
AnswersForItsOwn ==
  Of.session = session /\ Of # NoObject => answer'.of \in {0, Of.life}

\* "The direct partition over a recording's own record layer re-resolves from
\* that layer" (lib.rs:2417): a rung that is an object's own answers whatever
\* became of the medium, the image or the session.
RungsStandAlone ==
  Of.by \in {"own", "layer"} => answer'.outcome \notin {"released", "closed", "no-partition"}

\* What is answered is of the medium as it is at the call: a space composed
\* before a recording, or before a write by another object, tells what is there
\* now, and refuses only what is not there now.
AnswersAreOfNow ==
  /\ answer'.of # 0 /\ answer'.verb = "entries" => answer'.files = content'[answer'.of].files
  /\ answer'.of # 0 /\ answer'.verb = "bytes" =>
       answer'.files # {} /\ answer'.files \subseteq content'[answer'.of].files
  /\ (answer'.verb = "entries" /\ Of.declared = "none"
        /\ answer'.outcome \in {"absent", "no-vantage"}) =>
       \A life \in Reach(Of) : content[life].family \notin {"dos", "zip"}

AnswersAreTrue ==
  [][Verb => AnswersForItsOwn /\ RungsStandAlone /\ AnswersAreOfNow]_vars

\* A source or a discovery loads one medium at most, and is consumed by it.
TakenOnce ==
  /\ \A k, l \in 1 .. Lives : loaded[k] \cap loaded[l] # {} => k = l
  /\ \A l \in 1 .. Lives : loaded[l] \subseteq taken
=============================================================================
