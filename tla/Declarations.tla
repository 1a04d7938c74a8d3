---------------------------- MODULE Declarations ----------------------------
(***************************************************************************)
(* What this release claims: the articles a medium is (media_profile.rs),  *)
(* the device types that record one (device_type.rs), the formats a load   *)
(* declares (media.rs), the blanks and layouts an author makes             *)
(* (authored.rs, recording.rs), and how an artifact becomes a medium: by   *)
(* a declaration, or by what the image adapters find in it                 *)
(* (adapters.rs, recognition.rs, disk/mod.rs, pools.rs).                   *)
(*                                                                         *)
(* An artifact is what its head and its name say, and which formats'       *)
(* decoders take the rest of it.  One artifact is worked on at a time; the *)
(* claim on it, its cache and its content are other modules'.              *)
(***************************************************************************)
EXTENDS Integers, FiniteSets

CONSTANTS
  Artifacts,   \* what a load may be given
  MaxHeads     \* bound: the heads a guest writes to a raw disk

VARIABLES
  artifact,    \* as it is committed
  found,       \* a discovery over it, or none
  medium,      \* the medium loaded or authored, or none
  heads,       \* how many heads were written to it
  answer       \* of the last call

vars == <<artifact, found, medium, heads, answer>>

None == "none"

\* The member of a catalog with that identity, or none.
ById(catalog, id) == {entry \in catalog : entry.id = id}

-----------------------------------------------------------------------------
(* Articles *)

Flexible(id, form, coercivity, pitch, holes, index, protect) ==
  [id |-> id, family |-> "flexible-magnetic",
   facts |-> <<form, coercivity, pitch, holes, index, protect>>]

FLEXIBLE_5_25_SOFT    == Flexible("flexible-5.25-soft", "5.25-inch", 300, 48, 0, 1, "covered")
FLEXIBLE_5_25_HARD_10 == Flexible("flexible-5.25-hard-10", "5.25-inch", 300, 48, 10, 1, "covered")
FLEXIBLE_5_25_HD      == Flexible("flexible-5.25-hd", "5.25-inch", 600, 96, 0, 1, "covered")
FLEXIBLE_3_5_HD       == Flexible("flexible-3.5-hd", "3.5-inch", 720, 135, 0, 0, "open")
LOGICAL_BLOCK_512   == [id |-> "logical-block-512", family |-> "logical-block", facts |-> <<512>>]
OPTICAL_120_PRESSED ==
  [id |-> "optical-120-pressed", family |-> "optical", facts |-> <<120, 1600, 780, "pressed">>]
VIRTUAL  == [id |-> "virtual", family |-> "virtual", facts |-> <<"namespace">>]
AUTHORED == [id |-> "authored", family |-> "virtual", facts |-> <<"space">>]

ENROLLED ==
  {FLEXIBLE_5_25_SOFT, FLEXIBLE_5_25_HARD_10, FLEXIBLE_5_25_HD, FLEXIBLE_3_5_HD,
   LOGICAL_BLOCK_512, OPTICAL_120_PRESSED, VIRTUAL, AUTHORED}

-----------------------------------------------------------------------------
(* Device types *)

Floppy(id, article, prefix, path) ==
  [id |-> id, class |-> "floppy", article |-> article.id, prefix |-> prefix,
   addressing |-> "sector", scheme |-> None, path |-> path]

HardDrive(id, scheme, addressing) ==
  [id |-> id, class |-> "hard-drive", article |-> LOGICAL_BLOCK_512.id, prefix |-> "hdd",
   addressing |-> addressing, scheme |-> scheme, path |-> None]

C1541_SPEC      == Floppy("c1541", FLEXIBLE_5_25_SOFT, "cbmfloppy", "c1541")
H17_SPEC        == Floppy("h17", FLEXIBLE_5_25_HARD_10, "heathfloppy", None)
H37_SPEC        == Floppy("h37", FLEXIBLE_5_25_SOFT, "heathfloppy", "heath-h17-1-soft")
H37_DD_SPEC     == Floppy("h37-dd", FLEXIBLE_5_25_SOFT, "heathfloppy", "heath-h17-4-soft")
H37_DD48_SPEC   == Floppy("h37-dd48", FLEXIBLE_5_25_SOFT, "heathfloppy", "heath-h17-1-soft-dd")
PC_3_5_HD_SPEC  == Floppy("pc-3.5-hd", FLEXIBLE_3_5_HD, "pcfloppy", "pc-3.5-hd")
PC_5_25_HD_SPEC == Floppy("pc-5.25-hd", FLEXIBLE_5_25_HD, "pcfloppy", "pc-5.25-hd")
SECTOR_FLOPPY_SPEC == Floppy("sector-floppy", FLEXIBLE_5_25_SOFT, "floppy", None)
MBR_SECTOR_HD_SPEC == HardDrive("mbr-sector-hd", "mbr", "sector")
MBR_BLOCK_HD_SPEC  == HardDrive("mbr-block-hd", "mbr", "block")
GPT_HD_SPEC        == HardDrive("gpt-hd", "gpt", "block")
CDROM_SPEC ==
  [id |-> "cdrom", class |-> "optical", article |-> OPTICAL_120_PRESSED.id, prefix |-> "cdrom",
   addressing |-> "block", scheme |-> None, path |-> None]

DeviceTypes ==
  {C1541_SPEC, H17_SPEC, H37_SPEC, H37_DD48_SPEC, H37_DD_SPEC, PC_3_5_HD_SPEC, PC_5_25_HD_SPEC,
   SECTOR_FLOPPY_SPEC, MBR_SECTOR_HD_SPEC, MBR_BLOCK_HD_SPEC, GPT_HD_SPEC, CDROM_SPEC}

DeviceOf(id) == CHOOSE device \in DeviceTypes : device.id = id

\* The devices an article can be put into.
Accepting(article) == {device \in DeviceTypes : device.article = article}

\* The table a device's media lie under can be read, or they lie under none.
SchemeIsRead(device) == device.scheme # "gpt"

DeviceSlots ==
  {[id |-> device.id, prefix |-> device.prefix] : device \in DeviceTypes}
  \cup {[id |-> "archive", prefix |-> "arc"]}

-----------------------------------------------------------------------------
(* Formats *)

RECORDED_HARD_DRIVES == {"mbr-sector-hd", "mbr-block-hd"}
RAW_RECORDED_DEVICES ==
  RECORDED_HARD_DRIVES \cup {"sector-floppy", "pc-3.5-hd", "pc-5.25-hd", "cdrom"}
MFI_RECORDED_DEVICES == {"h37", "h37-dd48", "h37-dd", "pc-3.5-hd"}
IMD_RECORDED_DEVICES == {"h37", "sector-floppy"}

\* What builds a medium of the format, and which class of device it is of.
Format(id, family, class, devices) ==
  [id |-> id, family |-> family, class |-> class, devices |-> devices,
   block |-> id = "raw", collection |-> id = "kryoflux"]

CLAIMED ==
  {Format("raw", "space", {"floppy", "hard-drive", "optical"}, RAW_RECORDED_DEVICES),
   Format("qcow2", "space", {"hard-drive"}, RECORDED_HARD_DRIVES),
   Format("vdi", "space", {"hard-drive"}, RECORDED_HARD_DRIVES),
   Format("h8d", "space", {"floppy"}, {"h17"}),
   Format("imd", "space", {"floppy"}, IMD_RECORDED_DEVICES),
   Format("zip", "archive", {}, {}),
   Format("7z", "archive", {}, {}),
   Format("kryoflux", "flux", {"floppy"}, {"c1541"}),
   Format("mfi", "flux", {"floppy"}, MFI_RECORDED_DEVICES),
   Format("hxc-mfm", "flux", {"floppy"}, MFI_RECORDED_DEVICES),
   Format("p64", "flux", {"floppy"}, {"c1541"})}

ClaimOf(id) == CHOOSE claim \in CLAIMED : claim.id = id

Declaration(id, device, block) == [id |-> id, device |-> device, block |-> block]

\* Every declaration a caller may build, one at a time, without words: a format
\* whose device is fixed names that one.
Declarations ==
  UNION {{Declaration(claim.id, device, block) :
            device \in CASE claim.class = {} -> {None}
                         [] claim.id \in {"h8d", "p64"} -> claim.devices
                         [] OTHER -> {d.id : d \in {t \in DeviceTypes : t.class \in claim.class}},
            block \in IF claim.block THEN {{512}} ELSE {{}}} : claim \in CLAIMED}

\* Some adapter records that device in that format.
CheckPairing(declared) ==
  declared.device # None => declared.device \in ClaimOf(declared.id).devices

\* The one device a format records, where it records one.
SoleDevice(claim) == IF Cardinality(claim.devices) = 1 THEN claim.devices ELSE {}

\* The declaration that words make, or none.
Declared(word, device, block) ==
  LET Fills(claim) == IF device = {} THEN SoleDevice(claim) ELSE device
      Holds(claim) ==
        /\ block # {} <=> claim.block
        /\ claim.devices = {} <=> Fills(claim) = {}
        /\ \A d \in Fills(claim) : DeviceOf(d).class \in claim.class
        /\ SoleDevice(claim) # {} => Fills(claim) = SoleDevice(claim)
  IN  {declared \in {Declaration(claim.id, IF claim.devices = {} THEN None
                                           ELSE CHOOSE d \in Fills(claim) : TRUE, block) :
                       claim \in {c \in ById(CLAIMED, word) : Holds(c)}} :
         CheckPairing(declared)}

-----------------------------------------------------------------------------
(* What an author makes *)

Blank(id, article, geometry) == [id |-> id, article |-> article.id, geometry |-> geometry]

NewMediaClaims ==
  {Blank(article.id, article, FALSE) :
     article \in {FLEXIBLE_5_25_SOFT, FLEXIBLE_5_25_HARD_10, FLEXIBLE_5_25_HD, FLEXIBLE_3_5_HD}}
  \cup {Blank("chs-disk", AUTHORED, TRUE)}

\* The kind that words make; coordinates are whole, lack a part, or are too vast.
NewMediaDeclared(word, coordinates) ==
  {kind \in ById(NewMediaClaims, word) : coordinates # {} <=> kind.geometry}

CheckCoordinates(coordinates) == coordinates \subseteq {"whole"}

\* Every layout, the article it fits and the drive that takes it from then on.
Recordings ==
  {[id |-> "dos-1.2", article |-> FLEXIBLE_5_25_HD.id, device |-> "pc-5.25-hd"],
   [id |-> "dos-1.44", article |-> FLEXIBLE_3_5_HD.id, device |-> "pc-3.5-hd"]}

-----------------------------------------------------------------------------
(* What the adapters find in an artifact *)

Says(kind, confidence) == [kind |-> kind, confidence |-> confidence]
SaysNothing == Says("none", 0)

Versioned(version) == IF version = "read" THEN Says("match", 100) ELSE Says("invalid", 100)

ProbeH8d(held) ==
  CASE held.length = "h17" -> Says("match", IF held.extension = "h8d" THEN 100 ELSE 80)
    [] held.length # "h17" /\ held.extension = "h8d" -> Says("invalid", 20)
    [] OTHER -> SaysNothing

ProbeImd(held) ==
  CASE held.head = "imd" -> Says("match", IF held.extension = "imd" THEN 100 ELSE 90)
    [] held.head # "imd" /\ held.extension = "imd" -> Says("invalid", 20)
    [] OTHER -> SaysNothing

\* Fewer bytes than hold a version, or a header.
ProbeQcow2(held) ==
  CASE held.head # "qcow2" -> SaysNothing
    [] held.head = "qcow2" /\ held.length = "short" -> Says("invalid", 100)
    [] OTHER -> Versioned(held.version)

\* Its signature lies past the head, so both may be there.
ProbeVdi(held) ==
  IF held.length = "short" \/ held.creator = None THEN SaysNothing ELSE Versioned(held.creator)

Probe(id, held) ==
  CASE id = "h8d"   -> ProbeH8d(held)
    [] id = "imd"   -> ProbeImd(held)
    [] id = "qcow2" -> ProbeQcow2(held)
    [] id = "vdi"   -> ProbeVdi(held)
    [] OTHER        -> SaysNothing

BUILT_IN_IMAGE_ADAPTERS == {"h8d", "qcow2", "vdi"}

\* The strongest answer, where one adapter alone gives it.
Identified(held) ==
  LET Confidence(id) == Probe(id, held).confidence
      strongest == {id \in BUILT_IN_IMAGE_ADAPTERS :
                      /\ Confidence(id) > 0
                      /\ \A other \in BUILT_IN_IMAGE_ADAPTERS : Confidence(other) <= Confidence(id)}
  IN  IF Cardinality(strongest) # 1 THEN [kind |-> "unknown", id |-> None]
      ELSE LET id == CHOOSE s \in strongest : TRUE IN [kind |-> Probe(id, held).kind, id |-> id]

\* Whether the evidence bears a declaration; anything bears a raw one.
Verified(id, held) == id = "raw" \/ Probe(id, held).kind = "match"

\* A decoder takes the artifact; bytes are taken as they are.
Decodes(id, held) == id \in {"raw", "h8d"} \/ id \in held.decodes

\* The formats an artifact opens as when none is declared, at most one.
OpensAs(held) ==
  LET is == Identified(held) IN
  CASE is.kind = "invalid" -> {}
    [] is.kind = "match"   -> {id \in {is.id} : Decodes(id, held)}
    [] OTHER               -> {"raw"}

\* An artifact of another family than a block reading's, by its signature.
Foreign(held) == held.head = "p64" /\ held.length # "short"

-----------------------------------------------------------------------------
(* Media *)

Medium(family, format, device, article, block) ==
  [family |-> family, format |-> format, device |-> device, article |-> article,
   block |-> block, layout |-> None]

\* The article a descriptor fixes, which a raw one does not.
DescriptorArticle(id) ==
  CASE id = "h8d" -> FLEXIBLE_5_25_HARD_10.id
    [] id = "imd" -> FLEXIBLE_5_25_SOFT.id
    [] OTHER      -> LOGICAL_BLOCK_512.id

SpaceMedium(id, device, block) ==
  Medium("space", id, device,
         IF device = None THEN DescriptorArticle(id) ELSE DeviceOf(device).article, block)

ArchiveMedium(id) == Medium("archive", id, None, VIRTUAL.id, {})

\* A device whose recording is read as flux has a path of its own.
FluxMedium(id, device) == Medium("flux", id, device, DeviceOf(device).article, {})

\* The medium a declaration makes of an artifact, or none: one file, an entry of
\* an archive, or a set of files.
LoadedAs(declared, held) ==
  LET claim == ClaimOf(declared.id) IN
  IF ~CheckPairing(declared) \/ claim.collection # (held.origin = "set") THEN {}
  ELSE CASE claim.family = "flux" ->
              {FluxMedium(declared.id, device) :
                 device \in {d \in {declared.device} :
                               DeviceOf(d).path # None /\ Decodes(declared.id, held)}}
         [] claim.family = "archive" ->
              {ArchiveMedium(id) : id \in {i \in {declared.id} :
                                             held.origin = "file" /\ Decodes(i, held)}}
         [] OTHER ->
              {SpaceMedium(id, declared.device, declared.block) :
                 id \in {i \in {declared.id} : Verified(i, held) /\ Decodes(i, held)}}

\* What a session takes in: no other family's artifact, no undeclared device,
\* nothing whose table it cannot read.
Admitted(made, held) ==
  made.family = "space" =>
    /\ ~Foreign(held)
    /\ made.device # None
    /\ LET device == DeviceOf(made.device) IN
         device.scheme # None => SchemeIsRead(device) /\ held.laid

\* What an artifact is recognized as when nothing is declared: the archive its
\* name says, or what its adapter opens.
RecognizedAs(held) ==
  IF held.origin = "file" /\ held.extension \in {"zip", "7z"}
    THEN {ArchiveMedium(id) : id \in {i \in {held.extension} : Decodes(i, held)}}
    ELSE {SpaceMedium(id, IF SoleDevice(ClaimOf(id)) = {} THEN None
                          ELSE CHOOSE d \in ClaimOf(id).devices : TRUE, {}) :
            id \in OpensAs(held)}

\* The devices a medium's format records.
RecordedDevices(made) ==
  CASE made.family = "space" -> ClaimOf(made.format).devices
    [] made.family = "flux"  -> {"c1541"}
    [] OTHER                 -> {}

\* Where a medium may be put.
SlotOf(made) ==
  CASE made.family = "archive" -> {"archive"}
    [] made.device # None      -> {made.device}
    [] OTHER                   -> {}

\* What a medium is said to be: a block medium's file is looked at again.
IdentifiedAs(made, held) ==
  CASE made.family = "space"    -> Identified(held)
    [] made.family = "authored" -> [kind |-> "match", id |-> made.article]
    [] OTHER                    -> [kind |-> "match", id |-> made.format]

-----------------------------------------------------------------------------
(* Actions *)

Said(verb, outcome, of) == [verb |-> verb, outcome |-> outcome, of |-> of]
Settled(verb, made) == Said(verb, IF made = {} THEN "refused" ELSE "ok", None)

DeclarationsInit ==
  /\ artifact \in Artifacts
  /\ found = {} /\ medium = {} /\ heads = 0 /\ answer = Said("init", "ok", None)

Free == found = {} /\ medium = {}

LoadMedia ==
  /\ Free
  /\ \E declared \in Declarations :
       /\ medium' = {made \in LoadedAs(declared, artifact) : Admitted(made, artifact)}
       /\ answer' = Settled("load", medium')
  /\ UNCHANGED <<artifact, found, heads>>

\* By name, where the name's archive is opened; or as an archive's entry, which
\* is asked for no other family until it is loaded.
DiscoverMedia ==
  /\ Free /\ artifact.origin # "set"
  /\ found' = {made \in RecognizedAs(artifact) :
                 made.family = "space" /\ artifact.origin = "file" => ~Foreign(artifact)}
  /\ answer' = Settled("discover", found')
  /\ UNCHANGED <<artifact, medium, heads>>

\* A discovery is used up, whether or not its medium is taken in.
LoadDiscovery ==
  /\ found # {}
  /\ found' = {}
  /\ medium' = {made \in found : Admitted(made, artifact)}
  /\ answer' = Settled("load discovery", medium')
  /\ UNCHANGED <<artifact, heads>>

LoadDiscoveryAs ==
  /\ found # {}
  /\ found' = {}
  /\ \E device \in DeviceTypes :
       /\ medium' = {made \in {SpaceMedium(d.format, device.id, {}) :
                                 d \in {f \in found : device.id \in RecordedDevices(f)}} :
                       Admitted(made, artifact)}
       /\ answer' = Settled("load discovery", medium')
  /\ UNCHANGED <<artifact, heads>>

NewMedia ==
  /\ Free
  /\ \E word \in {kind.id : kind \in NewMediaClaims},
        coordinates \in {{}, {"whole"}, {"partless"}, {"vast"}} :
       /\ medium' = {Medium("authored", kind.id, None, kind.article, {}) :
                       kind \in {k \in NewMediaDeclared(word, coordinates) :
                                   CheckCoordinates(coordinates)}}
       /\ answer' = Settled("new", medium')
  /\ UNCHANGED <<artifact, found, heads>>

\* A layout goes onto the blank article it fits, once, and names its drive.
RecordAs ==
  /\ \E made \in medium, layout \in Recordings :
       IF /\ made.family = "authored" /\ made.layout = None
          /\ made.format # "chs-disk" /\ layout.article = made.article
         THEN /\ medium' = {[made EXCEPT !.layout = layout.id, !.device = layout.device]}
              /\ answer' = Said("record", "ok", layout.id)
         ELSE medium' = medium /\ answer' = Said("record", "refused", layout.id)
  /\ UNCHANGED <<artifact, found, heads>>

Identify ==
  /\ \E made \in medium \cup found :
       answer' = Said("identify", "ok", IdentifiedAs(made, artifact))
  /\ UNCHANGED <<artifact, found, medium, heads>>

\* A device takes what its own type recorded.
Seat ==
  /\ \E made \in medium, slot \in DeviceSlots :
       answer' = Said("seat", IF slot.id \in SlotOf(made) THEN "ok" ELSE "refused", slot.id)
  /\ UNCHANGED <<artifact, found, medium, heads>>

\* A guest writes a head to a raw disk and commits it, a guest's own image say.
WriteHead ==
  /\ heads < MaxHeads
  /\ \E made \in medium, head \in {"qcow2", "p64"}, decodes \in SUBSET {"qcow2"} :
       /\ made.family = "space" /\ made.format = "raw" /\ artifact.length # "short"
       /\ artifact' = [artifact EXCEPT !.head = head, !.decodes = decodes]
  /\ heads' = heads + 1
  /\ answer' = Said("write", "ok", None)
  /\ UNCHANGED <<found, medium>>

\* A discovery is dropped, a medium released.
Release ==
  /\ ~Free
  /\ found' = {} /\ medium' = {}
  /\ answer' = Said("release", "ok", None)
  /\ UNCHANGED <<artifact, heads>>

DeclarationsNext ==
  \/ LoadMedia \/ DiscoverMedia \/ LoadDiscovery \/ LoadDiscoveryAs \/ NewMedia
  \/ RecordAs \/ Identify \/ Seat \/ WriteHead \/ Release

-----------------------------------------------------------------------------
(* Properties *)

\* A medium is on the article its drive is served, one of those its format
\* records, and no other; a drive takes it unless it is a blank; a block medium
\* is of no other family, and a discovery that names no device leaves more than
\* one to declare (media_profile.rs, device_type.rs, adapters.rs, pools.rs).
MediumIsClaimed ==
  /\ Cardinality(medium) + Cardinality(found) <= 1
  /\ \A made \in medium :
       /\ made.article \in {article.id : article \in ENROLLED}
       /\ made.device # None =>
            /\ DeviceOf(made.device) \in Accepting(made.article)
            /\ made.family # "authored" => made.device \in ClaimOf(made.format).devices
       /\ SlotOf(made) = {} <=> made.family = "authored" /\ made.layout = None
       /\ SlotOf(made) \subseteq {slot.id : slot \in DeviceSlots}
       /\ made.family = "flux" => \A d \in SlotOf(made) : DeviceOf(d).path # None
       /\ made.family = "authored" /\ made.device # None
            => \E layout \in Recordings : layout.id = made.layout /\ layout.article = made.article
  /\ \A seen \in found : seen.device = None /\ seen.family = "space"
       => Cardinality(RecordedDevices(seen)) > 1

\* Words declare what the adapters record and nothing else: every declaration
\* an adapter records can be worded, and whatever is worded is one of those
\* (media.rs Format::declared, check_pairing).
WordsDeclare ==
  UNION {Declared(claim.id, device, block) :
           claim \in CLAIMED, block \in {{}, {512}},
           device \in {{}} \cup {{d.id} : d \in DeviceTypes}}
    = {declared \in Declarations : CheckPairing(declared)}

DeclarationsHold == MediumIsClaimed /\ (answer.verb = "init" => WordsDeclare)

\* What a discovery loads a declaration loads too, the same but for the block
\* size a discovery never states; a medium stays on its article and, once a
\* drive is named, that drive's; a layout is recorded once; what an adapter
\* opened is never said to be another's, though two may be said to compete
\* (pools.rs load_discovery_as; authored.rs record_as; session.rs identify_medium).
LoadsAgree ==
  [][/\ answer'.verb = "load discovery" =>
          \A made \in medium' :
            \E declared \in Declarations :
              /\ CheckPairing(declared)
              /\ [made EXCEPT !.block = declared.block] \in LoadedAs(declared, artifact)
     /\ answer'.verb \notin {"load", "load discovery", "new", "release", "discover"} =>
          /\ found' = found
          /\ \A made \in medium : \E kept \in medium' :
               /\ kept.article = made.article /\ kept.family = made.family
               /\ made.device # None => kept = made
     /\ answer'.verb = "discover" /\ answer'.outcome = "ok" =>
          \A seen \in found' : seen.format \in {"raw", IdentifiedAs(seen, artifact).id}
     /\ answer'.verb = "identify" =>
          \A made \in medium \cup found : made.family = "space" =>
            /\ made.format \in {"qcow2", "vdi"} => answer'.of.id \in {made.format, None}
            /\ made.format = "h8d" /\ artifact.head # "qcow2" /\ artifact.creator = None
                 => answer'.of.id = "h8d"]_vars
=============================================================================
