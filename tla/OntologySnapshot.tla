-------------------------- MODULE OntologySnapshot --------------------------
(***************************************************************************)
(* What the ontology registry stores, after internal/model/                *)
(* ontology_registry.go, and the functions of internal/ontology on it that *)
(* touch no file.                                                          *)
(***************************************************************************)
EXTENDS Integers, SequencesExt

CONSTANTS
  OntologyIds, Versions, KnowledgeBases, Domains, Bodies,
  FileNames,  \* the names the registry gives to files and directories
  FileName,   \* sanitize: two names may share a file
  None        \* an absent file, an absent request, an empty version

Names == OntologyIds \cup Versions \cup KnowledgeBases

ASSUME FileNameAssumption == FileName \in [Names -> FileNames]
ASSUME NoneAssumption == None \notin Names

(* An ontology as JSON: whether ValidateOntology finds no error in it and  *)
(* whether a high risk item of its review queue is still open.             *)
Ontology ==
  [id: OntologyIds, version: Versions, domain: Domains, body: Bodies,
   status: {"candidate", "approved"}, valid: BOOLEAN, openRisk: BOOLEAN]

(* A checksum is the ontology it is the checksum of. *)
Meta == [version: Versions, state: {"candidate", "published"}, sha: Ontology]

Manifest ==
  [id: OntologyIds, domain: Domains, active: Versions \cup {None}, versions: Seq(Meta)]

Binding ==
  [kb: KnowledgeBases, id: OntologyIds, mode: {"active", "pinned"},
   version: Versions \cup {None}]

ASSUME SentinelAssumption == None \notin Ontology /\ None \notin Manifest /\ None \notin Binding

-----------------------------------------------------------------------------
(* ApproveSnapshot: from reviewed content, the snapshot to be released as  *)
(* version v.                                                              *)
Approvable(o) == ~ o.openRisk /\ o.valid
ApproveSnapshot(o, v) == [o EXCEPT !.version = v, !.status = "approved"]

(* Faulty: an open review item does not keep a snapshot back. *)
PublishableUnreviewed(o) == o.status = "approved" /\ o.valid

EnsurePublishable(o) == o.status = "approved" /\ o.valid /\ ~ o.openRisk

-----------------------------------------------------------------------------
EmptyManifest(o) == [id |-> o.id, domain |-> o.domain, active |-> None, versions |-> <<>>]

NewMeta(o) == [version |-> o.version, state |-> "candidate", sha |-> o]

EntriesOf(m, v) == {i \in DOMAIN m.versions : m.versions[i].version = v}

Lists(m, v) == EntriesOf(m, v) # {}

(* findVersion takes the first entry. *)
EntryOf(m, v) == CHOOSE i \in EntriesOf(m, v) : \A j \in EntriesOf(m, v) : i <= j

FindVersion(m, v) == m.versions[EntryOf(m, v)]

IsPublished(m, v) == Lists(m, v) /\ FindVersion(m, v).state = "published"

(* Faulty: only the newest version stays published. *)
MarkOnlyPublished(m, v) ==
  [m EXCEPT !.active = v,
            !.versions = [i \in DOMAIN @ |->
               [@[i] EXCEPT !.state = IF i = EntryOf(m, v) THEN "published" ELSE "candidate"]]]

(* Faulty: the active version has a state of its own. *)
MarkActive(m, v) ==
  [m EXCEPT !.versions[EntryOf(m, v)].state = "active", !.active = v]

MarkPublished(m, v) ==
  [m EXCEPT !.versions[EntryOf(m, v)].state = "published", !.active = v]

(* The entry for a new version is appended and the list is sorted by       *)
(* creation time.  The clock of the writer is not the clock of those       *)
(* before it, so the entry may land anywhere; the others keep their order. *)
WithVersion(m, meta) ==
  {[m EXCEPT !.versions = InsertAt(@, i, meta)] : i \in 1..(Len(m.versions) + 1)}

(* The version binding b stands for when m is the manifest of its ontology. *)
BoundVersion(b, m) == IF b.mode = "active" THEN m.active ELSE b.version
=============================================================================
