-------------------------- MODULE OntologyRegistry --------------------------
(***************************************************************************)
(* FSRegistry of internal/ontology/registry.go: ontologies, their          *)
(* manifests, the bindings of knowledge bases and the audit log as files   *)
(* of one directory.  The mutex of FSRegistry serialises the requests of   *)
(* one process only; the HTTP server, every command of cmd/cobra and every *)
(* MCP server have a registry of their own on the same files.  So a        *)
(* process runs one request, its steps are its file operations, and the    *)
(* steps of different processes interleave.                                *)
(*                                                                         *)
(* A request that is refused before it opens a file changes nothing; there *)
(* is no step for it.                                                      *)
(***************************************************************************)
EXTENDS OntologySnapshot

CONSTANTS
  Processes,
  Owns,       \* process -> the ontologies it registers, publishes and activates
  Snapshots,  \* the ontology files that may be registered
  MaxEvents,  \* bound: no request starts when so many events were recorded
  Faults      \* processes die, reads and writes fail

ASSUME OwnsAssumption == Owns \in [Processes -> SUBSET OntologyIds]
ASSUME SnapshotsAssumption == Snapshots \subseteq Ontology
ASSUME MaxEventsAssumption == MaxEvents \in Nat
ASSUME FaultsAssumption == Faults \in BOOLEAN

VARIABLES
  payload,   \* ontology directory -> version file -> its content, or None
  manifest,  \* ontology directory -> the content of manifest.json, or None
  binding,   \* binding file -> its content, or None
  audit,     \* the events in the audit log, without time and repetition
  job,       \* process -> the request it runs, or None
  answer     \* what the last step told its caller, or None

files == <<payload, manifest, binding, audit>>
vars == <<payload, manifest, binding, audit, job, answer>>

Event == [action: {"register", "publish", "activate", "bind"}, id: OntologyIds,
          version: Versions \cup {None}, kb: KnowledgeBases \cup {None}]

(* The next file operation of a request. *)
Pcs == {"stat", "payload", "get", "read", "index", "manifest", "check", "binding",
        "audit", "lookup", "follow"}

Job ==
  [pc: Pcs, op: {"register", "publish", "activate", "bind", "resolve"},
   id: OntologyIds \cup {None}, version: Versions \cup {None},
   kb: KnowledgeBases \cup {None}, mode: {"active", "pinned", "none"},
   meta: Meta \cup {None},     \* the entry of the version in question
   new: Manifest \cup {None}]  \* the manifest to be written

ASSUME JobSentinelAssumption == None \notin Job

(* What a caller is told: done; done but not recorded; the version exists; *)
(* the domain differs; nothing such; not allowed; the knowledge base has   *)
(* no binding; it has one that cannot be served; a file operation failed.  *)
Answers == {"ok", "unrecorded", "exists", "mismatch", "missing", "refused",
            "unbound", "failed", "unavailable"}

ASSUME AnswerSentinelAssumption == None \notin Answers

TypeOK ==
  /\ payload \in [FileNames -> [FileNames -> Ontology \cup {None}]]
  /\ manifest \in [FileNames -> Manifest \cup {None}]
  /\ binding \in [FileNames -> Binding \cup {None}]
  /\ audit \subseteq Event
  /\ job \in [Processes -> Job \cup {None}]
  /\ answer \in Answers \cup {None}

Init ==
  /\ payload = [d \in FileNames |-> [f \in FileNames |-> None]]
  /\ manifest = [d \in FileNames |-> None]
  /\ binding = [f \in FileNames |-> None]
  /\ audit = {}
  /\ job = [p \in Processes |-> None]
  /\ answer = None

-----------------------------------------------------------------------------
Dir(p) == FileName[job[p].id]
File(p) == FileName[job[p].version]

At(p, pc) == job[p] # None /\ job[p].pc = pc

Start(p, j) ==
  /\ job[p] = None
  /\ Cardinality(audit) < MaxEvents
  /\ job' = [job EXCEPT ![p] = j]
  /\ answer' = None
  /\ UNCHANGED files

(* Request p goes on, having changed its local variables to j. *)
Continue(p, j) == job' = [job EXCEPT ![p] = j] /\ answer' = None

Go(p, pc) == Continue(p, [job[p] EXCEPT !.pc = pc])

Answer(p, a) ==
  /\ job' = [job EXCEPT ![p] = None]
  /\ answer' = a

Request(op, pc) ==
  [pc |-> pc, op |-> op, id |-> None, version |-> None, kb |-> None, mode |-> "none",
   meta |-> None, new |-> None]

-----------------------------------------------------------------------------
(* RegisterVersion: is there a payload, write it, index it in the manifest. *)
RegisterVersion(p, o) ==
  /\ o.id \in Owns[p]
  /\ o.valid
  /\ Start(p, [Request("register", "stat") EXCEPT
                 !.id = o.id, !.version = o.version, !.meta = NewMeta(o)])

(* Faulty: a version that exists is written again. *)
StatNothing(p) == At(p, "stat") /\ Go(p, "payload") /\ UNCHANGED files

StatPayload(p) ==
  /\ At(p, "stat")
  /\ IF payload[Dir(p)][File(p)] = None THEN Go(p, "payload") ELSE Answer(p, "exists")
  /\ UNCHANGED files

WritePayload(p) ==
  /\ At(p, "payload")
  /\ payload' = [payload EXCEPT ![Dir(p)][File(p)] = job[p].meta.sha]
  /\ Go(p, "index")
  /\ UNCHANGED <<manifest, binding, audit>>

IndexVersion(p) ==
  /\ At(p, "index")
  /\ job[p].op = "register"
  /\ LET o == job[p].meta.sha
         m == IF manifest[Dir(p)] = None THEN EmptyManifest(o) ELSE manifest[Dir(p)]
     IN IF m.domain # o.domain
        THEN Answer(p, "mismatch")
        ELSE \E n \in WithVersion(m, job[p].meta) :
               Continue(p, [job[p] EXCEPT !.pc = "manifest", !.new = n])
  /\ UNCHANGED files

-----------------------------------------------------------------------------
(* Publish: read the entry and the payload (getUnlocked), check both, read *)
(* the manifest again and mark the version.                                *)
Publish(p, id, v) ==
  /\ id \in Owns[p]
  /\ Start(p, [Request("publish", "get") EXCEPT !.id = id, !.version = v])

(* The first half of getUnlocked, for Publish and ResolveForKnowledgeBase. *)
GetEntry(p) ==
  /\ At(p, "get")
  /\ LET m == manifest[Dir(p)] IN
       IF m # None /\ Lists(m, job[p].version)
       THEN Continue(p, [job[p] EXCEPT !.pc = "read",
                                       !.meta = FindVersion(m, job[p].version)])
       ELSE Answer(p, IF job[p].op = "resolve" THEN "failed" ELSE "missing")
  /\ UNCHANGED files

(* Its second half, with the checks that follow it in the two callers. *)
ReadForPublish(p) ==
  /\ At(p, "read")
  /\ job[p].op = "publish"
  /\ LET o == payload[Dir(p)][File(p)] IN
       IF o = job[p].meta.sha /\ EnsurePublishable(o)
       THEN Go(p, "index")
       ELSE Answer(p, "refused")
  /\ UNCHANGED files

ReadForResolve(p) ==
  /\ At(p, "read")
  /\ job[p].op = "resolve"
  /\ IF payload[Dir(p)][File(p)] = job[p].meta.sha /\ job[p].meta.state = "published"
     THEN Answer(p, "ok")
     ELSE Answer(p, "failed")
  /\ UNCHANGED files

IndexPublication(p) ==
  /\ At(p, "index")
  /\ job[p].op = "publish"
  /\ LET m == manifest[Dir(p)] IN
       IF m # None /\ Lists(m, job[p].version)
       THEN Continue(p, [job[p] EXCEPT !.pc = "manifest",
                                       !.new = MarkPublished(m, job[p].version)])
       ELSE Answer(p, "missing")
  /\ UNCHANGED files

-----------------------------------------------------------------------------
Activate(p, id, v) ==
  /\ id \in Owns[p]
  /\ Start(p, [Request("activate", "index") EXCEPT !.id = id, !.version = v])

IndexActivation(p) ==
  /\ At(p, "index")
  /\ job[p].op = "activate"
  /\ LET m == manifest[Dir(p)] IN
       IF m = None \/ ~ Lists(m, job[p].version)
       THEN Answer(p, "missing")
       ELSE IF FindVersion(m, job[p].version).state # "published"
       THEN Answer(p, "refused")
       ELSE Continue(p, [job[p] EXCEPT !.pc = "manifest",
                                       !.new = [m EXCEPT !.active = job[p].version]])
  /\ UNCHANGED files

(* The three requests above replace the manifest they read. *)
WriteManifest(p) ==
  /\ At(p, "manifest")
  /\ manifest' = [manifest EXCEPT ![FileName[job[p].new.id]] = job[p].new]
  /\ Go(p, "audit")
  /\ UNCHANGED <<payload, binding, audit>>

-----------------------------------------------------------------------------
(* BindKnowledgeBase; an active binding drops the version it was given. *)
BindKnowledgeBase(p, k, id, mode, v) ==
  /\ mode = "active" <=> v = None
  /\ Start(p, [Request("bind", "check") EXCEPT
                 !.kb = k, !.id = id, !.mode = mode, !.version = v])

CheckBinding(p) ==
  /\ At(p, "check")
  /\ LET m == manifest[Dir(p)]
         v == job[p].version
     IN IF m # None /\ (IF job[p].mode = "active" THEN m.active # None ELSE IsPublished(m, v))
        THEN Go(p, "binding")
        ELSE Answer(p, "refused")
  /\ UNCHANGED files

WriteBinding(p) ==
  /\ At(p, "binding")
  /\ binding' = [binding EXCEPT ![FileName[job[p].kb]] =
                   [kb |-> job[p].kb, id |-> job[p].id, mode |-> job[p].mode,
                    version |-> job[p].version]]
  /\ Go(p, "audit")
  /\ UNCHANGED <<payload, manifest, audit>>

EventOf(j) == [action |-> j.op, id |-> j.id, version |-> j.version, kb |-> j.kb]

AppendAudit(p) ==
  /\ At(p, "audit")
  /\ audit' = audit \cup {EventOf(job[p])}
  /\ Answer(p, "ok")
  /\ UNCHANGED <<payload, manifest, binding>>

-----------------------------------------------------------------------------
(* ResolveForKnowledgeBase: the binding, the manifest, and getUnlocked,    *)
(* which reads the manifest again.                                         *)
Resolve(p, k) == Start(p, [Request("resolve", "lookup") EXCEPT !.kb = k])

LookupBinding(p) ==
  /\ At(p, "lookup")
  /\ LET b == binding[FileName[job[p].kb]] IN
       IF b = None
       THEN Answer(p, "unbound")
       ELSE Continue(p, [job[p] EXCEPT !.pc = "follow", !.id = b.id, !.mode = b.mode,
                                       !.version = b.version])
  /\ UNCHANGED files

FollowBinding(p) ==
  /\ At(p, "follow")
  /\ LET m == manifest[Dir(p)] IN
       IF m # None /\ BoundVersion(job[p], m) # None
       THEN Continue(p, [job[p] EXCEPT !.pc = "get", !.version = BoundVersion(job[p], m)])
       ELSE Answer(p, "failed")
  /\ UNCHANGED files

-----------------------------------------------------------------------------
(* A file cannot be read, or not be replaced. *)
ReadFails(p) ==
  /\ \E pc \in {"stat", "get", "read", "index", "check", "lookup", "follow"} : At(p, pc)
  /\ Answer(p, "unavailable")
  /\ UNCHANGED files

(* Faulty: the payload of a refused registration is always removed. *)
WriteFailsRemoving(p) ==
  \/ /\ At(p, "payload") \/ At(p, "binding") \/ At(p, "manifest")
     /\ IF At(p, "manifest")
        THEN payload' = [payload EXCEPT ![Dir(p)][File(p)] = None] ELSE UNCHANGED payload
     /\ Answer(p, "unavailable")
     /\ UNCHANGED <<manifest, binding, audit>>
  \/ /\ At(p, "audit")
     /\ Answer(p, IF job[p].op \in {"activate", "bind"} THEN "unrecorded" ELSE "ok")
     /\ UNCHANGED files

(* A registration that cannot replace the manifest tries to remove its     *)
(* payload.  An audit event that cannot be written fails an activation and *)
(* a binding, which are in force by then, and nothing else.                *)
WriteFails(p) ==
  \/ /\ At(p, "payload") \/ At(p, "binding") \/ (At(p, "manifest") /\ job[p].op # "register")
     /\ Answer(p, "unavailable")
     /\ UNCHANGED files
  \/ /\ At(p, "manifest") /\ job[p].op = "register"
     /\ \/ UNCHANGED payload
        \/ payload' = [payload EXCEPT ![Dir(p)][File(p)] = None]
     /\ Answer(p, "unavailable")
     /\ UNCHANGED <<manifest, binding, audit>>
  \/ /\ At(p, "audit")
     /\ Answer(p, IF job[p].op \in {"activate", "bind"} THEN "unrecorded" ELSE "ok")
     /\ UNCHANGED files

(* The process dies; its caller learns nothing. *)
Crash(p) == job[p] # None /\ Answer(p, None) /\ UNCHANGED files

Fail(p) == Faults /\ (ReadFails(p) \/ WriteFails(p) \/ Crash(p))

-----------------------------------------------------------------------------
Begin(p) ==
  \/ \E o \in Snapshots : RegisterVersion(p, o)
  \/ \E id \in OntologyIds, v \in Versions : Publish(p, id, v) \/ Activate(p, id, v)
  \/ \E k \in KnowledgeBases, id \in OntologyIds, mode \in {"active", "pinned"},
        v \in Versions \cup {None} : BindKnowledgeBase(p, k, id, mode, v)
  \/ \E k \in KnowledgeBases : Resolve(p, k)

Proceed(p) ==
  \/ StatPayload(p) \/ WritePayload(p) \/ IndexVersion(p)
  \/ GetEntry(p) \/ ReadForPublish(p) \/ ReadForResolve(p) \/ IndexPublication(p)
  \/ IndexActivation(p) \/ WriteManifest(p)
  \/ CheckBinding(p) \/ WriteBinding(p) \/ AppendAudit(p)
  \/ LookupBinding(p) \/ FollowBinding(p)

Next == \E p \in Processes : Begin(p) \/ Proceed(p) \/ Fail(p)

Spec == Init /\ [][Next]_vars
=============================================================================
