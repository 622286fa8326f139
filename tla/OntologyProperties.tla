------------------------- MODULE OntologyProperties -------------------------
(***************************************************************************)
(* The properties of OntologyRegistry.                                     *)
(***************************************************************************)
EXTENDS OntologyRegistry

(* Deployment: an ontology directory is changed by one process.            *)
SoleOwner ==
  \A p, q \in Processes : \A i \in Owns[p], j \in Owns[q] :
    FileName[i] = FileName[j] => p = q

-----------------------------------------------------------------------------
ListsIn(d, v) == manifest[d] # None /\ Lists(manifest[d], v)
PublishedIn(d, v) == manifest[d] # None /\ IsPublished(manifest[d], v)
ActiveIn(d) == IF manifest[d] = None THEN None ELSE manifest[d].active

(* Fit for publication: approved, and no high risk item is open. *)
Reviewed(o) == o.valid /\ o.status = "approved" /\ ~ o.openRisk

Release ==
  INSTANCE OntologyRelease WITH
    Ontologies <- FileNames, Contents <- Snapshots, KnowledgeBases <- FileNames,
    Publishable <- {o \in Snapshots : Reviewed(o)},
    content <- [d \in FileNames |-> [v \in Versions |->
                 IF ListsIn(d, v) THEN FindVersion(manifest[d], v).sha ELSE None]],
    published <- [d \in FileNames |-> {v \in Versions : PublishedIn(d, v)}],
    active <- [d \in FileNames |-> ActiveIn(d)],
    bound <- [f \in FileNames |-> IF binding[f] = None THEN None
                                  ELSE <<FileName[binding[f].id], binding[f].version>>]

(* The files implement the promise of the registry (docs/                  *)
(* ONTOLOGY_REGISTRY.md, 1 and 3) whatever fails between two of them:      *)
(* content is immutable, only approved content without an open high risk   *)
(* item is published and stays so, only published versions become active   *)
(* or are bound.                                                           *)
ImplementsRelease == Release!Spec

-----------------------------------------------------------------------------
(* Version v of directory d can be handed out: it is published and its     *)
(* file has the content that was registered.                               *)
Served(d, v) ==
  PublishedIn(d, v) /\ payload[d][FileName[v]] = FindVersion(manifest[d], v).sha

(* ResolveForKnowledgeBase never fails on a knowledge base that is bound,  *)
(* although it reads three files while other processes replace them        *)
(* (registry.go:261-288).                                                  *)
BoundIsServed ==
  /\ \A f \in FileNames : binding[f] # None =>
       LET d == FileName[binding[f].id] IN
         manifest[d] # None /\ Served(d, BoundVersion(binding[f], manifest[d]))
  /\ answer # "failed"

(* What event e says has happened and was not undone. *)
Happened(e) ==
  CASE e.action = "register" -> ListsIn(FileName[e.id], e.version)
    [] e.action \in {"publish", "activate"} -> PublishedIn(FileName[e.id], e.version)
    [] e.action = "bind" -> e.version # None => PublishedIn(FileName[e.id], e.version)

(* The audit log records nothing that did not happen or was undone since   *)
(* (registry.go:112, 150, 176, 252: the event follows the write).          *)
AuditIsTrue == \A e \in audit : Happened(e)

-----------------------------------------------------------------------------
(* The inductive invariant behind them.                                    *)
ManifestSound(d) ==
  LET m == manifest[d] IN m # None =>
    /\ FileName[m.id] = d
    /\ \A i \in DOMAIN m.versions :
         payload[d][FileName[m.versions[i].version]] = m.versions[i].sha
    /\ \A i, j \in DOMAIN m.versions :
         FileName[m.versions[i].version] = FileName[m.versions[j].version] => i = j
    /\ m.active # None => IsPublished(m, m.active)

Bindable(id, mode, v) ==
  /\ mode = "active" <=> v = None
  /\ IF mode = "active" THEN ActiveIn(FileName[id]) # None ELSE PublishedIn(FileName[id], v)

BindingSound(f) ==
  LET b == binding[f] IN b # None => Bindable(b.id, b.mode, b.version)

(* A registration between its look for a payload and its manifest. *)
RegisterSound(p) ==
  LET j == job[p]
      stored == payload[Dir(p)][File(p)]
  IN /\ j.meta = NewMeta(j.meta.sha) /\ j.meta.sha \in Ontology
     /\ j.meta.sha.id = j.id /\ j.meta.sha.version = j.version
     /\ j.pc = "payload" => stored = None
     /\ j.pc \in {"index", "manifest"} => stored = j.meta.sha
     /\ j.pc \in {"index", "manifest"} /\ manifest[Dir(p)] # None =>
          \A i \in DOMAIN manifest[Dir(p)].versions :
            FileName[manifest[Dir(p)].versions[i].version] # File(p)

(* The manifest to be written is one step ahead of the one in the file. *)
NewSound(p) ==
  LET j == job[p]
      m == manifest[Dir(p)]
  IN /\ j.new # None /\ FileName[j.new.id] = Dir(p)
     /\ CASE j.op = "register" ->
               j.new \in WithVersion(IF m = None THEN EmptyManifest(j.meta.sha) ELSE m, j.meta)
          [] j.op = "publish" -> ListsIn(Dir(p), j.version) /\ j.new = MarkPublished(m, j.version)
          [] j.op = "activate" ->
               PublishedIn(Dir(p), j.version) /\ j.new = [m EXCEPT !.active = j.version]

(* The steps of each request. *)
StepsOf(op) ==
  CASE op = "register" -> {"stat", "payload", "index", "manifest", "audit"}
    [] op = "publish"  -> {"get", "read", "index", "manifest", "audit"}
    [] op = "activate" -> {"index", "manifest", "audit"}
    [] op = "bind"     -> {"check", "binding", "audit"}
    [] op = "resolve"  -> {"lookup", "follow", "get", "read"}

(* A request that resolves a binding it has read. *)
ResolveSound(p) ==
  LET j == job[p] IN
    /\ j.pc # "lookup" => j.id # None
    /\ j.pc = "follow" => Bindable(j.id, j.mode, j.version)
    /\ j.pc \in {"get", "read"} => j.version # None /\ Served(Dir(p), j.version)
    /\ j.pc = "read" => j.meta = FindVersion(manifest[Dir(p)], j.version)

(* What a request knows of the files at each of its steps. *)
JobSound(p) ==
  LET j == job[p] IN j # None =>
    /\ j.pc \in StepsOf(j.op)
    /\ j.op \in {"register", "publish", "activate"} =>
         j.id \in Owns[p] /\ j.version # None /\ j.kb = None
    /\ j.op = "register" => RegisterSound(p)
    /\ j.op = "bind" =>
         j.id # None /\ j.kb # None /\ j.mode # "none" /\ (j.mode = "active" <=> j.version = None)
    /\ j.pc = "binding" => Bindable(j.id, j.mode, j.version)
    /\ j.op = "resolve" => j.kb # None /\ ResolveSound(p)
    /\ j.op = "publish" /\ j.pc = "read" => j.meta \in Meta
    /\ j.pc = "manifest" => NewSound(p)
    /\ j.pc = "audit" => Happened(EventOf(j))

RegistryInvariant ==
  /\ \A d \in FileNames : ManifestSound(d)
  /\ \A f \in FileNames : BindingSound(f)
  /\ \A p \in Processes : JobSound(p)
  /\ AuditIsTrue
  /\ answer # "failed"

-----------------------------------------------------------------------------
(* The version a registration is refused for as existing does exist        *)
(* (registry.go:68, docs/ONTOLOGY_REGISTRY.md:49).                         *)
ExistingIsListed ==
  [][\A p \in Processes :
       At(p, "stat") /\ job'[p] = None /\ answer' = "exists" => ListsIn(Dir(p), job[p].version)]_vars

(* "This implementation suits a single instance or a shared file system"   *)
(* (docs/ONTOLOGY_REGISTRY.md:100): what is published stays published.      *)
PublicationIsForEver ==
  [][\A d \in FileNames, v \in Versions : PublishedIn(d, v) => PublishedIn(d, v)']_vars
=============================================================================
