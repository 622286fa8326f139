--------------------------- MODULE ContextService ---------------------------
(***************************************************************************)
(* A request for context (internal/runtimecontext/service.go,              *)
(* internal/context/service.go and assembler.go).  The ontologies of the   *)
(* knowledge bases in scope are resolved and federated, the question is    *)
(* planned, one goroutine per planned source retrieves at the same time    *)
(* as the others, and their results are arbitrated and assembled in the    *)
(* order in which they arrived.  A pack without content is given one more  *)
(* wiki search, the fallback.                                              *)
(***************************************************************************)
EXTENDS ContextRetrievers, KnowledgeArbiter

CONSTANTS
  Unbound,          \* the answer for a base without a published ontology
  KnowledgeBases,   \* knowledge bases of a workspace
  Scopes,           \* the sequences of them that requests name
  Questions,        \* questions: [words, cues]
  Ontologies,       \* what a base may be bound to: [kb -> set of ontologies]
  Overlay,          \* the catalog overlay of the deployment
  Retrievers,       \* the sources with a retriever, besides the ontologies
  Views,            \* what the entity graph may hold
  BusinessReplies,  \* what the business gateway may answer
  WikiItems,        \* what a wiki search may find: a set of sets
  Domains,          \* the domains that callers name
  Caller            \* the scope of a request: workspace and user

ASSUME RetrieversAssumption ==
  Retrievers \subseteq Sources \ {"ontology_graph"} /\ "wiki_rag" \in Retrievers

(* What the servers answer is decoded into lists, of assertions with every *)
(* field, or of nodes with a list of attributes.                           *)
ASSUME RepliesAssumption ==
  \A reply \in BusinessReplies : IsSequence(reply) /\ \A x \in Range(reply) : IsAssertion(x)

ASSUME ViewsAssumption ==
  \A v \in Views : IsSequence(v.nodes) /\ \A n \in Range(v.nodes) : IsSequence(n.props)

ASSUME ScopesAssumption == Scopes \subseteq Seq(KnowledgeBases)

(* An ontology that is published has passed the validator: of the concepts *)
(* it lists no two have one id.                                            *)
IsConcept(t) ==
  /\ t = [id |-> t.id, label |-> t.label, aliases |-> t.aliases, sources |-> t.sources]
  /\ t.label \in Range(LabelOrder) /\ IsSequence(t.sources)

ASSUME OntologiesAssumption ==
  /\ IsSequence(LabelOrder)
  /\ \A kb \in KnowledgeBases : \A o \in Ontologies[kb] : \A k \in Kinds :
       /\ IsFiniteSet(o.terms[k]) /\ \A t \in o.terms[k] : IsConcept(t)
       /\ \A t, u \in o.terms[k] : t.id = u.id => t = u
  /\ \A label \in DOMAIN Overlay : IsSequence(Overlay[label].sources)

VARIABLES
  stage,      \* where the request is
  request,    \* the question, its scope, the ontologies it was planned with,
              \* and the bases whose entity graph is out of reach meanwhile
  plan,       \* the plan
  running,    \* the sources whose retriever has not returned
  items,      \* the results, in the order of arrival
  pack        \* the answer

vars == <<stage, request, plan, running, items, pack>>

NoDomain == "none"

NoPack == [facts |-> {}, knowledge |-> {}, paths |-> {}, gaps |-> {}, blocking |-> {},
           status |-> <<>>, complete |-> FALSE, fallback |-> FALSE]
NoPlan == [steps |-> <<>>, blockingIssues |-> {}, allowFallback |-> FALSE]
NoRequest == [question |-> [words |-> {}, cues |-> {}], bases |-> <<>>, ontologies |-> <<>>,
              domain |-> NoDomain, down |-> {}]

Init ==
  /\ stage = "idle" /\ request = NoRequest /\ plan = NoPlan
  /\ running = {} /\ items = <<>> /\ pack = NoPack

(***************************************************************************)
(* Retrieve: resolution, catalog and plan                                  *)
(***************************************************************************)

(* What the registry answers for the bases in scope, in their order; a     *)
(* base without binding, ontology or version is left out.                  *)
Resolutions(bases) ==
  LET answers == [Range(bases) -> {Unbound} \cup UNION {Ontologies[kb] : kb \in Range(bases)}]
      resolved(f, kb) == IF f[kb] = Unbound THEN <<>> ELSE <<[namespace |-> kb, ontology |-> f[kb]]>>
  IN  {FlattenSeq([i \in DOMAIN bases |-> resolved(f, bases[i])]) :
         f \in {f \in answers : \A kb \in Range(bases) : f[kb] \in Ontologies[kb] \cup {Unbound}}}

Catalogs(ontologies) ==
  FederateCatalogs([i \in DOMAIN ontologies |->
    [namespace |-> ontologies[i].namespace,
     terms     |-> CompileCatalog(ontologies[i].ontology, Overlay)]])

Registered(ontologies) ==
  Retrievers \cup (IF ontologies # <<>> THEN {"ontology_graph"} ELSE {})

(* Faulty: an empty result satisfies its step. *)
GatherAnything(p, source, r) ==
  [source |-> source, required |-> p.steps[source], satisfied |-> ~r.failed,
   assertions |-> r.assertions, knowledge |-> r.knowledge, paths |-> r.paths, gaps |-> r.gaps]

(* What the service keeps of a result: errors and empty results do not     *)
(* satisfy their step; what comes with an error is not arbitrated.         *)
Gather(p, source, r) ==
  LET satisfied == ~r.failed /\ Usable(r)
  IN  [source     |-> source,
       required   |-> p.steps[source],
       satisfied  |-> satisfied,
       assertions |-> IF r.failed THEN <<>> ELSE r.assertions,
       knowledge  |-> r.knowledge,
       paths      |-> r.paths,
       gaps       |-> r.gaps \cup (IF r.failed \/ (~satisfied /\ r.gaps = {})
                                   THEN {<<source, "failed">>} ELSE {})]

(* The request is given up when an ontology cannot be resolved.            *)
Refuse ==
  /\ stage = "idle"
  /\ stage' = "failed" /\ request' = NoRequest /\ plan' = NoPlan
  /\ running' = {} /\ items' = <<>> /\ pack' = NoPack

(* A planned source without a retriever is answered for at once.           *)
Retrieve(question, bases, ontologies, domain, down) ==
  /\ stage = "idle"
  /\ stage' = "retrieving"
  /\ request' = [question |-> question, bases |-> bases, ontologies |-> ontologies,
                 domain |-> domain, down |-> down]
  /\ \E catalog \in Catalogs(ontologies) : plan' = Plan(question, catalog)
  /\ LET planned == DOMAIN plan'.steps
         absent  == SetToSeq(planned \ Registered(ontologies))
     IN  /\ running' = planned \cap Registered(ontologies)
         /\ items' = [i \in DOMAIN absent |-> Gather(plan', absent[i], NoResult)]
  /\ pack' = NoPack

(***************************************************************************)
(* The retrievers                                                          *)
(***************************************************************************)

(* Faulty: the domain of the ontology in scope is not used. *)
DomainNamed(r) == r.domain

(* The domain of the caller, or that of the only ontology in scope.        *)
DomainOf(r) ==
  IF r.domain = NoDomain /\ Len(r.ontologies) = 1 THEN r.ontologies[1].ontology.domain
  ELSE r.domain

ScopeOf(r) ==
  IF Len(r.bases) = 1 THEN ("knowledge_base_id" :> r.bases[1]) @@ Caller ELSE Caller

(* Faulty: a retriever that returned is waited for again. *)
ReturnAgain(source, result) ==
  /\ source \in running /\ Len(items) < Cardinality(Sources)
  /\ items' = Append(items, Gather(plan, source, result))
  /\ UNCHANGED <<stage, request, plan, pack, running>>

Return(source, result) ==
  /\ source \in running
  /\ running' = running \ {source}
  /\ items' = Append(items, Gather(plan, source, result))
  /\ UNCHANGED <<stage, request, plan, pack>>

EntityGraphReturns ==
  \E held \in [DOMAIN request.bases -> Views] :
    LET reply(i) == IF request.bases[i] \in request.down THEN Unreachable ELSE held[i]
    IN  Return("entity_graph",
           RetrieveEntities(request.bases, [i \in DOMAIN held |-> reply(i)], request.question.words, DomainOf(request),
                            ScopeOf(request), plan.targets))

BusinessDataReturns ==
  \E reply \in BusinessReplies : Return("business_data", RetrieveBusinessData(reply))

WikiReturns == \E found \in WikiItems : Return("wiki_rag", RetrieveWiki(found))

OntologyReturns ==
  Return("ontology_graph", RetrieveOntologies(request.ontologies, request.question.words))

(* A server is down, refuses, or does not answer within the timeout.       *)
RetrieverFails == \E s \in {"business_data", "wiki_rag"} : Return(s, AnError)

(***************************************************************************)
(* Arbitration, assembly, fallback                                         *)
(***************************************************************************)
Empty(p) == p.facts = {} /\ p.knowledge = {} /\ p.paths = {}

(* Faulty: a pack without content may be complete. *)
IsUnblocked(blocking, content) == blocking = {}

IsComplete(blocking, content) == blocking = {} /\ ~Empty(content)

AssemblePack(p, results) ==
  LET verdicts  == Arbitrate(FlattenSeq([i \in DOMAIN results |-> results[i].assertions]))
      all       == Range(results)
      facts     == UNION {v.accepted : v \in verdicts}
      knowledge == UNION {r.knowledge : r \in all}
      paths     == UNION {r.paths : r \in all}
      blocking  == {<<"ontology", term>> : term \in p.blockingIssues}
                     \cup {<<"source", r.source>> : r \in {r \in all : r.required /\ ~r.satisfied}}
                     \cup {<<"fact", v.slot>> :
                             v \in {v \in verdicts : v.status = "unresolved_conflict"}}
  IN  [facts |-> facts, knowledge |-> knowledge, paths |-> paths,
       gaps |-> UNION {r.gaps : r \in all}, blocking |-> blocking,
       status |-> [s \in {r.source : r \in all} |-> \E r \in all : r.source = s /\ r.satisfied],
       complete |-> IsComplete(blocking, [facts |-> facts, knowledge |-> knowledge, paths |-> paths]),
       fallback |-> FALSE]

(* Faulty: results are waited for from sources that were not planned. *)
AssembleAll ==
  /\ stage = "retrieving" /\ Len(items) = Cardinality(Registered(request.ontologies))
  /\ pack' = AssemblePack(plan, items) /\ stage' = "answered"
  /\ UNCHANGED <<request, plan, running, items>>

Assemble ==
  /\ stage = "retrieving" /\ running = {}
  /\ pack' = AssemblePack(plan, items)
  /\ stage' = IF plan.allowFallback /\ Empty(pack') THEN "fallback" ELSE "answered"
  /\ UNCHANGED <<request, plan, running, items>>

(* The fallback adds documents, or nothing if it fails or finds none.      *)
Fallback ==
  /\ stage = "fallback"
  /\ \E found \in WikiItems \cup {{}} :
       pack' = [pack EXCEPT !.knowledge = found, !.fallback = found # {}]
  /\ stage' = "answered"
  /\ UNCHANGED <<request, plan, running, items>>

Ask ==
  \E question \in Questions, bases \in Scopes :
    \E ontologies \in Resolutions(bases), domain \in Domains \cup {NoDomain},
       down \in SUBSET Range(bases) : Retrieve(question, bases, ontologies, domain, down)

Next ==
  \/ Ask \/ Refuse
  \/ EntityGraphReturns \/ BusinessDataReturns \/ WikiReturns \/ OntologyReturns
  \/ RetrieverFails \/ Assemble \/ Fallback

(* Every call to a server has a timeout, so every retriever returns.       *)
Returns ==
  EntityGraphReturns \/ BusinessDataReturns \/ WikiReturns \/ OntologyReturns \/ RetrieverFails

Fairness == WF_vars(Returns) /\ WF_vars(Assemble) /\ WF_vars(Fallback)

Spec == Init /\ [][Next]_vars /\ Fairness
=============================================================================
