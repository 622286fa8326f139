-------------------------- MODULE ContextProperties --------------------------
(***************************************************************************)
(* What an agent may rely on when it is handed a context pack.             *)
(***************************************************************************)
EXTENDS ContextService

Answered == stage = "answered"
Words    == request.question.words
Cued(c)  == c \in request.question.cues
Planned(s) == s \in DOMAIN plan.steps

(* What the ontologies in scope declare, before any federation.            *)
Declared(k) ==
  UNION {{CompileTerm(t, Overlay) : t \in item.ontology.terms[k]} :
           item \in Range(request.ontologies)}

Assertions == FlattenSeq([i \in DOMAIN items |-> items[i].assertions])

ValidFacts == {x \in Range(Assertions) : x.valid}

(* The facts of one slot are of scopes that fit, and none replaces another. *)
Comparable ==
  \A x, y \in Range(Assertions) :
    x.slot = y.slot => ScopeCompatible(x.scope, y.scope) /\ x.supersedes = {}

(* Requests, plans, results and packs have the shapes they should have.    *)
TypeOK ==
  /\ stage \in {"idle", "retrieving", "fallback", "answered", "failed"}
  /\ DOMAIN plan.steps \subseteq Sources
  /\ \A s \in DOMAIN plan.steps : plan.steps[s] \in BOOLEAN
  /\ running \subseteq DOMAIN plan.steps
  /\ {r.source : r \in Range(items)} = DOMAIN plan.steps \ running
  /\ Len(items) = Cardinality(DOMAIN plan.steps \ running)
  /\ pack.complete \in BOOLEAN /\ pack.fallback \in BOOLEAN
  /\ stage = "fallback" => Empty(pack)

(* A pack says it is complete only if every required source answered with  *)
(* content and without an error, and no comparable facts were close enough *)
(* to the best one of their slot to dispute it: service.go:76-95,          *)
(* arbiter.go:62-65, assembler.go:28-74.                                   *)
CompleteIsEarned ==
  Answered /\ pack.complete =>
    /\ \A s \in DOMAIN plan.steps : plan.steps[s] =>
         \E r \in Range(items) :
           r.source = s /\ (r.assertions # <<>> \/ r.knowledge # {} \/ r.paths # {})
    /\ Comparable =>
         \A x, y \in ValidFacts :
           /\ x.slot = y.slot /\ x.value # y.value
           /\ \A z \in ValidFacts : z.slot = x.slot => Score(z) <= Score(x)
           => Score(x) - Score(y) > DefaultDelta

(* Documents found by the fallback never make up for structured or live    *)
(* facts: such a pack is not complete, and says what is missing            *)
(* (runtimecontext/service.go:122-137, assembler.go:69-74).                *)
FallbackNeverCompletes ==
  pack.fallback => ~pack.complete

(* If any ontology in scope has live data preferred for a property the     *)
(* question names by its label, a question for the current state is not    *)
(* answered completely without the business system, whatever the other     *)
(* ontologies say of that property (catalog.go:105-143, planner.go:94-99). *)
LiveQuestionsNeedLiveData ==
  /\ Answered /\ pack.complete
  /\ Cued("current") /\ ~Cued("schema") /\ ~Cued("definition")
  /\ \E t \in Declared("property") : t.label \in Words /\ Contains(t.sources, "business_data")
  => "business_data" \in DOMAIN pack.status /\ pack.status["business_data"]

(* No complete answer rests on a label in the question that ontologies in  *)
(* scope give to two concepts of one kind, nor on two labels in the        *)
(* question that they give to one concept (catalog.go:118-128,             *)
(* planner.go:213-222).                                                    *)
AmbiguityBlocks ==
  Answered /\ pack.complete =>
    \A k \in Kinds : \A t, u \in Declared(k) :
      t.label \in Words =>
        /\ t.label = u.label => t.id = u.id
        /\ t.id = u.id /\ u.label \in Words => t.label = u.label

(***************************************************************************)
(* The order in which retrievers return                                    *)
(***************************************************************************)
Rearrangements(s) ==
  {[i \in DOMAIN s |-> s[p[i]]] : p \in Bijection(DOMAIN s, DOMAIN s)}

(* What a reader acts on: completeness, the accepted values, what blocks.  *)
Gist(p) ==
  [complete |-> p.complete, values |-> {<<f.slot, f.value>> : f \in p.facts},
   blocking |-> p.blocking]

SameInAnyOrder ==
  \A s \in Rearrangements(items) : Gist(AssemblePack(plan, s)) = Gist(AssemblePack(plan, items))

(* Where the facts can be compared, the answer does not depend on which    *)
(* retriever was faster (service.go:67-95, arbiter.go:54-67).              *)
ComparableFactsInAnyOrder ==
  Answered /\ Comparable => SameInAnyOrder

(* The same without that condition: skills/cobra-knowledge-retrieval       *)
(* /SKILL.md:8 calls planner, arbiter and retrievers deterministic.        *)
AnswersAreDeterministic ==
  Answered => SameInAnyOrder

(***************************************************************************)
(* Partial failure                                                         *)
(***************************************************************************)

(* A pack that used the entity graph names every knowledge base whose      *)
(* graph could not be asked, even when the others delivered and the source *)
(* counts as satisfied (runtime_retrievers.go:42-55, assembler.go:31-34).  *)
UnaskedBasesAreNamed ==
  Answered /\ Planned("entity_graph") /\ "entity_graph" \in Retrievers =>
    \A kb \in request.down : <<"entity_graph", kb>> \in pack.gaps

(* With one ontology in scope, the business system and the entity graph    *)
(* state a property of a subject in one slot, so that they cannot both be  *)
(* believed when they differ (runtime_retrievers.go:81-99,                 *)
(* runtimecontext/service.go:109-112).                                     *)
OneValuePerProperty ==
  Answered /\ Len(request.ontologies) = 1 /\ request.domain = NoDomain =>
    \A f, g \in pack.facts :
      f.slot[1] = g.slot[1] /\ f.slot[2][2] = g.slot[2][2] => f.value = g.value

(* Every request ends in an answer or an error.                            *)
RequestsAreAnswered ==
  stage = "retrieving" ~> stage \in {"answered", "failed"}
=============================================================================
