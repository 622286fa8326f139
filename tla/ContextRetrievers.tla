-------------------------- MODULE ContextRetrievers --------------------------
(***************************************************************************)
(* The retrievers of the context service (internal/context): what each     *)
(* makes of the replies of the system behind it.  A result is              *)
(* [failed, assertions, knowledge, paths, gaps]: failed when an error is   *)
(* returned with it, assertions a sequence, gaps a set of <<source, what>>.*)
(***************************************************************************)
EXTENDS RetrievalPlanner

NoResult == [failed |-> FALSE, assertions |-> <<>>, knowledge |-> {}, paths |-> {}, gaps |-> {}]
AnError  == [NoResult EXCEPT !.failed = TRUE]

Usable(r) == r.assertions # <<>> \/ r.knowledge # {} \/ r.paths # {}

(***************************************************************************)
(* The entity graph.  A view of a knowledge base is [nodes, edges]: a      *)
(* node is [id, label, words, props], words those that its label, subtitle *)
(* and attributes contain, props a sequence of <<key, value>> (read from a *)
(* map, in an order the model fixes); an edge is [source, target, label].  *)
(***************************************************************************)
NodeSelected(n, words, targets) ==
  n.label \in words \/ n.words \cap targets.terms # {}

(* An attribute that is asked for, by id or by label; all, if none is.     *)
PropertyWanted(key, domain, targets) ==
  targets.properties = {} \/ ConceptId(domain, key) \in targets.properties
                          \/ key \in targets.terms

RelationWanted(label, domain, targets) ==
  targets.relations = {} \/ ConceptId(domain, label) \in targets.relations
                         \/ label \in targets.terms

Slot(subject, predicate) == <<subject, predicate>>

GraphAssertion(n, prop, domain, scope) ==
  [id |-> <<n.id, prop>>, slot |-> Slot(n.id, ConceptId(domain, prop[1])), value |-> prop[2],
   source |-> "entity_graph", authority |-> 80, confidence |-> 80, valid |-> TRUE,
   scope |-> scope, supersedes |-> {}]

(* What one node states: a fact for each attribute that is wanted.         *)
NodeFacts(n, domain, scope, targets) ==
  FlattenSeq([i \in DOMAIN n.props |->
    IF PropertyWanted(n.props[i][1], domain, targets)
    THEN <<GraphAssertion(n, n.props[i], domain, scope)>> ELSE <<>>])

GraphViewToResult(view, words, domain, scope, targets) ==
  LET selected   == {i \in DOMAIN view.nodes : NodeSelected(view.nodes[i], words, targets)}
      ids        == {view.nodes[i].id : i \in selected}
      assertions == FlattenSeq([i \in DOMAIN view.nodes |->
                      IF i \in selected THEN NodeFacts(view.nodes[i], domain, scope, targets)
                                        ELSE <<>>])
      paths      == {e \in view.edges : /\ e.source \in ids \/ e.target \in ids
                                        /\ RelationWanted(e.label, domain, targets)}
  IN  [NoResult EXCEPT
         !.assertions = assertions,
         !.paths      = paths,
         !.gaps       = IF assertions = <<>> /\ paths = {} /\ view.nodes # <<>>
                        THEN {<<"entity_graph", "nothing requested">>} ELSE {}]

(* One query per knowledge base, in turn; a base that fails leaves a gap   *)
(* and the others are still asked.  A reply is a view, or Unreachable.     *)
Unreachable == [nodes |-> <<>>, edges |-> {}, down |-> TRUE]

(* Faulty: a base that fails is passed over. *)
PassOverKnowledgeBase(kb, view, words, domain, scope, targets) ==
  IF view.down THEN NoResult ELSE GraphViewToResult(view, words, domain, scope, targets)

AskKnowledgeBase(kb, view, words, domain, scope, targets) ==
  IF view.down THEN [NoResult EXCEPT !.gaps = {<<"entity_graph", kb>>}]
  ELSE GraphViewToResult(view, words, domain, scope, targets)

RetrieveEntities(bases, views, words, domain, scope, targets) ==
  LET part(i) == AskKnowledgeBase(bases[i], views[i], words, domain, scope, targets)
      indexes == DOMAIN bases
      all     == [NoResult EXCEPT
                    !.assertions = FlattenSeq([i \in indexes |-> part(i).assertions]),
                    !.paths      = UNION {part(i).paths : i \in indexes},
                    !.gaps       = UNION {part(i).gaps : i \in indexes}]
  IN  IF bases = <<>> THEN [NoResult EXCEPT !.gaps = {<<"entity_graph", "no scope">>}]
      ELSE IF Usable(all) \/ all.gaps # {} THEN all
      ELSE [all EXCEPT !.gaps = {<<"entity_graph", "nothing matched">>}]

(***************************************************************************)
(* The ontologies: the concepts that the question names, each told apart   *)
(* by its knowledge base.  The ontology itself is searched, not the        *)
(* catalog: aliases that an overlay adds do not count.                     *)
(***************************************************************************)
OntologyItems(item, words) ==
  {<<item.namespace, t.id>> :
     t \in {t \in UNION {item.ontology.terms[k] : k \in Kinds} : TermMatches(words, t)}}

RetrieveOntologies(items, words) ==
  LET knowledge == UNION {OntologyItems(item, words) : item \in Range(items)}
  IN  [NoResult EXCEPT !.knowledge = knowledge,
                       !.gaps = IF knowledge = {} THEN {<<"ontology_graph", "nothing matched">>}
                                                  ELSE {}]

(***************************************************************************)
(* The business gateway fills in what its reply leaves out; 0 stands for a *)
(* weight that is missing, "" for a missing source.                        *)
(***************************************************************************)
WithDefaults(x) ==
  [x EXCEPT !.source     = IF @ = "" THEN "business_data" ELSE @,
            !.authority  = IF @ = 0 THEN 100 ELSE @,
            !.confidence = IF @ = 0 THEN 100 ELSE @]

RetrieveBusinessData(reply) ==
  [NoResult EXCEPT !.assertions = [i \in DOMAIN reply |-> WithDefaults(reply[i])]]

(* Wiki search returns what was found, or an error.                        *)
RetrieveWiki(found) == [NoResult EXCEPT !.knowledge = found]
=============================================================================
