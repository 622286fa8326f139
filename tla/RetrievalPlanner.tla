-------------------------- MODULE RetrievalPlanner --------------------------
(***************************************************************************)
(* The planner (internal/retrieval/planner.go): which sources a question   *)
(* is put to, which of them the answer cannot do without, and the          *)
(* conflicts between ontologies that keep it from being complete.          *)
(*                                                                         *)
(* A question is [words, cues]: the catalog words it contains and the word *)
(* lists (planner.go:14-19) that it, or its task, contains a word of.      *)
(***************************************************************************)
EXTENDS SemanticCatalog

Cues == {"schema", "definition", "reason", "current", "metric", "complex"}

(* A choice of sources: each one with whether it is required.              *)
Choice(required, optional) == [s \in required \cup optional |-> s \in required]

(* Faulty: only the first choice of a property counts. *)
FirstChoicePrefers(q, catalog, source) ==
  \E t \in MatchedTerms(q.words, catalog, "property") : Head(t.sources) = source

MatchedPropertyPrefers(q, catalog, source) ==
  \E t \in MatchedTerms(q.words, catalog, "property") : Contains(t.sources, source)

(* In the order of the properties, the sources of each in its own order.   *)
PreferredSources(q, catalog) ==
  LET terms   == catalog.terms["property"]
      wanted  == [i \in DOMAIN terms |-> IF TermMatches(q.words, terms[i]) THEN terms[i].sources
                                         ELSE <<>>]
  IN  MergeSources(<<>>, FlattenSeq(wanted))

SourceChoices(q, catalog) ==
  LET matches(k)        == MatchedTerms(q.words, catalog, k) # {}
      businessPreferred == MatchedPropertyPrefers(q, catalog, "business_data")
      live              == "current" \in q.cues /\ businessPreferred
      preferred         == PreferredSources(q, catalog)
  IN  IF "schema" \in q.cues THEN Choice({"ontology_graph"}, {})
      ELSE IF "definition" \in q.cues
      THEN Choice({"wiki_rag"}, IF \E k \in Kinds : matches(k) THEN {"ontology_graph"} ELSE {})
      ELSE IF "reason" \in q.cues
      THEN IF live THEN Choice({"business_data"}, {"wiki_rag", "entity_graph"})
                   ELSE Choice({"entity_graph"}, {"wiki_rag"})
      ELSE IF live \/ ("metric" \in q.cues /\ businessPreferred) THEN Choice({"business_data"}, {})
      ELSE IF preferred # <<>> THEN Choice({Head(preferred)}, Range(preferred))
      ELSE IF matches("class") \/ matches("relation") THEN Choice({"entity_graph"}, {})
      ELSE Choice({"wiki_rag"}, {})

(* A source of an ontology that no retriever is known for gets no step.    *)
PlanSteps(q, catalog) ==
  LET chosen == SourceChoices(q, catalog) IN Restrict(chosen, DOMAIN chosen \cap Sources)

(* Faulty: a label that two concepts share is no conflict. *)
RenamedConflicts(q, catalog) ==
  {c \in catalog.conflicts : ~c.sameLabel /\ c.term \in q.words}

(* A conflict concerns a question that contains the label it is about.     *)
RelevantConflicts(q, catalog) ==
  {c \in catalog.conflicts : c.term \in q.words}

(* What the steps ask for; every step carries the same targets.            *)
PlanTargets(q, catalog) ==
  LET matched == UNION {MatchedTerms(q.words, catalog, k) : k \in Kinds}
  IN  [terms      |-> {t.label : t \in matched},
       properties |-> {t.id : t \in MatchedTerms(q.words, catalog, "property")},
       relations  |-> {t.id : t \in MatchedTerms(q.words, catalog, "relation")}]

Plan(q, catalog) ==
  LET steps == PlanSteps(q, catalog)
  IN  [steps          |-> steps,
       targets        |-> PlanTargets(q, catalog),
       freshness      |-> IF "business_data" \in DOMAIN steps /\ steps["business_data"] THEN "live"
                          ELSE IF "current" \in q.cues THEN "current" ELSE "any",
       complex        |-> "complex" \in q.cues /\ Cardinality(DOMAIN steps) > 1,
       blockingIssues |-> {c.term : c \in RelevantConflicts(q, catalog)},
       allowFallback  |-> TRUE]
=============================================================================
