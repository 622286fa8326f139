--------------------------- MODULE SemanticCatalog ---------------------------
(***************************************************************************)
(* The semantic catalog (internal/retrieval/catalog.go): the classes,      *)
(* properties and relations of an ontology in the form the planner reads,  *)
(* and the federation of the catalogs of several knowledge bases.          *)
(*                                                                         *)
(* A word is a label or an alias, up to case and blanks.  A query is known *)
(* by the catalog words it contains, so that containment of strings is     *)
(* membership.  A concept is a record [id, label, aliases, sources], where *)
(* an id is what model.StableID makes of a domain and a label: the pair.   *)
(***************************************************************************)
EXTENDS Naturals, SequencesExt

CONSTANT LabelOrder     \* every label, in the order of strings

Kinds   == {"class", "property", "relation"}
Sources == {"business_data", "entity_graph", "wiki_rag", "ontology_graph"}

ConceptId(domain, label) == <<domain, label>>

(***************************************************************************)
(* Compiling one ontology                                                  *)
(***************************************************************************)
AddNew(s, x) == IF Contains(s, x) THEN s ELSE Append(s, x)

MergeSources(a, b) ==
  LET s == a \o b
      merged[n \in 0..Len(s)] == IF n = 0 THEN <<>> ELSE AddNew(merged[n - 1], s[n])
  IN  merged[Len(s)]

Rank(label) == CHOOSE i \in DOMAIN LabelOrder : LabelOrder[i] = label

(* The sorts are not stable over a map: equal labels come in any order.    *)
SortTerms(terms) ==
  {s \in SetToSeqs(terms) : \A i, j \in DOMAIN s : i < j => Rank(s[i].label) <= Rank(s[j].label)}

(* The overlay of a label replaces the sources and adds aliases; without   *)
(* sources of its own a concept is looked for in the entity graph.         *)
NoOverlay == [aliases |-> {}, sources |-> <<>>]

CompileTerm(t, overlay) ==
  LET ov  == IF t.label \in DOMAIN overlay THEN overlay[t.label] ELSE NoOverlay
      own == IF t.sources = <<>> THEN <<"entity_graph">> ELSE t.sources
  IN  [t EXCEPT !.aliases = @ \cup ov.aliases,
                !.sources = IF ov.sources = <<>> THEN own ELSE ov.sources]

(* An ontology names its concepts of one kind apart, so the order is given. *)
CompileCatalog(o, overlay) ==
  [k \in Kinds |-> CHOOSE s \in SortTerms({CompileTerm(t, overlay) : t \in o.terms[k]}) : TRUE]

(***************************************************************************)
(* Federation.  inputs is a sequence of [namespace, terms].  Concepts with *)
(* one id are merged unless their labels differ; a label with two ids is a *)
(* conflict, and so is an id with two labels.                              *)
(***************************************************************************)
NothingYet == [byId |-> <<>>, labelToId |-> <<>>, conflicts |-> {}]

Assign(f, x, y) == [z \in DOMAIN f \cup {x} |-> IF z = x THEN y ELSE f[z]]

FederateTerm(acc, t) ==
  LET ambiguous == t.label \in DOMAIN acc.labelToId /\ acc.labelToId[t.label] # t.id
      known     == t.id \in DOMAIN acc.byId
      renamed   == known /\ acc.byId[t.id].label # t.label
      merged    == [acc.byId[t.id] EXCEPT !.aliases = @ \cup t.aliases,
                                          !.sources = MergeSources(@, t.sources)]
  IN  [byId      |-> IF renamed THEN acc.byId
                     ELSE Assign(acc.byId, t.id, IF known THEN merged ELSE t),
       labelToId |-> IF ambiguous THEN acc.labelToId ELSE Assign(acc.labelToId, t.label, t.id),
       conflicts |-> acc.conflicts
                       \cup (IF ambiguous THEN {[term |-> t.label, sameLabel |-> TRUE]} ELSE {})
                       \cup (IF renamed THEN {[term |-> t.label, sameLabel |-> FALSE]} ELSE {})]

FederateTerms(terms) ==
  LET federated[n \in 0..Len(terms)] ==
        IF n = 0 THEN NothingYet ELSE FederateTerm(federated[n - 1], terms[n])
  IN  federated[Len(terms)]

FederateKind(k, inputs) ==
  FederateTerms(FlattenSeq([i \in DOMAIN inputs |-> inputs[i].terms[k]]))

(* The catalogs that may come out, one per order of equal labels.          *)
FederateCatalogs(inputs) ==
  IF Len(inputs) = 1
  THEN {[terms |-> inputs[1].terms, conflicts |-> {}]}
  ELSE LET merged   == [k \in Kinds |-> FederateKind(k, inputs)]
           sorts(k) == SortTerms(Range(merged[k].byId))
       IN  {[terms     |-> terms,
             conflicts |-> UNION {merged[k].conflicts : k \in Kinds}] :
              terms \in {f \in [Kinds -> UNION {sorts(k) : k \in Kinds}] :
                           \A k \in Kinds : f[k] \in sorts(k)}}

(***************************************************************************)
(* Matching                                                                *)
(***************************************************************************)
TermMatches(words, t) == t.label \in words \/ t.aliases \cap words # {}

MatchedTerms(words, catalog, k) ==
  {t \in Range(catalog.terms[k]) : TermMatches(words, t)}
=============================================================================
