--------------------------- MODULE WeKnoraBackend ---------------------------
(***************************************************************************)
(* internal/promotion/weknora_backend.go and the part of the WeKnora       *)
(* server it talks to: the manual knowledge of its knowledge bases.        *)
(***************************************************************************)
EXTENDS PromotionTypes

CONSTANT
  Similar  \* pairs of statements whose search score lies between the
           \* conflict and the duplicate threshold

ASSUME SimilarAssumption == Similar \subseteq Contents \X Contents

VARIABLE knowledge  \* knowledge id -> the entry, None while the id is unused

Entry == [kb: KnowledgeBases, statement: Contents, live: BOOLEAN]

ASSUME EntrySentinelAssumption == None \notin Entry

KnowledgeType == knowledge \in [KnowledgeIds -> Entry \cup {None}]

KnowledgeInit == knowledge = [k \in KnowledgeIds |-> None]

Live == {k \in KnowledgeIds : knowledge[k] # None /\ knowledge[k].live}

-----------------------------------------------------------------------------
(* The entries of the target knowledge base a search may return. *)
Hits(d) == {k \in Live : knowledge[k].kb = d.target}

(* The loop of Inspect over the search results: the first one that is a    *)
(* duplicate or a conflict decides.  The search returns any of the entries *)
(* in any order (ranking, paging, an index that lags), so it may also miss *)
(* them all.                                                               *)
Verdicts(d) ==
  {"CREATE"}
  \cup {"SKIP"     : k \in {h \in Hits(d) : knowledge[h].statement = d.content}}
  \cup {"CONFLICT" : k \in {h \in Hits(d) : <<knowledge[h].statement, d.content>> \in Similar}}

KnowledgeInspection(evidence, valid, decision) ==
  [decision |-> decision, evidence |-> evidence, duplicate |-> decision = "SKIP",
   conflict |-> decision = "CONFLICT", valid |-> valid, current |-> Absent]

(* Inspect: the principal or the knowledge base is refused or the evidence *)
(* is not readable; the search fails; or the search gives a verdict.       *)
KnowledgeInspections(d) ==
  {KnowledgeInspection(FALSE, FALSE, "CREATE")}
  \cup (IF d.sourced
        THEN {KnowledgeInspection(TRUE, FALSE, "CREATE")}
             \cup {KnowledgeInspection(TRUE, TRUE, v) : v \in Verdicts(d)}
        ELSE {})

-----------------------------------------------------------------------------
(* The server creates an entry under an identifier of its own choice. *)
NewEntry(k, kb, statement) ==
  /\ knowledge[k] = None
  /\ knowledge' = [knowledge EXCEPT ![k] = [kb |-> kb, statement |-> statement, live |-> TRUE]]

(* Publish: POST the statement as manual knowledge. *)
KnowledgePublish(c, k) == NewEntry(k, c.draft.target, c.draft.content)

KnowledgePublication(k) == [resource |-> k, action |-> "create", previous |-> Absent]

(* Faulty: the entry stays in the search index. *)
KnowledgeRollbackForgetsEntry(c) ==
  /\ c.publication.resource \in Live
  /\ UNCHANGED knowledge

(* Rollback: DELETE the created entry; a second DELETE finds nothing. *)
KnowledgeRollback(c) ==
  /\ c.publication.resource \in Live
  /\ knowledge' = [knowledge EXCEPT ![c.publication.resource].live = FALSE]

KnowledgeRollbackRefusable(c) == c.publication.resource \notin Live

(* Other WeKnora clients add and remove knowledge. *)
KnowledgeEdit(k) ==
  \/ \E kb \in KnowledgeBases, t \in Contents : NewEntry(k, kb, t)
  \/ k \in Live /\ knowledge' = [knowledge EXCEPT ![k].live = FALSE]
=============================================================================
