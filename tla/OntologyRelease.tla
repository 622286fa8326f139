--------------------------- MODULE OntologyRelease ---------------------------
(***************************************************************************)
(* What docs/ONTOLOGY_REGISTRY.md promises of the ontology registry: a     *)
(* registered version keeps its content for ever, a published version was  *)
(* fit for it and stays published, only a published version is the active  *)
(* one, and a bound knowledge base can always be given a published one.    *)
(***************************************************************************)
CONSTANTS Ontologies, Versions, Contents, Publishable, KnowledgeBases, None

VARIABLES
  content,    \* ontology -> version -> what was registered, or None
  published,  \* ontology -> the versions that were published
  active,     \* ontology -> the version in force, or None
  bound       \* knowledge base -> <<ontology, version>>; None follows the active one

vars == <<content, published, active, bound>>

Init ==
  /\ content = [o \in Ontologies |-> [v \in Versions |-> None]]
  /\ published = [o \in Ontologies |-> {}]
  /\ active = [o \in Ontologies |-> None]
  /\ bound = [k \in KnowledgeBases |-> None]

Register(o, v, c) ==
  /\ content[o][v] = None
  /\ content' = [content EXCEPT ![o][v] = c]
  /\ UNCHANGED <<published, active, bound>>

Publish(o, v) ==
  /\ content[o][v] \in Publishable
  /\ published' = [published EXCEPT ![o] = @ \cup {v}]
  /\ active' = [active EXCEPT ![o] = v]
  /\ UNCHANGED <<content, bound>>

Activate(o, v) ==
  /\ v \in published[o]
  /\ active' = [active EXCEPT ![o] = v]
  /\ UNCHANGED <<content, published, bound>>

Bind(k, o, v) ==
  /\ IF v = None THEN active[o] # None ELSE v \in published[o]
  /\ bound' = [bound EXCEPT ![k] = <<o, v>>]
  /\ UNCHANGED <<content, published, active>>

Next ==
  \E o \in Ontologies :
    \/ \E v \in Versions :
         (\E c \in Contents : Register(o, v, c)) \/ Publish(o, v) \/ Activate(o, v)
    \/ \E k \in KnowledgeBases, v \in Versions \cup {None} : Bind(k, o, v)

Spec == Init /\ [][Next]_vars
=============================================================================
