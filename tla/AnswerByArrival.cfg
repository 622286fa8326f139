SPECIFICATION Spec
CONSTANTS
  kb1 = kb1
  kb2 = kb2
  Unbound = Unbound
  KnowledgeBases = {kb1, kb2}
  LabelOrder <- MCLabelOrder
  Scopes <- MCOneScope
  Questions <- MCOneQuestion
  Ontologies <- MCOntologies
  Overlay <- MCOverlay
  Retrievers = {"business_data", "entity_graph", "wiki_rag"}
  Views <- MCViews
  BusinessReplies <- MCScopedReplies
  WikiItems <- MCWiki
  Domains = {"sport"}
  Caller <- MCCaller
INVARIANTS AnswersAreDeterministic
CHECK_DEADLOCK FALSE
