SPECIFICATION Spec
CONSTANTS
  kb1 = kb1
  kb2 = kb2
  Unbound = Unbound
  KnowledgeBases = {kb1, kb2}
  LabelOrder <- MCLabelOrder
  Scopes <- MCScopes
  Questions <- MCQuestions
  Ontologies <- MCOntologies
  Overlay <- MCOverlay
  Retrievers = {"business_data", "entity_graph", "wiki_rag"}
  Views <- MCViews
  BusinessReplies <- MCReplies
  WikiItems <- MCWiki
  Domains = {"sport"}
  Caller <- MCCaller
INVARIANTS
  TypeOK CompleteIsEarned  LiveQuestionsNeedLiveData AmbiguityBlocks
  ComparableFactsInAnyOrder UnaskedBasesAreNamed OneValuePerProperty
PROPERTIES RequestsAreAnswered
CHECK_DEADLOCK FALSE
