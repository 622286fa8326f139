SPECIFICATION Spec
CONSTANTS
  ws = ws
  alice = alice
  adam = adam
  s1 = s1
  kb1 = kb1
  t1 = t1
  t2 = t2
  Absent = Absent
  Blank = Blank
  None = None
  Workspaces = {ws}
  Users = {alice, adam}
  SkillNames = {}
  KnowledgeBases = {kb1}
  Contents = {t1, t2}
  CandidateIds = {c1}
  Workers = {w1, w2}
  KnowledgeIds = {k1, k2}
  MaxVersion = 5
  Faults = TRUE
  Edits = TRUE
  Principals <- MCBoth
  Drafts <- MCKnowledgeDrafts
  ReviewInputs <- MCReviews
  Similar <- MCSimilar
INVARIANTS  InductiveInvariant 
SYMMETRY Symmetry
CHECK_DEADLOCK FALSE
