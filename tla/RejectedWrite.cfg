SPECIFICATION Spec
CONSTANTS
  ws = ws
  alice = alice
  adam = adam
  s1 = s1
  kb1 = kb1
  t1 = t1
  t2 = t2
  Absent = Absent
  Blank = Blank
  None = None
  Workspaces = {ws}
  Users = {alice, adam}
  SkillNames = {s1}
  KnowledgeBases = {kb1}
  Contents = {t1, t2}
  CandidateIds = {c1}
  Workers = {w1, w2}
  KnowledgeIds = {}
  MaxVersion = 5
  Faults = FALSE
  Edits = FALSE
  Principals <- MCReviewer
  Drafts <- MCOneSkill
  ReviewInputs <- MCDecide
  Similar <- MCSimilar
PROPERTIES RejectedIsNeverWritten
CHECK_DEADLOCK FALSE
