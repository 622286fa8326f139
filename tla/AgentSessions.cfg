SPECIFICATION MCSpec
CONSTANTS
  p1 = p1
  p2 = p2
  s1 = s1
  s2 = s2
  t1 = t1
  t2 = t2
  w1 = w1
  w2 = w2
  a = a
  b = b
  None = None
  Profiles = {p1, p2}
  Workspaces = {w1, w2}
  WorkspaceOrder <- MCWorkspaceOrder
  Keys <- MCKeys
  Roles = {"owner", "viewer"}
  Sessions = {s1, s2}
  Identified = {s1}
  Turns = {a, b}
  SkillNames = {"report"}
  Tasks = {t1, t2}
  CommitPending = 3
  KeepRecent = 1
  MaxResets = 1
  MaxEvents = 4
SYMMETRY Symmetry
INVARIANTS
  TypeOK
  OwnersRemain
  OneWorkspacePerConversation
  AnswersFollowQuestions
  
  
  
PROPERTIES
  OnlyMembersAreServed
CHECK_DEADLOCK FALSE
