SPECIFICATION Spec
CONSTANTS
  grid = grid
  v1 = v1
  v2 = v2
  kb1 = kb1
  power = power
  water = water
  b1 = b1
  f1 = f1
  f2 = f2
  server = server
  command = command
  None = None
  OntologyIds = {grid}
  Versions = {v1, v2}
  KnowledgeBases = {kb1}
  Domains = {power, water}
  Bodies = {b1}
  FileNames = {f1, f2}
  Processes = {server}
  MaxEvents = 2
  Faults = FALSE
  FileName <- MCFileName
  Owns <- MCSole
  Snapshots <- MCTwoDomains
PROPERTIES ExistingIsListed
CHECK_DEADLOCK FALSE
