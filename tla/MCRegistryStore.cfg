SPECIFICATION Spec
CONSTANTS
  notes = notes
  documents = documents
  r1 = r1
  r2 = r2
  r3 = r3
  a = a
  b = b
  Names = {notes, documents}
  Requests = {r1, r2, r3}
  Asks <- Asked
  AgentIds = {a, b}
  AgentFiles <- Agent
  StartFiles <- Starts
  MaxVersions = 2
  MaxFailures = 1
  MaxRestarts = 1
INVARIANTS
  VersionsIncrease
PROPERTIES
  CollectionsAreSerial
  EveryRequestEnds
CHECK_DEADLOCK FALSE
