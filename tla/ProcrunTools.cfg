SPECIFICATION LiveSpec
CONSTANTS
  c1 = c1
  c2 = c2
  m1 = m1
  m2 = m2
  Clients = {c1, c2, m1, m2}
  Commands = {c1, c2}
  Monitors = {m1, m2}
  NoClient = NoClient
  Scenes <- MCScenes
INVARIANTS OneMonitor
PROPERTIES OnlyGivenWritten EditsAreSaved CommandEnds DeletedGoes IconFollows
CHECK_DEADLOCK FALSE
