SPECIFICATION LiveSpec
CONSTANTS
  Instances = {i1, i2}
  Waiting = {i1}
  Stoppers = {}
  Pids = {p1, p2}
  Inodes = {n1, n2}
  NoInstance = NoInstance
  NoPid = NoPid
  NoInode = NoInode
  MaxCrashes = 0
  MaxSignals = 1
  MaxStrangers = 0
PROPERTIES ReadyMeansServing CheckEnds StopHonoured ReloadHonoured
CHECK_DEADLOCK FALSE
