SPECIFICATION Spec
CONSTANTS
  Instances = {i1, i2}
  Waiting = {}
  Stoppers = {}
  Pids = {p1, p2, p3}
  Inodes = {n1, n2}
  NoInstance = NoInstance
  NoPid = NoPid
  NoInode = NoInode
  MaxCrashes = 0
  MaxSignals = 1
  MaxStrangers = 0
SYMMETRY Symmetry
INVARIANTS OneService
CHECK_DEADLOCK FALSE
