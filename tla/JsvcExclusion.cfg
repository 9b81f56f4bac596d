SPECIFICATION Spec
CONSTANTS
  Instances = {i1, i2}
  Waiting = {}
  Stoppers = {s1}
  Pids = {p1, p2, p3}
  Inodes = {n1, n2}
  NoInstance = NoInstance
  NoPid = NoPid
  NoInode = NoInode
  MaxCrashes = 1
  MaxSignals = 0
  MaxStrangers = 1
SYMMETRY Symmetry
INVARIANTS OneServicePerFile OneServiceUnlessTorn StoppedIsDead EndLeavesNoPid StopEndsGenerations
CHECK_DEADLOCK FALSE
