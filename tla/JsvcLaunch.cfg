SPECIFICATION Spec
CONSTANTS
  VmOptions <- MCVmOptions
  BadOptions <- MCBadOptions
  Number <- MCNumber
  ClassPaths <- MCClassPaths
  Jars <- MCJars
  Launches <- MCLaunches
  MaxReopens = 1
INVARIANTS ReadAsWritten LibraryAsAsked OutputArrives
CHECK_DEADLOCK FALSE
