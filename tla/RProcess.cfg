SPECIFICATION LiveSpec
CONSTANTS
  Callers = {main, stop}
  MaxOutput = 1
  Blank = {"stdout"}
  Others = {0}
INVARIANTS OutputComplete ExitCodeKnown ClosedIsGone
PROPERTIES CloseEnds
CHECK_DEADLOCK FALSE
