SPECIFICATION LiveSpec
CONSTANTS
  Stops = {s1}
  NoStop = NoStop
  Main = Main
  Configs <- MCConfigs
INVARIANTS StartTells OrderedStop BreakOnlyIfAsked
PROPERTIES FailureStaysVisible ToldEnds
CHECK_DEADLOCK FALSE
