SPECIFICATION OptionsSpec
CONSTANTS
  Options <- MCOptions
  Kind <- MCKind
  HugMax = 4
  Commands = {"US"}
  AltCommands <- MCAltCommands
  Cases <- MCCases
INVARIANTS PiecesKept
PROPERTIES LastWordWins
CHECK_DEADLOCK FALSE
