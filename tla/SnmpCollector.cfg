SPECIFICATION Spec
CONSTANTS
  Unknown = Unknown
  Null = Null
  Catalogs <- MCCatalogs
  Text = {"1.3"}
  DottedString <- MCDottedString
  MaxPolls = 2
INVARIANTS PolledAsListed MeasuredAsListed
CHECK_DEADLOCK FALSE
