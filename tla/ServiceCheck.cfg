SPECIFICATION LiveSpec
CONSTANTS
  Checks <- MCChecks
  Tests <- MCTests
  Types <- MCTypes
  Url = "url"
  NoCheck = NoCheck
  checkOf <- MCCheckOf
  typeOf <- MCTypeOf
  MaxPolls = 1
  Consumers = 1
  Senders = 2
  MaxCrashes = 1
INVARIANTS WholeRequests FailureIsLocal
PROPERTIES DeliverySafety TestsEnd MeasuresEnd
CHECK_DEADLOCK FALSE
