SPECIFICATION Spec
CONSTANT MaxSignals = 4
INVARIANTS AtMostOneSleep
PROPERTIES UserSignalsServed ImplementsRequestLoop
CHECK_DEADLOCK FALSE
