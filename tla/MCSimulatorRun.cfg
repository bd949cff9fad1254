CONSTANTS
  Window = 4
  MaxSignals = 2
SPECIFICATION RunSpec
INVARIANTS
  BatchesInOrder
  SummaryOnlyAfterSuccess
PROPERTIES
  RunReturns
  FailureEndsRun
CHECK_DEADLOCK FALSE
