CONSTANTS
  Window = 4
  MaxSignals = 1
SPECIFICATION RunSpec
PROPERTY
  SignalEndsRun
CHECK_DEADLOCK FALSE
