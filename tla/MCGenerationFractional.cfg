CONSTANTS
  RotationTicks = 5
  SampleTicks = 2
  UpdateTicks = 3
  PhaseTicks <- MCPhaseTicks
  EventLimit = 3
  MaxScan = 4
  Spatial = TRUE
SPECIFICATION Spec
INVARIANT
  OnlyFaultsAreTerminal
CHECK_DEADLOCK FALSE
