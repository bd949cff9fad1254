CONSTANTS
  RotationTicks = 4
  SampleTicks = 2
  UpdateTicks = 3
  PhaseTicks <- MCPhaseTicks
  EventLimit = 3
  MaxScan = 4
  Spatial = TRUE
SPECIFICATION Spec
INVARIANTS
  PointsSeeTheLatestSurface
  NothingLeftBehind
  ModelIsWhole
  OnlyFaultsAreTerminal
PROPERTIES
  BatchesInStep
  EveryCallReturns
CHECK_DEADLOCK FALSE
