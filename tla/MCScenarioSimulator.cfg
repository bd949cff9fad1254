CONSTANTS
  CellSize = 2
  MaxVertices = 256
  Top = 24
  Repose = 2
  MaxIterations = 32
  Kernel <- MCKernel
  Unit = 12
  MaxSegments = 2
  Inputs <- MCInputs
  MaxInlets = 16
  ReferenceMean = 6
  EventLimit = 3
  CallTimes <- MCCallTimes
SPECIFICATION ScenarioSpec
INVARIANTS
  PlanesAreIntegratedExactly
  EventsOnSchedule
  VolumeFollowsThePlan
  OnlyLimitsFail
CHECK_DEADLOCK FALSE
