CONSTANTS
  CellSize = 2
  MaxVertices = 256
  left = left
  right = right
  Sensors = {left, right}
  Boundary <- MCBoundary
  Lattice <- MCLattice
  Phases <- MCPhases
  SurfaceUpdates <- MCSurfaceUpdates
  SurfaceAt <- MCSurfaceAt
  Delays <- MCDelays
  AllSettings <- MCSettings
  PointAt <- MCPoint
  ScanLengths <- MCScanLengths
SPECIFICATION Spec
INVARIANTS
  VoidsFitTheSurface
  ScansResolve
  DropoutsCoverTheirPoints
PROPERTIES
  HistoryIsSettled
CHECK_DEADLOCK FALSE
