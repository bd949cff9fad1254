CONSTANTS
  MaxSequence = 3
  MaxRuns = 2
  MaxConnections = 3
  MaxVisualizers = 2
  Gapped <- MCGapped
SPECIFICATION LinkSpec
INVARIANTS
  NothingRejected
  SceneAccounting
PROPERTIES
  ProducerReleased
CHECK_DEADLOCK FALSE
