CONSTANTS
  KeyTime <- MCKeyTime
  TargetTicks = 2
  MaxGap = 5
  MaxSegmentFrames = 3
  MaxRuns = 2
  MaxGeneration = 3
  MaxImage = 2
SPECIFICATION Spec
INVARIANTS
  StoresAgree
  SlotAccounting
PROPERTIES
  RenderedInOrder
  SegmentIsRendered
  CloseEnds
CHECK_DEADLOCK FALSE
