CONSTANTS
  KeyTime <- MCKeyTime
  TargetTicks = 2
  MaxGap = 2
  MaxSegmentFrames = 3
  MaxRuns = 1
  MaxGeneration = 3
  MaxImage = 1
SPECIFICATION Spec
PROPERTY
  GapIsHeld
CHECK_DEADLOCK FALSE
