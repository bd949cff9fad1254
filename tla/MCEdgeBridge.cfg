CONSTANTS
  Configs <- MCConfigs
  MaxTimeout = 500
  MaxInitial = 6000
  MaxDelay = 30000
  FrameTicks = 3
  PollTicks = 1
  ShutdownPollTicks = 2
  Texts <- MCTexts
  Jpegs <- MCJpegs
  Devices <- MCDevices
  MaxPieces = 2
SPECIFICATION Spec
INVARIANTS
  SlotAccounting
  BackoffFollowsFailures
PROPERTIES
  ShowsTheLatestFrame
  ShutdownEnds
  SilenceEndsTheSession
CHECK_DEADLOCK FALSE
