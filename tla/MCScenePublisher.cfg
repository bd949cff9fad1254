CONSTANTS
  MaxSequence = 3
  MaxKeyframe = 4
  CounterMax = 3
  InitialDelay = 1
  MaximumDelay = 3
SPECIFICATION Spec
INVARIANTS
  RecordAccounting
  NoLostWakeup
PROPERTIES
  MailboxSpec
  PendingIsAttempted
  CloseEnds
CHECK_DEADLOCK FALSE
