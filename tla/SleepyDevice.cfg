CONSTANTS
  ShortPoll = 1
  LongPoll = 2
  WakeTimeout = 1
  TickModulus = 3
  MaxMissedPolls = 2
  CounterModulus = 3
  MaxRejoinAttempts = 1
  Messages = {m1, m2}
  Budget = 2
SPECIFICATION FairSpec
INVARIANTS
  TypeOK
  CountsThisParent
PROPERTIES
  SleepsShort
  LeavesForCause
  ReturnsToLongPolls
  SilentParentLeft
CHECK_DEADLOCK FALSE
