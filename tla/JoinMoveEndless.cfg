CONSTANTS
  NumChannels = 2
  ChannelMask <- MCChannelMask
  MaxNetworks = 2
  MaxRejoinAttempts = 1
  MaxJoinAttempts = 2
  MaxPresses = 1
SPECIFICATION Spec
INVARIANT MoveGivesUp
CHECK_DEADLOCK FALSE
