CONSTANTS
  NumChannels = 2
  ChannelMask <- MCChannelMask
  MaxNetworks = 2
  MaxRejoinAttempts = 2
  MaxJoinAttempts = 3
  MaxPresses = 1
SPECIFICATION FairSpec
INVARIANTS
  TypeOK
  BufferHeld
  ScanNeverWedged
  FindNeverWedged
  OrphanRecovers
  MoveStopsOffNetwork
PROPERTIES
  SearchEnds
  SearchGivesUp
  OrphanRetries
CHECK_DEADLOCK FALSE
