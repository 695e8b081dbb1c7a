CONSTANTS
  level = level
  state = state
  address = address
  c1 = c1
  c2 = c2
  b1 = b1
  b2 = b2
  b3 = b3
  NoTag = NoTag
  Unused = Unused
  Received = Received
  Attributes = {level}
  Analog = {level}
  Small = {level}
  ClusterOf <- MCClusterOf
  ValuesOf <- MCTwoValues
  Entries = {1, 2}
  Configs <- MCPause
  Never = 9
  Bindings = 2
  Width = 32
  MsLimit = 2
  Quarter = 1
  QuarterLimit = 3
  Minute = 2
  DelayLimit = 20
  Late = 1
  Horizon = 2
  Buffers = {b1, b2, b3}
  CallbackSlots = 2
SPECIFICATION FairSpec
INVARIANTS
  CallbacksMatch
PROPERTIES
  ChangesReported
CHECK_DEADLOCK FALSE
