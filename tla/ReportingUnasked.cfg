CONSTANTS
  level = level
  state = state
  address = address
  c1 = c1
  c2 = c2
  b1 = b1
  b2 = b2
  b3 = b3
  NoTag = NoTag
  Unused = Unused
  Received = Received
  Attributes = {level, state}
  Analog = {level}
  Small = {level, state}
  ClusterOf <- MCClusterOf
  ValuesOf <- MCValuesOf
  Entries = {1, 2}
  Configs <- MCConfigs
  Never = 9
  Bindings = 1
  Width = 32
  MsLimit = 2
  Quarter = 1
  QuarterLimit = 3
  Minute = 2
  DelayLimit = 20
  Late = 1
  Horizon = 5
  Buffers = {}
  CallbackSlots = 1
SPECIFICATION Spec
PROPERTY ReportsForCause
CHECK_DEADLOCK FALSE
