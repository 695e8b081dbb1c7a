CONSTANTS
  Devices = {d1, d2}
  ServerEndpoint = 1
  ClientEndpoint = 1
  MaxDevices = 2
  Budget <- TwoJoins
SPECIFICATION Spec
INVARIANT StatusOfRightServer
CHECK_DEADLOCK FALSE
