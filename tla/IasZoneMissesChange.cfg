CONSTANTS
  Devices = {d1}
  ServerEndpoint = 1
  ClientEndpoint = 1
  MaxDevices = 1
  Budget <- OneJoin
SPECIFICATION Spec
INVARIANT ClientTracksServer
CHECK_DEADLOCK FALSE
