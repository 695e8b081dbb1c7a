CONSTANTS
  Devices = {d1, d2}
  ServerEndpoint = 1
  ClientEndpoint = 1
  MaxDevices = 1
  Budget <- Rejoining
SPECIFICATION Spec
INVARIANTS
  EnrolledHasZoneId
  HandshakeUnderWay
PROPERTY EnrolmentCompletes
CHECK_DEADLOCK FALSE
