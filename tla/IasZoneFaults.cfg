CONSTANTS
  Devices = {d1, d2}
  ServerEndpoint = 1
  ClientEndpoint = 1
  MaxDevices = 2
  Budget <- Faulty
SPECIFICATION Spec
SYMMETRY DeviceSymmetry
INVARIANTS
  TypeOK
  EnrolledIsKnown
  NoDuplicateServers
PROPERTY ImplementsEnrolment
CHECK_DEADLOCK FALSE
