CONSTANT ButtonGate = TRUE
SPECIFICATION Spec
INVARIANTS
  DebouncesAChange
  GateHolds
CHECK_DEADLOCK FALSE
