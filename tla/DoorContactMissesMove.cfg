CONSTANT ButtonGate = FALSE
SPECIFICATION Spec
INVARIANT ContactReported
CHECK_DEADLOCK FALSE
