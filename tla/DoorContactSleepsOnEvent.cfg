CONSTANT ButtonGate = FALSE
SPECIFICATION Spec
INVARIANT NoTaskWhileAsleep
CHECK_DEADLOCK FALSE
