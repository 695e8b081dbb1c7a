CONSTANT ButtonGate = FALSE
SPECIFICATION FairSpec
INVARIANTS
  TypeOK
  QuietContactReported
PROPERTIES
  ImplementsContactSpec
  RestingContactReported
CHECK_DEADLOCK FALSE
