CONSTANTS
  m1 = m1
  m2 = m2
  Nobody = Nobody
  Messages = {m1, m2}
  Length <- MCLength
  FragmentLen = 2
  BufferSize = 6
  MaxIncoming = 2
  AgeModulus = 3
  WindowSizes = {1, 2}
  MaxOutgoing = 2
  LateCopies = 1
SPECIFICATION Spec
INVARIANTS
  TypeOK
  EntriesHold
  PassedOnce
  PassedWhole
PROPERTIES
  ImplementsTransfer
CHECK_DEADLOCK FALSE
