CONSTANTS
  m1 = m1
  m2 = m2
  Nobody = Nobody
  Messages = {m2}
  Length <- MCThreeFragments
  FragmentLen = 2
  BufferSize = 6
  MaxIncoming = 2
  AgeModulus = 3
  WindowSizes = {3}
  MaxOutgoing = 2
  LateCopies = 0
SPECIFICATION Spec
PROPERTIES
  ImplementsTransfer
CHECK_DEADLOCK FALSE
