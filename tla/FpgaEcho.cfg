CONSTANTS
  BYTE = 2
  DEPTH = 2
  MaxBits = 8
SPECIFICATION Spec
INVARIANT EveryByteSent
