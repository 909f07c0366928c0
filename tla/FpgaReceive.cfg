CONSTANTS
  BYTE = 2
  DEPTH = 4
  MaxBits = 14
SPECIFICATION Spec
INVARIANT TypeOK
INVARIANT AcceptedFits
INVARIANT BytesFramed
INVARIANT NothingFromBeforeReset
INVARIANT NoByteTwice
PROPERTY ImplementsQueue
PROPERTY Drained
