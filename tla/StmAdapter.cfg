CONSTANTS
  Addr <- TwoAddrs
  Half <- TwoHalves
SPECIFICATION Spec
INVARIANT TypeOK
INVARIANT InOrder
INVARIANT QuietBetweenRequests
PROPERTY BufferStableWhileSending
PROPERTY ImplementsMemory
PROPERTY Answered
