CONSTANTS
  ALIGN = 3
  MAX_CHUNK = 6
  MaxPosted = 1
  Byte <- AllBytes
  HostByte <- ThreeWords
  TargetByte = {10}
  Ranges <- SomeRanges
  NoCall = NoCall
SPECIFICATION Spec
INVARIANT TypeOK
INVARIANT InStep
PROPERTY ImplementsMemory
PROPERTY Returns
