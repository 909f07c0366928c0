CONSTANTS
  num_harts = 2
  Addr <- ThreeWords
  First <- FirstWords
  MaxLen = 3
  RegFile <- TwoFiles
  TargetAddr = {1}
  Boot <- BootPc
  Entry <- EntryPc
  NoCall = NoCall
SPECIFICATION Spec
INVARIANT NeverTooEarly
INVARIANT QuietBetweenCalls
INVARIANT RegistersKept
PROPERTY ResetStarts
PROPERTY ImplementsMemory
PROPERTY Returns
