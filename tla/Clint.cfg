CONSTANTS
  LO = 4
  HI = 3
  DELAY = 3
SPECIFICATION Spec
INVARIANT ReadsExact
INVARIANT RingsOnTime
PROPERTY Rings
CHECK_DEADLOCK FALSE
