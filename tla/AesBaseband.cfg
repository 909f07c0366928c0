CONSTANTS
  N = 3
  BASE = 2
  LEN = 2
SPECIFICATION Spec
INVARIANT ChecksPass
INVARIANT DoneMeansSent
PROPERTY Finishes
CHECK_DEADLOCK FALSE
