CONSTANTS
  Addr <- OneAddr
  Half <- TwoHalves
SPECIFICATION Spec
INVARIANT WriteIsKept
