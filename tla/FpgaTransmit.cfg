CONSTANTS
  BYTE = 2
  DEPTH = 4
SPECIFICATION Spec
PROPERTY Transferred
