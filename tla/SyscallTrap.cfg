CONSTANTS
  Keys <- OneKey
  Frames <- TwoFrames
  INT = 16
  BUF = 2
  MaxChars = 4
  MaxTraps = 1
  HandlerPrints = TRUE
  ExitCodes <- Codes
  Console <- NoCommands
SPECIFICATION Spec
PROPERTY PrintReturns
CHECK_DEADLOCK FALSE
