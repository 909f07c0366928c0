CONSTANTS
  Keys <- OneKey
  Frames <- TwoFrames
  INT = 16
  BUF = 2
  MaxChars = 4
  MaxTraps = 1
  HandlerPrints = FALSE
  ExitCodes <- Codes
  Console <- ConsoleCommands
SPECIFICATION Spec
INVARIANT TypeOK
INVARIANT OnePlace
INVARIANT ReplyMeansDone
INVARIANT OutputInOrder
INVARIANT FrameInUse
INVARIANT ExitReported
PROPERTY PrintReturns
PROPERTY ExitEnds
CHECK_DEADLOCK FALSE
