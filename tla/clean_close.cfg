SPECIFICATION Spec
CONSTANTS
  MaxIn = 0
  MaxOut = 1
  MaxErr = 0
  StdinCap = 1
  PeerFrames <- McptpClient
  ParseOutcomes <- OnlyResponses
  HeldPipes = FALSE
INVARIANTS
  CleanCloseIsComplete
CHECK_DEADLOCK FALSE
