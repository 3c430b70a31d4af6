SPECIFICATION FairSpec
CONSTANTS
  MaxIn = 0
  MaxOut = 0
  MaxErr = 0
  StdinCap = 1
  PeerFrames <- McptpClient
  ParseOutcomes <- OnlyResponses
  HeldPipes = FALSE
PROPERTIES
  ExitIsNoticed
CHECK_DEADLOCK FALSE
