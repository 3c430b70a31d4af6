SPECIFICATION FairSpec
CONSTANTS
  MaxIn = 2
  MaxOut = 0
  MaxErr = 0
  StdinCap = 1
  PeerFrames <- McptpClient
  ParseOutcomes <- OnlyResponses
  HeldPipes = FALSE
PROPERTIES
  SignalCompletes
CHECK_DEADLOCK FALSE
