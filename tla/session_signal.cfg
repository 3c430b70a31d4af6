SPECIFICATION FairSpec
CONSTANTS
  MaxIn = 2
  MaxOut = 0
  MaxErr = 0
  StdinCap = 1
  PeerFrames <- OobClient
  ParseOutcomes <- OnlyResponses
  HeldPipes = TRUE
INVARIANTS
  TypeOK
  StdinConservation
  ReturnedIsQuiescent
PROPERTIES
  SignalEndsSession
CHECK_DEADLOCK FALSE
