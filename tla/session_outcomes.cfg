SPECIFICATION Spec
CONSTANTS
  MaxIn = 0
  MaxOut = 2
  MaxErr = 1
  StdinCap = 1
  PeerFrames <- McptpClient
  ParseOutcomes <- AnyLines
  HeldPipes = FALSE
INVARIANTS
  WireOrder
  WaitCanFinish
  ExitReportTruthful
  NormalCloseIsClean
  StdoutConservation
  StdoutPrefix
PROPERTIES
  ImplementsProtocol
CHECK_DEADLOCK FALSE
