SPECIFICATION CooperativeSpec
CONSTANTS
  MaxIn = 0
  MaxOut = 1
  MaxErr = 0
  StdinCap = 1
  PeerFrames <- EndingClient
  ParseOutcomes <- AnyLines
  HeldPipes = TRUE
PROPERTIES
  DisconnectEndsSession
  ProcessEventuallyDies
  SignalEndsSession
CHECK_DEADLOCK FALSE
