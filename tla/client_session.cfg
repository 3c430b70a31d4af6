SPECIFICATION FairSpec
CONSTANTS
  MaxIn = 1
  MaxOut = 1
  MaxErr = 1
  LongLines = TRUE
INVARIANTS
  TypeOK
  OutputInOrder
  NormalEndIsComplete
  ExitInfoTruthful
  UpstreamInOrder
  SenderIsJoined
PROPERTIES
  SignalOrLossEndsClient
  EofEndsClient
CHECK_DEADLOCK FALSE
