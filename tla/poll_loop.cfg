SPECIFICATION FairSpec
CONSTANTS
  Key <- WireKeys
  Val <- WireVals
  NoKey = NoKey
  NoVal = NoVal
  Conn = {1, 2, 3}
  NoConn = NoConn
  MAX_SOCKETS = 4
  InitTable <- Copied
  Asked <- WireRequests
  MaxCalls = 2
  MayDie = TRUE
INVARIANTS
  TypeOK
  SlotsExact
  CallAnswered
PROPERTIES
  RoundServesAll
  WaitingIsAccepted
  AcceptedCallReturns
CHECK_DEADLOCK FALSE
