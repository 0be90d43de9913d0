SPECIFICATION Spec
CONSTANTS
  Key <- WireKeys
  Val <- WireVals
  NoKey = NoKey
  NoVal = NoVal
  Conn = {1, 2, 3}
  NoConn = NoConn
  MAX_SOCKETS = 4
  InitTable <- Copied
  Asked <- WireRequests
  MaxCalls = 3
  MayDie = TRUE
PROPERTY
  DropsOnlyHungUp
CHECK_DEADLOCK FALSE
