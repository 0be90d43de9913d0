SPECIFICATION Spec
CONSTANTS
  Key = {k1}
  Val = {v1}
  NoKey = NoKey
  NoVal = NoVal
  S1 = S1
  S2 = S2
  Client = {c1}
  Conn = {1, 2, 3, 4}
  NoConn = NoConn
  PrimaryHost = {S1}
  InitFile = {"primary"}
  MayCrash = {}
  MaxCrash = 0
  ClientOps = {"PUT"}
  MaxInputs = 2
PROPERTIES
  TransferIsComplete
CHECK_DEADLOCK FALSE
