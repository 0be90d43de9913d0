SPECIFICATION FairSpec
CONSTANTS
  Key = {k1}
  Val = {v1}
  NoKey = NoKey
  NoVal = NoVal
  S1 = S1
  S2 = S2
  Client = {c1}
  Conn = {1, 2, 3, 4}
  NoConn = NoConn
  PrimaryHost = {S1}
  InitFile = {"none"}
  MayCrash = {S1}
  MaxCrash = 1
  ClientOps = {"PUT"}
  MaxInputs = 2
PROPERTIES
  CallsReturn
  BootsEnd
  FailureDetected
CHECK_DEADLOCK FALSE
