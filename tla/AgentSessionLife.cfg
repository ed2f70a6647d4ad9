SPECIFICATION FairSpec
CONSTANTS
  Msg = {m1}
  None = None
  MaxSend = 2
  MaxDelivery = 3
  MaxTurn = 1
  MaxLife = 2
  MaxLine = 1
  MaxPipe = 1
INVARIANTS
  NoCliNoQueue
PROPERTIES
  TrayEmpties
CHECK_DEADLOCK FALSE
