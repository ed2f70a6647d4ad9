SPECIFICATION Spec
CONSTANTS
  Msg = {m1}
  None = None
  MaxSend = 1
  MaxDelivery = 1
  MaxTurn = 0
  MaxLife = 1
  MaxLine = 1
  MaxPipe = 1
INVARIANTS
  MetaSettles
CHECK_DEADLOCK FALSE
