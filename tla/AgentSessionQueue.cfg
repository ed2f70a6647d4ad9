SPECIFICATION Spec
CONSTANTS
  Msg = {m1, m2}
  None = None
  MaxSend = 2
  MaxDelivery = 4
  MaxTurn = 0
  MaxLife = 1
  MaxLine = 1
  MaxPipe = 1
SYMMETRY Sym
VIEW View
INVARIANTS
  TypeOK
  NoHiddenMessage
  HeardOnce
  KeyMeansHeard
  QuietIsSettled
  WorkIsRunning
  WithdrawalHasIntent
CHECK_DEADLOCK FALSE
