SPECIFICATION Spec
CONSTANTS
  Msg = {m1}
  None = None
  Output = Output
  Capacity = 2
  MaxEntry = 2
  MaxRev = 1
  MaxLife = 2
  MaxRare = 3
INVARIANTS
  TypeOK
  NoHole
  OneChannel
  SeenOnce
  DeltasHeard
  NothingStalls
  RestAgrees

CHECK_DEADLOCK FALSE
