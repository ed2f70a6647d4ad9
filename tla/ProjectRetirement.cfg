SPECIFICATION Spec
CONSTANTS
  None = None
  Project = {p1, p2, p3}
  Task = {t1}
  Exec = {e1, e2}
  Removal = {r1, r2}
  MaxCrash = 1
  MaxFail = 1
SYMMETRY Sym
CONSTRAINT OneGap
INVARIANTS TypeOK NoForeignWrite RecordsFollow OnlyRetiredRevoked SuccessKept 
CHECK_DEADLOCK FALSE
