\* One task, one removal and a restart after it: the scan fails
\* the task of the deleted project before its resumption could.
SPECIFICATION Spec
CONSTANTS
  None = None
  Project = {p1}
  Task = {t1}
  Exec = {e1, e2}
  Removal = {r1}
  MaxCrash = 1
  MaxFail = 0
CONSTRAINT DecidedAfter
INVARIANTS DeletedTaskFails
CHECK_DEADLOCK FALSE
