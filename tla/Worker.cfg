\* One row of any kind and two coroutines over any number of crashes and
\* shutdowns: executions of one row that overlap, and every place to crash at.
\* Rows that wait on others are TaskQueueLiveness's.
CONSTANTS
  Task = {t1}
  Project = {demo}
  Second = {}
  Unit = {clip, take, still}
  RenderUnit = {}
  VideoUnit = {clip, take}
  Resumable = {clip}
  Live = Live
  None = None
  Co = {c1, c2}
  Capacity = 1
  MayStop = TRUE
SPECIFICATION FairSpec
INVARIANTS
  TypeOK
  AtMostOneSubmission
  RunningHasExecutor
PROPERTIES
  BilledSuccessIsKept
  PendingCallsSettle
  AdmittedTasksEnd
CHECK_DEADLOCK FALSE
