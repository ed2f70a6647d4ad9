\* A row queued behind a prerequisite that has already failed.
CONSTANTS
  Task = {t1, t2}
  Project = {demo}
  Second = {}
  Unit = {frame, still}
  RenderUnit = {}
  VideoUnit = {}
  Live = Live
  None = None
SPECIFICATION FairSpec
PROPERTIES
  QueuedRunsToCompletion
CHECK_DEADLOCK FALSE
