\* Chains of prerequisites under the fairness of the worker loop.
CONSTANTS
  Task = {t1, t2, t3}
  Project = {demo}
  Second = {}
  Unit = {frame, still}
  RenderUnit = {}
  VideoUnit = {}
  Live = Live
  None = None
SPECIFICATION FairSpec
PROPERTIES
  SoundQueuedEnds
CHECK_DEADLOCK FALSE
