\* A download is retried while the startup scan is under way.
CONSTANTS
  Task = {t1}
  Project = {demo}
  Second = {}
  Unit = {clip}
  RenderUnit = {}
  VideoUnit = {clip}
  Resumable = {clip}
  Live = Live
  None = None
  Co = {c1, c2}
  Capacity = 1
  MayStop = TRUE
SPECIFICATION Spec
INVARIANTS
  OnePollPerJob
CHECK_DEADLOCK FALSE
