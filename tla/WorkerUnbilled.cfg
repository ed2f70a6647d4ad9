\* A download is retried while the previous execution of the row is still
\* on its way out.  No crash is needed.
CONSTANTS
  Task = {t1}
  Project = {demo}
  Second = {}
  Unit = {clip}
  RenderUnit = {}
  VideoUnit = {clip}
  Resumable = {clip}
  Live = Live
  None = None
  Co = {c1, c2}
  Capacity = 1
  MayStop = FALSE
SPECIFICATION Spec
INVARIANTS
  SucceededVideoIsBilled
CHECK_DEADLOCK FALSE
