\* Three rows compete for one project name that can be deleted twice in the
\* same second: a chain of two dependents, or three rows for one key.
CONSTANTS
  Task = {t1, t2, t3}
  Project = {demo}
  Second = {sec1}
  Unit = {clip, frame, film}
  RenderUnit = {film}
  VideoUnit = {clip}
  Live = Live
  None = None
SYMMETRY TaskSymmetry
SPECIFICATION Spec
INVARIANTS
  TypeOK
  ActiveDedupe
  RunningDependencySucceeded
PROPERTIES
  NeverStrandsAWaiter
  ImplementsLifecycle
CHECK_DEADLOCK FALSE
