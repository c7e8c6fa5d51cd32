SPECIFICATION Spec
CONSTANTS
  p1 = p1
  p2 = p2
  t1 = t1
  t2 = t2
  t3 = t3
  t4 = t4
  None = None
  Profile <- Two
  Task <- ThreeTasks
  MaxDeletes = 1
  Kinds <- StartPause
CHECK_DEADLOCK FALSE
SYMMETRY Symmetry
VIEW View
\* One property at a time: the first that is violated ends the run.
INVARIANT TargetForwards
\* INVARIANT ReadyIsChecked
