SPECIFICATION Spec
CONSTANTS
  p1 = p1
  p2 = p2
  t1 = t1
  t2 = t2
  t3 = t3
  t4 = t4
  None = None
  Profile <- One
  Task <- TwoTasks
  MaxDeletes = 1
  Kinds <- StartStop
CHECK_DEADLOCK FALSE
SYMMETRY Symmetry
VIEW View
\* One property at a time: the first that is violated ends the run.
INVARIANT NoCrash
\* INVARIANT BridgeStays
\* INVARIANT PendingUntilFinished
