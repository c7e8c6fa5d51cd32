SPECIFICATION Spec
CONSTANTS
  p1 = p1
  p2 = p2
  t1 = t1
  t2 = t2
  t3 = t3
  t4 = t4
  None = None
  Profile <- One
  Task <- FourTasks
  MaxDeletes = 0
  Kinds <- Starts
CHECK_DEADLOCK FALSE
SYMMETRY Symmetry
VIEW Core
INVARIANT ChannelsOwned
