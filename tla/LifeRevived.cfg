SPECIFICATION Spec
CONSTANTS
  p1 = p1
  p2 = p2
  t1 = t1
  t2 = t2
  t3 = t3
  t4 = t4
  None = None
  Profile <- One
  Task <- ThreeTasks
  MaxDeletes = 2
  Kinds <- Deletes
CHECK_DEADLOCK FALSE
SYMMETRY Symmetry
VIEW View
INVARIANT DeletedStays
