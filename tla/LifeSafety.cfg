SPECIFICATION Spec
CONSTANTS
  p1 = p1
  p2 = p2
  t1 = t1
  t2 = t2
  t3 = t3
  t4 = t4
  None = None
  Profile <- Two
  Task <- ThreeTasks
  MaxDeletes = 1
  Kinds <- AllButSave
CHECK_DEADLOCK FALSE
SYMMETRY Symmetry
VIEW Core
CONSTRAINT Overlaps
INVARIANTS
  TargetAgrees
  ForwardingWorks
  ResourcesOwned
  DeletedLeavesNothing
