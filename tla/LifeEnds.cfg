SPECIFICATION LiveSpec
CONSTANTS
  p1 = p1
  p2 = p2
  t1 = t1
  t2 = t2
  t3 = t3
  t4 = t4
  None = None
  Profile <- One
  Task <- TwoTasks
  MaxDeletes = 1
  Kinds <- All
CHECK_DEADLOCK FALSE
PROPERTY PendingEnds
\* Violated, as the server need not answer:
\* PROPERTY PendingEndsAnyway
