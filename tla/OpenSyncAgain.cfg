SPECIFICATION Spec
CONSTANTS
  w1 = w1
  w2 = w2
  w3 = w3
  Worker <- Workers
  Modes <- Polled
  Missing = Missing
  None = None
  MaxOpens = 1
  MaxSaves = 1
  MaxReplaces = 0
  MaxFails = 0
  MaxRetries = 1
CHECK_DEADLOCK FALSE
SYMMETRY Symmetry
INVARIANT DoneIsComplete
