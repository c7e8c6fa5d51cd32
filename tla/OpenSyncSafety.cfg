SPECIFICATION Spec
CONSTANTS
  w1 = w1
  w2 = w2
  w3 = w3
  Worker <- Workers
  Modes <- Both
  Missing = Missing
  None = None
  MaxOpens = 2
  MaxSaves = 1
  MaxReplaces = 1
  MaxFails = 1
  MaxRetries = 1
CHECK_DEADLOCK FALSE
SYMMETRY Symmetry
CONSTRAINT Quieter
INVARIANTS UploadsSound NoUploadAfterExit
