SPECIFICATION Spec
CONSTANTS
  w1 = w1
  w2 = w2
  w3 = w3
  Worker <- Workers
  Modes <- Watched
  Missing = Missing
  None = None
  MaxOpens = 2
  MaxSaves = 1
  MaxReplaces = 1
  MaxFails = 0
  MaxRetries = 0
CHECK_DEADLOCK FALSE
SYMMETRY Symmetry
\* One property at a time: the first that is violated ends the run.
INVARIANT RemoteKept
\* INVARIANT StaysWatched
\* INVARIANT UploadedOnce
