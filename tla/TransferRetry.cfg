SPECIFICATION Spec
CONSTANTS
  MaxVersion = 2
  FileSize <- Shrinking
  MaxAttempts = 2
\* One property at a time: the first that is violated ends the run.
INVARIANT RetryRestartsChanged
\* PROPERTY CancelledRestarts
\* INVARIANT ConfirmedAll
