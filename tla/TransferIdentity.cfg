SPECIFICATION Spec
CONSTANTS
  MaxVersion = 1
  FileSize <- Unchanged
  MaxAttempts = 2
INVARIANTS OnlyRealChanges
