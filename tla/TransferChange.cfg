SPECIFICATION Spec
CONSTANTS
  MaxVersion = 2
  FileSize <- SameSize
  MaxAttempts = 2
INVARIANTS ChangeIsReported
