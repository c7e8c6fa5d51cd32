SPECIFICATION LiveSpec
CONSTANTS
  MaxVersion = 3
  FileSize <- Sizes
  MaxAttempts = 3
INVARIANTS TransferSound SuccessIsExact CancelSticks
PROPERTY RunsEnd
