SPECIFICATION FairSpec
CONSTANTS
  Channels = {"c1"}
  Budgets <- Backoff
  MaxBlock = 3
  MaxAttempts = 2
  BufferSize = 1
  MAX_EPOCHS = 1
INVARIANTS
  TypeOK
PROPERTIES
  TheMutexIsReleased
CHECK_DEADLOCK FALSE
