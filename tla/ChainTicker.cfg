SPECIFICATION Spec
CONSTANTS
  Channels = {"c1"}
  Budgets <- Ticks
  MaxBlock = 4
  MaxAttempts = 2
  BufferSize = 1
  MAX_EPOCHS = 1
INVARIANTS
  LastBlockIsProcessed
CHECK_DEADLOCK FALSE
