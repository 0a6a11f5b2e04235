SPECIFICATION Spec
CONSTANTS
  Channels = {"c1"}
  Budgets <- OneFault
  MaxBlock = 4
  MaxAttempts = 2
  BufferSize = 1
  MAX_EPOCHS = 1
INVARIANTS
  DispatchedIsConfirmed
  NothingIsLost
  HoldingsAreRight
CHECK_DEADLOCK FALSE
