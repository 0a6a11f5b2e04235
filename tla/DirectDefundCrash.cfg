SPECIFICATION Spec
CONSTANTS
  Closers <- LeaderOnly
  Hasty = FALSE
  Refuses <- Nobody
  Lossy = FALSE
  Crashes = TRUE
  MaxTurn = 1
  None = None
  Idle = Idle
INVARIANT EveryLedgerIsKept
CHECK_DEADLOCK FALSE
