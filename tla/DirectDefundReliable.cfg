SPECIFICATION FairSpec
CONSTANTS
  Closers <- Both
  Hasty = FALSE
  Refuses <- Nobody
  Lossy = FALSE
  Crashes = FALSE
  MaxTurn = 1
  None = None
  Idle = Idle
INVARIANTS TypeOK NobodyStops
PROPERTY EveryCloseIsSettled
CHECK_DEADLOCK FALSE
