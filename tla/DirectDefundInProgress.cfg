SPECIFICATION Spec
CONSTANTS
  Closers <- Both
  Hasty = FALSE
  Refuses <- Nobody
  Lossy = FALSE
  Crashes = FALSE
  MaxTurn = 2
  None = None
  Idle = Idle
INVARIANT FinalStateComesLast
CHECK_DEADLOCK FALSE
