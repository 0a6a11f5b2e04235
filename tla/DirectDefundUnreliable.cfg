SPECIFICATION Spec
CONSTANTS
  Closers <- Both
  Hasty = TRUE
  Refuses <- FollowerOnly
  Lossy = TRUE
  Crashes = TRUE
  MaxTurn = 2
  None = None
  Idle = Idle
INVARIANTS
  WithdrawnIsAgreed
  CompletedIsWithdrawn
  WithdrawnOnce
CHECK_DEADLOCK FALSE
