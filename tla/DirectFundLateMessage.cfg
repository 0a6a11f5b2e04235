SPECIFICATION Spec
CONSTANTS
  c1 = c1
  c2 = c2
  Channels <- OneChannel
  Initiator <- OneInitiator
  Share <- MCShare
  Lossy = TRUE
  Crashes = FALSE
  MaxReplays = 0
  None = None
  Idle = Idle
INVARIANT ErrGetObjectiveIsSurvived
CHECK_DEADLOCK FALSE
