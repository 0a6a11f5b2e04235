SPECIFICATION Spec
CONSTANTS
  c1 = c1
  c2 = c2
  Channels <- OneChannel
  Initiator <- OneInitiator
  Share <- MCShare
  Lossy = FALSE
  Crashes = TRUE
  MaxReplays = 0
  None = None
  Idle = Idle
PROPERTY HoldingsOnlyGrow
