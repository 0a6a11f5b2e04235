SPECIFICATION Spec
CONSTANTS
  c1 = c1
  c2 = c2
  Channels <- TwoChannels
  Initiator <- TwoInitiators
  Share <- MCShare
  Lossy = FALSE
  Crashes = FALSE
  MaxReplays = 0
  None = None
  Idle = Idle
INVARIANT OneLedgerPerCounterparty
CHECK_DEADLOCK FALSE
