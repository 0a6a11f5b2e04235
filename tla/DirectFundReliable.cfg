SPECIFICATION FairSpec
CONSTANTS
  c1 = c1
  c2 = c2
  Channels <- TwoChannels
  Initiator <- SameInitiator
  Share <- MCShare
  Lossy = FALSE
  Crashes = FALSE
  MaxReplays = 2
  None = None
  Idle = Idle
INVARIANT OneLedgerPerCounterparty
PROPERTY EveryRequestIsSettled
CHECK_DEADLOCK FALSE
