SPECIFICATION Spec
CONSTANTS
  c1 = c1
  c2 = c2
  Channels <- OneChannel
  Initiator <- OneInitiator
  Share <- MCShare
  Lossy = TRUE
  Crashes = TRUE
  MaxReplays = 1
  None = None
  Idle = Idle
INVARIANTS
  DepositsAreSafe
  NobodyPaysTwice
  CompletionIsMutual
  EveryChannelIsKept
PROPERTIES
  ImplementsPromise
