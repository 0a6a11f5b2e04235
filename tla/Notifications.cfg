SPECIFICATION FairSpec
CONSTANTS
  Channels <- OneChannel
  All = "all"
  None = None
  Values <- TwoValues
  Clients <- TwoClients
  KeyOf <- OneToEach
  Readers <- TwoClients
  Receives <- Sometimes
  ReadsVouchers = TRUE
  ListenerBuffer = 1
  VoucherBuffer = 1
  MaxEvents = 3
  Closes = TRUE
INVARIANTS
  ListenersHearChanges
PROPERTIES
  EveryUpdateIsHeard
  CloseEnds
CHECK_DEADLOCK FALSE
