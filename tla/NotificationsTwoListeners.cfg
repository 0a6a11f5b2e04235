SPECIFICATION Spec
CONSTANTS
  Channels <- OneChannel
  All = "all"
  None = None
  Values <- OneValue
  Clients <- TwoClients
  KeyOf <- ToAll
  Readers <- TwoClients
  Receives <- Never
  ReadsVouchers = FALSE
  ListenerBuffer = 1
  VoucherBuffer = 1
  MaxEvents = 1
  Closes = FALSE
INVARIANTS
  OneListenerToAll
CHECK_DEADLOCK FALSE
