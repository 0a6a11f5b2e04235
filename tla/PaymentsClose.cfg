SPECIFICATION FairSpec
CONSTANTS
  ann = ann
  ivy = ivy
  bob = bob
  V = V
  W = W
  X = X
  AI = AI
  IB = IB
  Nodes = {ivy, bob}
  Ledgers = {IB}
  Targets = {V}
  Ends <- OneLedger
  Path <- Direct
  Deposit <- TwoAndOne
  InitialBalance <- Threes
  MaxAmount = 3
  Kinds <- BothKinds
  Refuses = {}
  Closers <- ByIvy
  Together <- AnyChannels
  Patience = "careful"
  Lossy = FALSE
  Crashes = {}
  NoGuarantee = NoGuarantee
  NoFinal = NoFinal
  NoChannel = NoChannel
  NoVoucher = NoVoucher
INVARIANTS TypeOK NobodyStops
PROPERTY EveryCloseIsSettled
CHECK_DEADLOCK FALSE
