SPECIFICATION Spec
CONSTANTS
  ann = ann
  ivy = ivy
  bob = bob
  V = V
  W = W
  X = X
  AI = AI
  IB = IB
  Nodes = {ivy, bob}
  Ledgers = {IB}
  Targets = {V}
  Ends <- OneLedger
  Path <- Direct
  Deposit <- TwoAndOne
  InitialBalance <- Threes
  MaxAmount = 3
  Kinds <- BothKinds
  Refuses = {}
  Closers <- ByIvyAndBob
  Together <- AnyChannels
  Patience = "careful"
  Lossy = FALSE
  Crashes = {}
  NoGuarantee = NoGuarantee
  NoFinal = NoFinal
  NoChannel = NoChannel
  NoVoucher = NoVoucher
INVARIANT RequestsAreHarmless
CHECK_DEADLOCK FALSE
