SPECIFICATION Spec
CONSTANTS
  ann = ann
  ivy = ivy
  bob = bob
  V = V
  W = W
  X = X
  AI = AI
  IB = IB
  Nodes = {ann, ivy, bob}
  Ledgers = {AI, IB}
  Targets = {V}
  Ends <- TwoLedgers
  Path <- ThroughIvy
  Deposit <- One
  InitialBalance <- Twos
  MaxAmount = 1
  Kinds <- BothKinds
  Refuses = {}
  Closers <- ByAnn
  Together <- AnyChannels
  Patience = "careful"
  Lossy = FALSE
  Crashes = {}
  NoGuarantee = NoGuarantee
  NoFinal = NoFinal
  NoChannel = NoChannel
  NoVoucher = NoVoucher
INVARIANT MissingSignaturesAreZero
CHECK_DEADLOCK FALSE
