SPECIFICATION Spec
CONSTANTS
  ann = ann
  ivy = ivy
  bob = bob
  V = V
  W = W
  X = X
  AI = AI
  IB = IB
  Nodes = {ann, ivy, bob}
  Ledgers = {AI, IB}
  Targets = {V, W}
  Ends <- TwoLedgers
  Path <- Crossing
  Deposit <- One
  InitialBalance <- Twos
  MaxAmount = 1
  Kinds <- BothKinds
  Refuses = {}
  Closers <- ByNobody
  Together <- AnyChannels
  Patience = "patient"
  Lossy = FALSE
  Crashes = {}
  NoGuarantee = NoGuarantee
  NoFinal = NoFinal
  NoChannel = NoChannel
  NoVoucher = NoVoucher
INVARIANTS GuaranteesAreAgreed NobodyStops QuietIsFunded
PROPERTY LedgersKeepPromise
CHECK_DEADLOCK FALSE
