SPECIFICATION Spec
CONSTANTS
  ann = ann
  ivy = ivy
  bob = bob
  V = V
  W = W
  X = X
  AI = AI
  IB = IB
  Nodes = {ivy, bob}
  Ledgers = {IB}
  Targets = {V, W}
  Ends <- OneLedger
  Path <- TwoDirect
  Deposit <- WIsTooMuch
  InitialBalance <- Ones
  MaxAmount = 2
  Kinds <- BothKinds
  Refuses <- BobMayRefuse
  Closers <- ByIvy
  Together <- OneChannel
  Patience = "patient"
  Lossy = TRUE
  Crashes = {bob}
  NoGuarantee = NoGuarantee
  NoFinal = NoFinal
  NoChannel = NoChannel
  NoVoucher = NoVoucher
INVARIANTS
  StopsAreExplained
PROPERTIES
  LedgersKeepPromise
CHECK_DEADLOCK FALSE
