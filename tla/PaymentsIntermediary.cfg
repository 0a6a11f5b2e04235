SPECIFICATION FairSpec
CONSTANTS
  ann = ann
  ivy = ivy
  bob = bob
  V = V
  W = W
  X = X
  AI = AI
  IB = IB
  Nodes = {ann, ivy, bob}
  Ledgers = {AI, IB}
  Targets = {V, W, X}
  Ends <- TwoLedgers
  Path <- Mixed
  Deposit <- One
  InitialBalance <- Twos
  MaxAmount = 1
  Kinds <- BothKinds
  Refuses = {}
  Closers <- ByTheirPayers
  Together <- OnOneLedger
  Patience = "patient"
  Lossy = FALSE
  Crashes = {}
  NoGuarantee = NoGuarantee
  NoFinal = NoFinal
  NoChannel = NoChannel
  NoVoucher = NoVoucher
INVARIANTS
  GuaranteesAreAgreed
  BobIsPaid
  EnforceableIsFunded
  BooksBalance
PROPERTIES
  EveryRequestIsSettled
  EveryCloseIsSettled
CHECK_DEADLOCK FALSE
