SPECIFICATION Spec
CONSTANTS
  Ledger = "ledger"
  Payments <- TwoPayments
  None = None
  Idle = Idle
  Total = 1
  Intermediary = TRUE
  Closes <- Never
  Kinds <- OfLedger
  Crashes = FALSE
INVARIANTS
  TypeOK
  FundedIsListed
