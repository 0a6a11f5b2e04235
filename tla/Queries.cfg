SPECIFICATION Spec
CONSTANTS
  Ledger = "ledger"
  Payments <- OnePayment
  None = None
  Idle = Idle
  Total = 1
  Intermediary = FALSE
  Closes <- AnyClose
  Kinds <- AllKinds
  Crashes = TRUE
INVARIANTS
  BalancesAddUp
  OpenLedgerIsFound
  NothingDangles
  AnswersFollowEvents
PROPERTIES
  EventsAdvance
