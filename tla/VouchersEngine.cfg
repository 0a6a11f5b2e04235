SPECIFICATION Spec
CONSTANTS
  engine = engine
  api = api
  Unregistered = Unregistered
  Idle = Idle
  Callers = {engine}
  StartingBalance = 4
  MaxPayments = 3
  Unreliable = TRUE
INVARIANTS
  PaymentsAddUp
  CreditsAddUp
  PayeeNeverAhead
PROPERTIES
  LargestOnlyGrows
