SPECIFICATION Spec
CONSTANTS
  engine = engine
  api = api
  Unregistered = Unregistered
  Idle = Idle
  Callers = {engine, api}
  StartingBalance = 4
  MaxPayments = 3
  Unreliable = FALSE
INVARIANT
  PaymentsAddUp
CHECK_DEADLOCK FALSE
