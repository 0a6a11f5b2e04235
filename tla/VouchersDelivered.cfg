SPECIFICATION FairSpec
CONSTANTS
  engine = engine
  api = api
  Unregistered = Unregistered
  Idle = Idle
  Callers = {engine}
  StartingBalance = 4
  MaxPayments = 4
  Unreliable = FALSE
INVARIANT
  TypeOK
PROPERTY
  VouchersCount
CHECK_DEADLOCK FALSE
