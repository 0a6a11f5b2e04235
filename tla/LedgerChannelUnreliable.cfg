SPECIFICATION Spec
CONSTANTS
  v1 = v1
  v2 = v2
  NoGuarantee = NoGuarantee
  Targets <- MCTargets
  MaxAmount = 1
  InitialBalance <- MCInitialBalance
  MaxTurnNum = 3
  Unreliable = TRUE
SYMMETRY Symmetry
INVARIANTS
  TypeOK
  NoEquivocation
  FollowerHoldsLatest
  CopiesAgree
  EveryProposalIsUsable
  FundsConserved
PROPERTIES
  ImplementsPromise
CHECK_DEADLOCK FALSE
