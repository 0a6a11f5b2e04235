SPECIFICATION FairSpec
CONSTANTS
  v1 = v1
  v2 = v2
  NoGuarantee = NoGuarantee
  Targets = {v1}
  MaxAmount = 1
  InitialBalance <- MCInitialBalance
  MaxTurnNum = 4
  Unreliable = FALSE
INVARIANTS
  EveryProposalIsUsable
PROPERTIES
  ImplementsPromise
  EveryProposalCommits
CHECK_DEADLOCK FALSE
