SPECIFICATION Spec
CONSTANTS
  Deposits = {d1, d2}
  DepositRetry = 2
  SmallintMax = 3
  BatchLimit = 2
  MaxFaults = 1
SYMMETRY Symmetry
INVARIANTS
  TypeOK
  RowMatchesChain
  TransferOnlyAfterRevert
  CreditsBounded
  CreditsNeedFaults
  RetryableIsUnsent
  RetryDiscipline
  IInv
PROPERTIES
  TerminalStable
  ImplementsPayout
