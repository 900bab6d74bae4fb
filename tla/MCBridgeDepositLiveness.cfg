SPECIFICATION FairSpec
CONSTANTS
  Deposits = {d1, d2}
  DepositRetry = 1
  SmallintMax = 2
  BatchLimit = 2
  MaxFaults = 0
PROPERTY EveryDepositHandled
