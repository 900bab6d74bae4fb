SPECIFICATION Spec
CONSTANTS
  Deposits = {d1}
  DepositRetry = 2
  SmallintMax = 3
  BatchLimit = 1
  MaxFaults = 1
INVARIANT AtMostOneCredit
