SPECIFICATION Spec
CONSTANTS
  Blocks <- PipeBlocks
  MaxHeight = 1
  DepositRetry = 1
  SmallintMax = 1
  BatchLimit = 1
  MaxFaults = 1
  MaxFailed = 1
INVARIANTS
  TypeOK
  CreditsAreOwed
  ReportsAreTrue
PROPERTIES
  BridgeInPlace
  EpsInPlace
  PromisesKept
