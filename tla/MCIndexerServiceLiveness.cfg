SPECIFICATION FairSpec
CONSTANTS
  Blocks <- LiveBlocks
  MaxHeight = 3
  MaxCrashes = 1
PROPERTY EveryPaymentSettled
