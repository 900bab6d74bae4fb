SPECIFICATION Spec
CONSTANTS
  Blocks <- GoodBlocks
  MaxHeight = 2
  MaxCrashes = 0
INVARIANT FullValueRecorded
