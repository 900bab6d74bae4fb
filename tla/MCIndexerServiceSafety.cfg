SPECIFICATION Spec
CONSTANTS
  Blocks <- AllBlocks
  MaxHeight = 3
  MaxCrashes = 1
INVARIANTS
  TypeOK
  NoSilentLoss
  RecordedIsCovered
  OnlyOwedRecorded
  IInv
PROPERTIES
  CursorNeverRewinds
  ImplementsPaymentLog
