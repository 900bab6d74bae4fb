SPECIFICATION FairSpec
CONSTANTS
  Deposits = {d1, d2}
  MaxFaults = 2
INVARIANTS
  TypeOK
  OneRowPerDeposit
  ReportedWasAccepted
  AcceptedBounded
  IInv
PROPERTIES
  EveryTransferReported
  ImplementsOutbox
