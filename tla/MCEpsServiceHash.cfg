SPECIFICATION Spec
CONSTANTS
  Deposits = {d1, d2}
  MaxFaults = 1
INVARIANT HashMatchesPosition
