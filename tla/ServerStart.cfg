SPECIFICATION FairSpec
INVARIANTS
  TypeOK
  LaunchedAsConfigured
  DocumentedVariableDecides
  ServicesHaveKeys
  LoopHasTables
  IInv
PROPERTY StartEnds
