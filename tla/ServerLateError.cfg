SPECIFICATION Spec
INVARIANT ServingMeansStarted
