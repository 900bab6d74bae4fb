SPECIFICATION Spec
INVARIANT LoopHasIndexes
