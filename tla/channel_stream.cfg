SPECIFICATION FairSpec
CONSTANTS
  Impls <- AllImpls
  Retrying <- Resumable
  Total = 3
  Capacity = 2
INVARIANTS
  StreamFaithful
  PositionExact
  ResolvedMeansDone
PROPERTIES
  CancelResolves
  CloseResolves
