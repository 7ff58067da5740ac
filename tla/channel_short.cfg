SPECIFICATION Spec
CONSTANTS
  Impls <- OneTransfer
  Retrying = {}
  Total = 3
  Capacity = 2
INVARIANT
  FutureMeansAllBytes
