SPECIFICATION FairSpec
CONSTANTS
  Fd = {f1, f2}
  Data = {d1, d2}
  Interests <- MCInterests
  Conditions <- MCConditions
  MaxRegs = 3
  EditDuringWalk = FALSE
INVARIANTS
  Coupled
  IteratorOnReady
PROPERTIES
  ImplementsSelector
  WalkEnds
