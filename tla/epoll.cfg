SPECIFICATION Spec
CONSTANTS
  Fd = {f1, f2, f3}
  Data = {d1}
  Interests <- MCReadInterest
  Conditions <- MCFewConditions
  MaxEvents = 2
  MaxEntries = 3
  MaxBuffers = 1
  Habits <- MCHabits
INVARIANT
  WatchedIsListed
PROPERTY
  ImplementsSelector
SYMMETRY Symmetry
