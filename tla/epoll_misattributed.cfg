SPECIFICATION Spec
CONSTANTS
  Fd = {f1, f2, f3}
  Data = {d1, d2}
  Interests <- MCReadInterest
  Conditions <- MCFewConditions
  MaxEvents = 3
  MaxEntries = 3
  MaxBuffers = 1
  Habits = {{"order"}}
INVARIANT
  EventAttributed
