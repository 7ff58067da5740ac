SPECIFICATION Spec
CONSTANTS
  Object = {o1, o2}
  Name = {n1}
  NoName = none
  MaxFd = 2
  MaxOpens = 3
INVARIANTS
  NameIsMine
CHECK_DEADLOCK FALSE
