SPECIFICATION MapsSpec
CONSTANTS
  Object = {o1, o2, o3}
  Name = {n1, n2}
  NoName = none
  MaxFd = 2
  MaxOpens = 4
  Clients = {"owns", "maps"}
  Sizes = {0, 1, 2}
  MapOpens = 2
SYMMETRY
  Interchangeable
INVARIANTS
  SoleOwner
  NoneLost
  NameFollows
  MapsItsSegment
CHECK_DEADLOCK FALSE
