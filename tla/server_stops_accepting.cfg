SPECIFICATION UsedSpec
CONSTANTS
  Kinds = {"tcp"}
  Failures = {}
  AcceptFails = TRUE
  MaxBacklog = 2
  MaxConns = 3
  MaxPending = 1
  Users = {"server"}
PROPERTIES
  KeepsAccepting
