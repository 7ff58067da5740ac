SPECIFICATION ClientsSpec
CONSTANTS
  Kinds = {"tcp", "unix"}
  Failures = {"endpoint", "open", "set_option", "bind", "listen"}
  AcceptFails = TRUE
  MaxBacklog = 2
  MaxConns = 4
  MaxPending = 2
  Users = {"client", "server"}
  Socket = {s1}
INVARIANTS
  ConnectedOnce
  OneChain
PROPERTIES
  HandledInOrder
  StopIsFinal
  AcceptsUntilError
  ConnectResolves
