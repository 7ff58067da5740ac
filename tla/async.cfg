SPECIFICATION AsyncSpec
CONSTANTS
  Sources = {"Event", "Timer", "SignalSet"}
  Signals = {10, 12}
  MaxWaits = 3
  MaxCalls = 2
  ResetsFirst = TRUE
  MaxRuns = 2
  Impls = {"UdpImpl", "SocketImpl"}
  Address = {a}
  NoAddress = none
  Lengths = {1, 2}
  Total = 2
  MaxPending = 1
  MaxArrivals = 2
INVARIANTS
  PendingInOnePlace
  NoSpuriousWakeup
  ValueMeansExpired
  NoSignalLost
  RunsUntilDone
  ReadInPlace
  SentInOrder
PROPERTIES
  WaitsResolve
  CloseResolves
CHECK_DEADLOCK FALSE
