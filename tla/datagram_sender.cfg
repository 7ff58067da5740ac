SPECIFICATION DatagramsSpec
CONSTANTS
  Impls = {"UdpImpl"}
  Address = {a, b}
  NoAddress = none
  Lengths = {1}
  Total = 2
  MaxPending = 2
  MaxArrivals = 2
INVARIANTS
  SenderReported
