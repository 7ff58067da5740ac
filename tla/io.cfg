SPECIFICATION IOSpec
CONSTANTS
  Signal = {s1, s2}
  Function = {h1, h2}
  Dispositions = {"SIG_DFL", "SIG_IGN", "previous"}
  MaxAttached = 2
  MaxRaised = 2
  Object = {p1, p2}
  Configs <- MCConfigs
  TalkConfigs <- MCTalkConfigs
  Refusals = {"open", "tcgetattr", "TIOCGSERIAL", "TIOCSSERIAL", "tcsetattr"}
  ModemLines = {"CTS", "RI"}
  Leftovers = {"IXANY"}
  Clients = {"configures", "talks", "attaches"}
  MaxBytes = 2
  MaxMoves = 1
  Handle = {o1, o2}
  Dir = {"home", "tmp"}
  Name = {"x"}
  Request <- MCRequest
  Data <- MCData
  Lengths = {1, 2}
  Offsets <- MCOffsets
  BufferSize = 2
  Programs <- MCPrograms
  MaxFiles <- MCMaxFiles
  MaxLength <- MCMaxLength
  MaxRefusals = 1
  Slot = {"ttyACM0", "ttyS0", "ttyUSB0"}
  Driver <- MCDriver
  Plugged = {"ttyS0", "ttyUSB0"}
  MaxPlugs = 3
INVARIANTS
  HandlersCalled
  LineAsAsked
  BytesInOrder
  AnswersHold
  SameAsUnbuffered
  PortsListed
PROPERTY
  CreateKeeps
CHECK_DEADLOCK FALSE
SYMMETRY Symmetry
CONSTRAINT Whole
