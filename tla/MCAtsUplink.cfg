CONSTANTS
  Services = {"uplink"}
  t1 = t1  t2 = t2
  None = None
  Senders = {t1, t2}
  Payloads <- MCUplinkPayloads
  MaxFrames = 0
  MaxPerSession = 2
  MaxSessions = 2
  Chunks = {3}
  ClockTasks = {}
  ClockWord = 9
  Second = 2
  Epoch = 5
  Timeout = 2
  SetTo = {3}
  MaxNow = 0
  LcdWord = 32
  Block = 3
  Unit = 2
  Header = 2
  ATS_RPC_HEADER_SIZE = 3
  Sizes <- MCSizes
  Images <- MCImages
SPECIFICATION AllSpec
SYMMETRY Symmetric
CHECK_DEADLOCK FALSE
INVARIANTS
  FramesIntact
  NothingLeftBehind
