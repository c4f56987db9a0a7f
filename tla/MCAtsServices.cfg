CONSTANTS
  Payloads <- MCPayloads
  MaxFrames = 3
  Services = {"channel", "clock", "lcd"}
  Senders = {}
  MaxPerSession = 0
  MaxSessions = 0
  Chunks = {}
  None = None
  t1 = t1  t2 = t2
  ClockTasks = {t1, t2}
  ClockWord = 9
  Second = 2
  Epoch = 5
  Timeout = 2
  SetTo = {3}
  MaxNow = 6
  LcdWord = 32
  Block = 3
  Unit = 2
  Header = 2
  ATS_RPC_HEADER_SIZE = 3
  Sizes <- MCSizes
  Images <- MCImages
SPECIFICATION AllSpec
INVARIANTS
  FramesComeThrough
  ImageArrives
PROPERTIES
  StaysListening
  EverythingIsRead
  ClockIsTrue
