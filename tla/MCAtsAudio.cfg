CONSTANTS
  t1 = t1  t2 = t2
  UI = UI
  None = None
  Callers = {t1, t2}
  ATS_AUDIO_QUEUE_MAX = 2
  MaxThreads = 2
  MaxFiles = 3
SPECIFICATION FairSpec
CHECK_DEADLOCK FALSE
INVARIANTS
  OnePlayer
  NoneStranded
  ShutdownWakes
PROPERTIES
  PlayedInOrder
  EveryFileIsTaken
