SPECIFICATION FairSpec
CONSTANTS
  beep = beep
  poll = poll
  None = None
  Timers = {beep, poll}
  Period <- MCPeriod
  AutoReload = {poll}
  Peers = {poll}
  Blocking = {beep}
  Word = 5
  configTIMER_QUEUE_LENGTH = 2
  MaxLate = 1
INVARIANTS NotEarly ContextWindow NoDanglingTimer ItemsAreDue
PROPERTY ArmedTimerFires
