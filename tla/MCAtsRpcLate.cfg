CONSTANTS
  t1 = t1  t2 = t2  t3 = t3  c1 = c1  c2 = c2
  None = None
  Tasks = {t1, t2}
  Forever = {}
  Channels = {c1}
  ATS_RPC_MAX_PENDING = 2
  MaxRequestId = 2
  Sizes = {1}
  MaxCalls = 3
SPECIFICATION FairSpec
INVARIANTS
  TypeOK
  SlotOwnership
  DeliveryTargetHeld
  SlotIntact
  IdsRepeatLate
PROPERTIES
  AwaitedAnswerIsDelivered
  CallReturns
