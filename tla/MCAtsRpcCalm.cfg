CONSTANTS
  t1 = t1  t2 = t2  t3 = t3  c1 = c1  c2 = c2
  None = None
  Tasks = {t1, t2, t3}
  Forever = {t3}
  Channels = {c1, c2}
  ATS_RPC_MAX_PENDING = 2
  MaxRequestId = 3
  Sizes = {0, 1}
  MaxCalls = 4
SPECIFICATION Spec
ACTION_CONSTRAINTS
  InTime
  FreshId
SYMMETRY Symmetric
CHECK_DEADLOCK FALSE
INVARIANTS
  AnswerIsOwn
  TokenMeansAnswer
PROPERTIES
  ImplementsSyncCall
