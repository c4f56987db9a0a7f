CONSTANTS
  t1 = t1  t2 = t2  t3 = t3  c1 = c1  c2 = c2
  None = None
  Tasks = {t1, t2}
  Forever = {}
  Channels = {c1, c2}
  ATS_RPC_MAX_PENDING = 2
  MaxRequestId = 4
  Sizes = {1}
  MaxCalls = 3
SPECIFICATION Spec
SYMMETRY Symmetric
CHECK_DEADLOCK FALSE
INVARIANTS
  AnswerIsOwn
