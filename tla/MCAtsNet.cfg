CONSTANTS
  t1 = t1  t2 = t2  a = a  b = b
  None = None
  Tasks = {t1, t2}
  Servers = {a, b}
  ATS_NET_MAX_SOCKETS = 2
  ATS_RPC_MAX_PENDING = 2
  MaxRequestId = 3
  MaxCalls = 4
  MaxLosses = 1
SPECIFICATION Spec
SYMMETRY Symmetric
CHECK_DEADLOCK FALSE
INVARIANTS
  TableHoldsSockets
  ConnectedIfPatient
  RequestsInOnePlace
  AnswerIsForCall
