\* Two executors race for one request.
CONSTANTS
  e1 = e1
  e2 = e2
  Executors = {e1, e2}
  Cancellers = {}
  Nonces = {n1, n2}
  NumRequests = 1
  Total = 1
  Unsupported = {}
  Empty = {}
  Unreadable = {}
  SingleWatcher = FALSE
  None = None
SPECIFICATION Spec
CHECK_DEADLOCK FALSE
INVARIANTS OneExecutorPerRun
