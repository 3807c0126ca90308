\* One watcher, one cancellation.
CONSTANTS
  e1 = e1
  e2 = e2
  Executors = {e1}
  Cancellers = {c1}
  Nonces = {n1}
  NumRequests = 1
  Total = 1
  Unsupported = {}
  Empty = {}
  Unreadable = {}
  SingleWatcher = TRUE
  None = None
SPECIFICATION Spec
CHECK_DEADLOCK FALSE
PROPERTIES ProgressKeepsCancel
