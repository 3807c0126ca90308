\* A watcher, killed and started again as an older build, with two requests and a canceller.
CONSTANTS
  e1 = e1
  e2 = e2
  Executors = {e1, e2}
  Cancellers = {c1}
  Nonces = {n1, n2, n3}
  NumRequests = 2
  Total = 2
  Unsupported <- OldBuild
  Empty = {2}
  Unreadable = {1}
  SingleWatcher = TRUE
  None = None
SPECIFICATION FairSpec
CHECK_DEADLOCK FALSE
INVARIANTS TypeOK ProgressBacked ReadsAgree FlipHonoured NotRunTwice
PROPERTIES Settles Implements
