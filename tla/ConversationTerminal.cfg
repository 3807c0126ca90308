\* A supervised run with one delta or turn per prompt and one nudge.
CONSTANTS
  SessionCalls = {c1}
  StreamCalls = {c1, c2}
  Unannounced = {c2}
  MaxParts = 1
  MaxBacklog = 0
  MaxContinuations = 1
  MaxNudges = 1
  BadRequests = FALSE
  Backends = {"supervised"}
SPECIFICATION Spec
CHECK_DEADLOCK FALSE
INVARIANTS NothingFollowsTerminal
