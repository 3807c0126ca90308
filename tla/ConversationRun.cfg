\* Every runtime; two deltas or turns per prompt, one nudge, one tool call of a
\* session, two of a stream, of which one arrives unannounced.
CONSTANTS
  SessionCalls = {c1}
  StreamCalls = {c1, c2}
  Unannounced = {c2}
  MaxParts = 2
  MaxBacklog = 0
  MaxContinuations = 2
  MaxNudges = 1
  BadRequests = TRUE
  Backends = {"pi", "supervised", "vercel"}
SPECIFICATION FairSpec
CHECK_DEADLOCK FALSE
INVARIANTS TypeOK TracesAccepted MarkersStable TeacherSeesAnswer EndReported
PROPERTIES CancelledRunEnds
