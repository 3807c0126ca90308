\* Three commands, each as often as not the first: a start that brings a tool token,
\* a repair and a stop; two runs of one session.
CONSTANTS
  desktop = desktop
  repair = repair
  stop = stop
  r1 = r1
  r2 = r2
  s1 = s1
  desktopToken = desktopToken
  None = None
  Commands = {desktop, repair, stop}
  Kind <- Kinds
  Requested <- Tokens
  MaxSidecars = 2
  Runs = {r1, r2}
  SessionOf <- OneSession
SPECIFICATION FairSpec
CHECK_DEADLOCK FALSE
INVARIANTS TypeOK NoOrphan TokensMatch SessionExclusive
PROPERTIES CommandsEnd
