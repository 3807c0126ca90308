\* Two workers; a spawned local arm, a reused one, a gateway arm; writes may fail.
CONSTANTS
  NumArms = 3
  ItemsOf <- ThreeArms
  Workers = {w1, w2}
  LocalArms = {1, 2}
  ReusedArms = {2}
  StopLoss = 1
  MaxCost = 2
  CanThrow = TRUE
  None = None
SPECIFICATION FairSpec
CHECK_DEADLOCK FALSE
INVARIANTS TypeOK OneRowPerItem ReportHonest SpendBounded ServerLifetime
PROPERTIES Ends
