\* Two rolling builds and one by date, of three captures on two pages.
CONSTANTS
  b1 = b1
  b2 = b2
  b3 = b3
  Builders = {b1, b2, b3}
  Rolling = {b1, b2}
  Selects <- Asked
  NumCaptures = 3
  Late = {3}
  Perishable = {2}
  PageSize = 2
  Concurrency = 2
  None = None
SPECIFICATION FairSpec
INVARIANTS TypeOK LeaseSound PublishedWhole NeverStuck DownloadedOnce
PROPERTIES Implements EndsUnlocked
CHECK_DEADLOCK FALSE
