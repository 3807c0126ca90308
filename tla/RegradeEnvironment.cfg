\* One task, whose environment is edited once, one run of it, one regrade.
CONSTANTS
  x = x
  g1 = g1
  g2 = g2
  t1 = t1
  t2 = t2
  None = None
  Runs = {x}
  Tasks = {t1}
  Traced <- OneTraced
  Stamped = {t1}
  Regraders = {g1}
  Only <- AnyRun
  Wanted <- EveryTask
  Versioned = {}
  Legacy <- NoneOld
  EditedParts <- Environment
  MaxClock = 2
  MaxEdits = 1
SPECIFICATION Spec
CHECK_DEADLOCK FALSE
INVARIANTS FreshIsCurrent
