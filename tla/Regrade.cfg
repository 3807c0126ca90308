\* A run of two tasks with their traces: one with a semver alone, and one with hashes, whose
\* row an older build wrote; a regrade and a regrade of the first task. Two instants, before which
\* lies the row without a time.
CONSTANTS
  x = x
  g1 = g1
  g2 = g2
  t1 = t1
  t2 = t2
  None = None
  Runs = {x}
  Tasks = {t1, t2}
  Traced <- AllTraced
  Stamped = {t2}
  Regraders = {g1, g2}
  Only <- AnyRun
  Wanted <- OneTask
  Versioned = {t1}
  Legacy <- OldTask
  EditedParts <- VersionVerifier
  MaxClock = 1
  MaxEdits = 1
SPECIFICATION Spec
CHECK_DEADLOCK FALSE
INVARIANTS TypeOK 
PROPERTIES EntrySupersedes StaleUnlessRestored
