\* Two artifacts, each edited once while a slot for checks and one for publications run
\* command after command; the first version of the module tree fails its fixtures.
CONSTANTS
  Checkers = {c1}
  Publishers = {p1}
  NumFiles = 2
  ReadOnce = {2}
  Broken <- FirstFails
  MaxEdits = 1
  MaxTime = 1
  None = None
SPECIFICATION Spec
CHECK_DEADLOCK FALSE
INVARIANTS TypeOK UploadsAreSound
