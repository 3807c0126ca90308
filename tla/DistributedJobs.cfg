\* A job of two rollouts and one of none, a third that wants a slug taken; two claims, three
\* submissions, also of a negative count.
CONSTANTS
  j1 = j1
  j2 = j2
  j3 = j3
  s1 = s1
  s2 = s2
  None = None
  Jobs = {j1, j2, j3}
  Slug <- Slugs
  Target <- Targets
  Claims = {c1, c2}
  Sizes <- Counts
  MaxSubmissions = 3
SPECIFICATION Spec
SYMMETRY Symmetry
INVARIANTS TypeOK JobsAgree
PROPERTIES EndsHold
