SPECIFICATION Spec
CONSTANTS
  p1 = p1
  p2 = p2
  Jobs = {1, 2}
  Projects = {p1}
  ProjectOf <- TwoJobs
  Workers = {w1, w2}
  None = None
  MaxFaults = 1
  MaxReorgs = 1
  PermanentFaults = TRUE
  DeepReorgs = TRUE
SYMMETRY Symmetry
INVARIANTS NoRevival EndedIsTrue
PROPERTIES EndedStays QuarantineCloses
CHECK_DEADLOCK FALSE
