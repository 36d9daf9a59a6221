SPECIFICATION FairSpec
CONSTANTS
  p1 = p1
  p2 = p2
  Jobs = {1, 2}
  Projects = {p1, p2}
  ProjectOf <- Apart
  Workers = {w1}
  None = None
  MaxFaults = 1
  MaxReorgs = 0
  PermanentFaults = TRUE
  DeepReorgs = FALSE
INVARIANTS NoncesSerial
PROPERTIES JobsEnd
CHECK_DEADLOCK FALSE
