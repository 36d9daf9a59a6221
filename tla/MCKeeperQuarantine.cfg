SPECIFICATION Spec
CONSTANTS
  p1 = p1
  p2 = p2
  Jobs = {1}
  Projects = {p1}
  ProjectOf <- OneJob
  Workers = {w1}
  None = None
  MaxFaults = 0
  MaxReorgs = 0
  PermanentFaults = FALSE
  DeepReorgs = FALSE
INVARIANTS QuarantinedHasNoReceipt
CHECK_DEADLOCK FALSE
