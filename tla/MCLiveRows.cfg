SPECIFICATION Spec
CONSTANTS
  Requests = {r1}
  Legacy = {}
  Instances = {i1, i2}
  NoInstance = NoInstance
  MaxAmount = 1
  Charges = {1}
  MayMissHeartbeats = FALSE
PROPERTIES LiveRowsUntouched
CHECK_DEADLOCK FALSE
