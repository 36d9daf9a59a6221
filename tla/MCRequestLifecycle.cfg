SPECIFICATION FairSpec
CONSTANTS
  Requests = {r1}
  Legacy = {}
  Instances = {i1, i2}
  NoInstance = NoInstance
  MaxAmount = 2
  Charges = {1, 3}
  MayMissHeartbeats = TRUE
INVARIANTS ReleasedNeverSent DebitCoversCharge
PROPERTIES SettledCostStands LedgerSpec RunningRowsUntouched HandlerEnds OrphansResolved
CHECK_DEADLOCK FALSE
