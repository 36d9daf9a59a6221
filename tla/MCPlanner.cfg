SPECIFICATION FairSpec
CONSTANTS
  MaxPrincipal = 2
  MaxMint = 2
  MaxGift = 1
  MaxReward = 1
  MinBatch = 1
  MaxBatch = 1
  MaxProceeds = 2
  MaxInflow = 2
  MaxProduction = 1
  MaxFloor = 2
CONSTRAINT OneOutage
INVARIANTS RecoveryNeverBlocked ServesOnlyWhileBacked ClosedReturnsPrincipal NothingLost ClosureNeverStuck
PROPERTIES PromiseKept ClosureCompletes EverythingComesBack
CHECK_DEADLOCK FALSE
