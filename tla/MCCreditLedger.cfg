SPECIFICATION Spec
CONSTANTS
  r1 = r1
  r2 = r2
  r3 = r3
  k1 = k1
  k2 = k2
  Requests = {r1, r2, r3}
  Keys = {k1, k2}
  KeyOf <- OwnerOf
  KeyLimit <- LimitOf
  MaxAmount = 2
  DailyCredit = 4
  Margin = 0
  MaxConcurrency = 1
  Grace = 1
  Skew = 0
  Readers = {w1}
  DayLength = 2
  MaxTime = 3
  Nothing = Nothing
SYMMETRY Symmetry
CONSTRAINT ReadingsMatter
INVARIANTS Solvent LimitsHold
PROPERTIES RetentionFreesNothing BudgetSpec
CHECK_DEADLOCK FALSE
