SPECIFICATION Spec
CONSTANTS
  Tabs = {t1, t2}
  Operations = {o1}
  None = None
  Locks = TRUE
  Outcomes = {"paid", "reverted"}
  MaxPayments = 3
SYMMETRY Symmetry
INVARIANTS FundedOnce
CHECK_DEADLOCK FALSE
