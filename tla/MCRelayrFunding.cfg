SPECIFICATION Spec
CONSTANTS
  Tabs = {t1, t2}
  Operations = {o1, o2}
  None = None
  Locks = FALSE
  Outcomes = {"paid", "reverted"}
  MaxPayments = 3
SYMMETRY Symmetry
INVARIANTS TypeOK AuthorizedOnce PaidOnce PaidIsExecutable
CHECK_DEADLOCK FALSE
