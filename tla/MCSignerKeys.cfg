SPECIFICATION Spec
CONSTANTS
  Projects = {p1, p2}
  Signers = {s1, s2}
  Calls = {c1, c2}
  None = None
  MaxGeneration = 3
  Versions = 2
CONSTRAINTS OneCallOnceRotating ThirdAlone
SYMMETRY Symmetry
INVARIANTS TypeOK BindingWasOnChain SignersApart
PROPERTIES RevokedStaysRevoked BindingNeverGoesBack
CHECK_DEADLOCK FALSE
