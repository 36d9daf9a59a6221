SPECIFICATION Spec
CONSTANTS
  Projects = {p1}
  Signers = {s1}
  Calls = {c1}
  None = None
  MaxGeneration = 2
  Versions = 2
CONSTRAINT QuietCheck
INVARIANT BindingsReadable
CHECK_DEADLOCK FALSE
