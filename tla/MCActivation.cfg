SPECIFICATION Spec
CONSTANTS
  Attempts = {a1, a2}
  Canaries = {c1, c2}
  None = None
  Grace = 0
  MaxAge = 0
  Life <- MCLife
  MaxGeneration = 2
  MaxTime = 1
CONSTRAINT Few
SYMMETRY Symmetry
INVARIANTS TypeOK ReadyIsEvidenced VerifiedIsProven ProvenStaysVerified CanaryPaysOnce
PROPERTY SuspendedStays
CHECK_DEADLOCK FALSE
