SPECIFICATION Spec
CONSTANTS
  p1 = p1
  p2 = p2
  Procs = {p1, p2}
  None = None
  StateLimit = 4
  MaxOps = 4
  MaxFaults = 2
INVARIANT StateSurvives
SYMMETRY Symmetry
PROPERTY
  ImplementsAtomicState
CHECK_DEADLOCK FALSE
