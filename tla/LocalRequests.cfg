SPECIFICATION Spec
CONSTANTS
  i1 = i1
  i2 = i2
  i3 = i3
  x = x
  y = y
  NoOne = NoOne
  Tasks = {1, 2}
  MaxTouches = 1
  PageLimit = 2
  MaxRows = 3
  Ids = {i1, i2, i3}
  Payloads = {x, y}
  MaxReads = 2
  MaxMutations = 2
  MaxAsks = 3
  MaxAttachments = 2
CONSTRAINT OneThingAtATime
SYMMETRY Symmetry
INVARIANTS
  StaysInside
  PagesAreComplete
  LedgerIsFaithful
PROPERTY
  RevokedRunsYieldNothing
CHECK_DEADLOCK FALSE
