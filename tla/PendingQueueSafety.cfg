SPECIFICATION Spec
CONSTANTS
  Requests = {r1, r2, r3}
  Ids = {1, 2, 3}
  MaxDiskFails = 2
  MaxTears = 1
  None = None
  Missing = Missing
  Torn = Torn
SYMMETRY Symmetry
INVARIANTS IdsUnique NoneComesBack SavedAtRest
PROPERTIES ImplementsQueue
