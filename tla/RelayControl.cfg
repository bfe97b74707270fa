SPECIFICATION Spec
CONSTANTS
  Conns = {c1, c2}
  Transfers = {x1}
  MaxTable = 1
  MaxAsks = 3
  MaxMishaps = 2
  None = None
SYMMETRY Symmetry
INVARIANTS TypeOK RosterCurrent AbortedWithPeer
CHECK_DEADLOCK FALSE
