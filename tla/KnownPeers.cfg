SPECIFICATION FairSpec
CONSTANTS
  m1 = m1  m2 = m2  n = n  k1 = k1  k2 = k2
  Machines = {m1, m2}
  Names = {n}
  NameOf <- MCSameName
  FirstKey <- MCFirstKey
  Keys = {k1, k2}
  NoKey = NoKey
  MaxWire = 2
  MaxFails = 1
  None = None
INVARIANTS PeersArePinned
PROPERTIES PinsStay ForgottenReturns
CHECK_DEADLOCK FALSE
