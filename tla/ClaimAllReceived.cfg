SPECIFICATION Spec
CONSTANTS
  Offers = {o1, o2}
  NameOf <- MCSameName
  Sends = {s1, s2}
  Suffixes = {1, 2}
  MaxCrashes = 0
  MaxDiskFails = 0
  None = None
  n = n
INVARIANT AllReceived
CHECK_DEADLOCK FALSE
