SPECIFICATION LiveSpec
CONSTANTS
  Offers = {o1, o2}
  NameOf <- MCSameName
  Sends = {s1}
  Suffixes = {1, 2}
  MaxCrashes = 1
  MaxDiskFails = 1
  None = None
  n = n
INVARIANTS SeenIsFetchable
PROPERTIES SendEnds ReceiveEnds
CHECK_DEADLOCK FALSE
