SPECIFICATION Spec
CONSTANTS
  Offers = {o1}
  NameOf <- MCSameName
  Sends = {s1, s2}
  Suffixes = {1, 2}
  MaxCrashes = 1
  MaxDiskFails = 1
  None = None
  n = n
SYMMETRY Symmetry
INVARIANTS TypeOK WholeOrNothing ReceivedStays AnsweredOnce DeliveredIsTrue
CHECK_DEADLOCK FALSE
