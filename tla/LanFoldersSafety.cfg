SPECIFICATION Spec
CONSTANTS
  o1 = o1  o2 = o2  n = n
  Offers = {o1, o2}
  NameOf <- MCSameName
  ContentOf <- MCContent
  Sends = {s1, s2}
  Suffixes = {1}
  MaxMishaps = 1
  None = None
SYMMETRY Symmetry
INVARIANTS TypeOK FoldersStay ArchivesOwned
CHECK_DEADLOCK FALSE
