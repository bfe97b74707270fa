SPECIFICATION Spec
CONSTANTS
  Size = 3
  Chunks = 3
  Cut <- MCCut
  MaxChunk = 2
  Posts = {p1, p2}
  Gets = {g1, g2}
  Wait = 0
  Idle = 0
  None = None
SYMMETRY Symmetry
INVARIANTS StreamIsPrefix AnswersAreTrue CompleteMeansWhole
PROPERTIES OneReceiver
CHECK_DEADLOCK FALSE
