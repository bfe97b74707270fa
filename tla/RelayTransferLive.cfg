SPECIFICATION FairSpec
CONSTANTS
  Size = 2
  Chunks = 1
  Cut <- MCCutOne
  MaxChunk = 2
  Posts = {p1}
  Gets = {g1}
  Wait = 1
  Idle = 1
  None = None
PROPERTIES EventuallyReaped DownloadReturns ImplementsPipe
CHECK_DEADLOCK FALSE
