SPECIFICATION FairSpec
CONSTANTS
  MaxItems = 2
  Frames = 2
  MaxWire = 2
  MaxClicks = 1
  None = None
INVARIANTS TypeOK OwnFrames DeclineStands PairedRight
PROPERTIES TransfersEnd
CHECK_DEADLOCK FALSE
