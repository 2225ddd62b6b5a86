SPECIFICATION FairSpec
CONSTANTS
  Files = {1, 2}
  First <- MCFirst
  Size <- MCSize
  PieceLength = 2
  Threshold = 2
  MaxPartial = 0
  MaxPending = 1
  MaxEvents = 1
PROPERTIES
  ResolvingEnds
CHECK_DEADLOCK FALSE
