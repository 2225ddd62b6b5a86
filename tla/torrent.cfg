SPECIFICATION FairSpec
CONSTANTS
  Files = {1, 2}
  First <- MCFirst
  Size <- MCSize
  PieceLength = 2
  Threshold = 2
  MaxPartial = 1
  MaxPending = 1
  MaxEvents = 3
INVARIANTS
  TypeOK
  FilesAreTrue
  SegmentsAreRuns
PROPERTIES
  SessionSpec
  ProgressIsSaved
CHECK_DEADLOCK FALSE
