\* A file of three runs of bytes, of which two are sent at once.
SPECIFICATION FairSpec
CONSTANTS
  Size = 3
  Chunk = 2
  MaxRequests = 2
  MaxStops = 1
INVARIANTS TypeOK BodyIsFile
PROPERTY WaitsEnd
CHECK_DEADLOCK FALSE
