\* A careful application of two threads; every step of dw_init may fail.
SPECIFICATION FairSpec
CONSTANTS
  Callers = {a, b}
  MayFail = {"config", "http", "torrent", "start"}
  Careful = TRUE
  MaxInits = 3
  MaxCalls = 3
INVARIANTS TypeOK UsesLive ReadyOrQuiet
PROPERTY CallsReturn
CHECK_DEADLOCK FALSE
