\* Two handles, with a state callback that does not call the bridge.
SPECIFICATION FairSpec
CONSTANTS
  a = a
  b = b
  Handles <- TwoHandles
  CallbackAsks = FALSE
  Asked <- Everything
  MaxCalls <- Bounds
INVARIANTS TypeOK CodeIsWhole PromiseKeptOnce ConnectedIsLive
PROPERTY CallsReturn
CHECK_DEADLOCK FALSE
