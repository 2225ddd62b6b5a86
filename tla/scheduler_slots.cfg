SPECIFICATION FairSpec
CONSTANTS
  http1 = http1
  http2 = http2
  bt = bt
  Https = {http1}
  Torrents = {bt}
  Priority <- MCPriority
  Created <- MCCreated
  Rates = {0, 1}
  Maxes = {1, 2}
  MaxCalls = 2
PROPERTY SlotsAreFreed
