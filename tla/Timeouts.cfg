SPECIFICATION FairSpec
CONSTANTS
  h1 = h1
  h2 = h2
  None = None
  Handler <- TwoHandlers
  Delays <- NowAndLater
  TimeRange = 8
  MaxLateness = 1
  LWCAN_TIMEOUTS_NUM = 3
  ChunkSize = 16
INVARIANTS
  TypeOK
  PoolMatchesList
PROPERTIES
  CalledInOrder
  EventuallyCalled
