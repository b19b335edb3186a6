SPECIFICATION Spec
CONSTANTS
  h1 = h1
  h2 = h2
  None = None
  Handler <- OneHandler
  Delays <- AtOnce
  TimeRange = 8
  MaxLateness = 1
  LWCAN_TIMEOUTS_NUM = 10
  ChunkSize = 32
INVARIANT
  PoolMatchesList
