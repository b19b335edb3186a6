SPECIFICATION Spec
CONSTANTS
  b1 = b1
  b2 = b2
  Messages <- ReceivedMessages
  Outgoing <- None
  PeerFrames <- DataFrames
  BufferId <- TwoBuffers
  FailingFlows <- BothFlows
  Holding = TRUE
  Detachable = FALSE
  ISOTP_RECEIVE_BS = 0
  ISOTP_N_WFT = 0
  LWCAN_TIMEOUTS_NUM = 4
PROPERTY
  RefusalFreesABuffer
