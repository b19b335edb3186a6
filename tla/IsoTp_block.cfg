SPECIFICATION Spec
CONSTANTS
  b1 = b1
  b2 = b2
  Messages <- SentMessages
  Outgoing <- SentMessages
  PeerFrames <- BlocksOfThree
  BufferId <- None
  FailingFlows <- None
  Holding = TRUE
  Detachable = FALSE
  ISOTP_RECEIVE_BS = 0
  ISOTP_N_WFT = 2
  LWCAN_TIMEOUTS_NUM = 4
PROPERTY
  BlockSizeKept
