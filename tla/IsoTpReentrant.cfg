SPECIFICATION ReentrantSpec
CONSTANTS
  Messages <- SentMessages
  Outgoing <- SentMessages
  PeerFrames <- FlowControls
  BufferId <- None
  FailingFlows <- OutputOnly
  Holding = FALSE
  Detachable = FALSE
  ISOTP_RECEIVE_BS = 0
  ISOTP_N_WFT = 0
  LWCAN_TIMEOUTS_NUM = 4
INVARIANT
  SentMeansTransmitted
