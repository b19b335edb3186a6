SPECIFICATION Spec
CONSTANTS
  b1 = b1
  b2 = b2
  Messages <- ManyMessages
  Outgoing <- None
  PeerFrames <- AllFrames
  BufferId <- TwoBuffers
  FailingFlows <- None
  Holding = TRUE
  Detachable = FALSE
  ISOTP_RECEIVE_BS = 3
  ISOTP_N_WFT = 0
  LWCAN_TIMEOUTS_NUM = 4
SYMMETRY BufferSymmetry
INVARIANTS
  InputDriven
  HeldComplete
PROPERTIES
  HeldStable
