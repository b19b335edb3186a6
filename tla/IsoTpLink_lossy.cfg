SPECIFICATION FairSpec
CONSTANTS
  b1 = b1
  Messages <- AllMessages
  OutgoingA <- ThreeSegmented
  OutgoingB <- OneShortAnswer
  BufferId <- OneBuffer
  ISOTP_RECEIVE_BS = 2
  ISOTP_N_WFT = 0
  LWCAN_TIMEOUTS_NUM = 4
  Lossy = TRUE
CHECK_DEADLOCK FALSE
PROPERTIES
  SafeUntilStop
  Recovers
