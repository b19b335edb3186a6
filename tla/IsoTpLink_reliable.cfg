SPECIFICATION FairSpec
CONSTANTS
  b1 = b1
  Messages <- AllMessages
  OutgoingA <- LongAndSingle
  OutgoingB <- OneAnswer
  BufferId <- OneBuffer
  ISOTP_RECEIVE_BS = 2
  ISOTP_N_WFT = 0
  LWCAN_TIMEOUTS_NUM = 4
  Lossy = FALSE
CHECK_DEADLOCK FALSE
INVARIANT
  NeverBothWait
PROPERTIES
  BothSafe
  EachArrives
