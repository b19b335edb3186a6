SPECIFICATION FairSpec
CONSTANTS
  b1 = b1
  b2 = b2
  Messages <- SentMessages
  Outgoing <- SentMessages
  PeerFrames <- AnyFrames
  BufferId <- OneBuffer
  FailingFlows <- BothFlows
  Holding = FALSE
  Detachable = TRUE
  ISOTP_RECEIVE_BS = 1
  ISOTP_N_WFT = 2
  LWCAN_TIMEOUTS_NUM = 4
INVARIANTS
  TypeOK
  OutputDriven
  InputDriven
  BuffersOwned
  ReportedOnce
  SentMeansTransmitted
PROPERTIES
  OutputReturns
  InputReturns
