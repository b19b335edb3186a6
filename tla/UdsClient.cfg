SPECIFICATION FairSpec
CONSTANTS
  UDS_CONNECT_RETRY_NUM = 3
  UDS_KEEP_SESSION = TRUE
  Chunks = 3
  Disturbances <- Disturbed
INVARIANTS
  TypeOK
  WaitsDriven
  AnsweredOnce
  ConnectEnds
  TimersRight
  IdleIsQuiet
PROPERTY
  StateLeft
