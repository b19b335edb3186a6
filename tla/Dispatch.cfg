SPECIFICATION FairSpec
CONSTANTS
  c1 = c1
  c2 = c2
  x = x
  None = None
  Interface <- TwoInterfaces
  MAX_CANIF_NUM = 2
  CANRAW_MAX_PCB_NUM = 3
  ISOTP_MAX_PCB_NUM = 1
  RawChunkSize = 40
  IsoTpChunkSize = 144
  CanId <- OneId
INVARIANTS
  TypeOK
  NumbersUnique
  BoundReached
  FramesRouted
  ListsIntact
  ReturnsConfirmed
PROPERTY
  SendReturns
