SPECIFICATION Spec
CONSTANTS
  LWCAN_MEM_SIZE = 116
  HeapAddress = 13
  MEMORY_BYTE_ALIGNMENT = 8
  LinkSize = 8
  BufferSize = 12
  SizeRange = 256
  CallocRange = 256
  Requests <- SomeRequests
  Numbers <- OneOrTwo
INVARIANTS
  TypeOK
  BlocksTile
  FreeListInOrder
  NothingLeaked
  RoomIsFound
PROPERTY
  AllocatorSafe
