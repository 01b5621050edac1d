SPECIFICATION GraphicsSpec
CONSTANTS
  MemMap <- SmallMap
  ReservedPages = 3
  OwnerWords <- MCOwnerWords
  MaxCount = 3
  BackBuffer = 12
  WindowHeap = 14
  BackBufferPages = 2
  WindowSizes <- MCWindowSizes
  MAX_WINDOWS = 2
  Pixels <- MCPixels
  Fanout = 3
  PageSize = 4
  CR3 = 5
  FirmwareTables <- MCTables
  FirmwarePlaces <- MCPlaces
  KernelRange <- MCKernelRange
  Framebuffers <- MCFramebuffers
  FixedRanges <- MCFixedRanges
  VirtualPage <- MCPages
INVARIANTS
  TypeOK
  FreeListIntact
  
  RangesMapped
PROPERTIES
  AllocatorSpec
  AddressSpaceSpec
