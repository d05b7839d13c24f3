SPECIFICATION Spec
CONSTANTS
  PageSize = 2
  Limit = 10
  Top = 20
  Boards <- GoodBoards
  NULL = NULL
INVARIANTS
  TypeOK
  FreeListsSound
PROPERTIES
  BootEnds
  ImplementsFrameAllocator
