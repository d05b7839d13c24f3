SPECIFICATION Spec
CONSTANTS
  Seg = {s0, s1}
  BootSeg = s0
  PagesPer = 2
  Block = {b1, b2}
  HugeBlock = Huge
  NDirect = 1
  NSmall = 2
  NClasses = 3
  VmaClass = 0
  AllocCalls <- LongestCourse
  FreeCalls <- AllFrees
  MaxHeld = 3
  MaxDepth = 2
INVARIANTS
  TypeOK
  BlocksAccounted
  PagesAccounted
  FullPagesAreFull
PROPERTY
  CallsReturn
