SPECIFICATION Spec
CONSTANTS
  Seg = {s0, s1}
  BootSeg = s0
  PagesPer = 2
  Block = {b1, b2}
  HugeBlock = Huge
  NDirect = 1
  NSmall = 1
  NClasses = 2
  VmaClass = 0
  AllocCalls <- TwoCourses
  FreeCalls <- AllFrees
  MaxHeld = 4
  MaxDepth = 2
INVARIANT
  NoAssertFails
