SPECIFICATION Spec
CONSTANTS
  Vma = {v1, v2, v3, v4, v5}
  Head = Head
  Lo = 1
  Hi = 6
  Align = 2
  NULL = NULL
  PANIC = PANIC
  MaxZero = 1
  ZeroDraws <- OneZeroDraw
SYMMETRY Structs
INVARIANT
  AssertsHold
