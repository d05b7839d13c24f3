SPECIFICATION Spec
CONSTANTS
  Radix = 2
  PageBytes = 2
  Frame = {1, 2, 3, 4, 5, 6, 7}
  Root = 1
  BootFrames <- Booted
  FreeFrames <- Unreserved
  Device = {20, 22, 23}
  Regions <- TwoRegions
  SegPages = 2
  SegSizes = {2}
  TlbSize = 1
  Starts = {0, 2, 3, 4}
  NULL = NULL
INVARIANT
  IomemHasTakenEffect
