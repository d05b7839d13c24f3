SPECIFICATION Spec
CONSTANTS
  Vma = {v1, v2, v3, v4}
  NULL = NULL
  MaxValue = 3
  MaxLen = 2
  RandomBits = 3
SYMMETRY Structs
INVARIANTS
  LinksAgree
  HoldsMembers
  FindIsRight
  BestFitIsRight
