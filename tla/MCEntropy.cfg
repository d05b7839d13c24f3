SPECIFICATION Spec
CONSTANTS
  BlockLen = 3
  KeyLen = 1
  Word = 4
  Threshold = 2
  Estimate63 = 4
  MixLens = {1, 2, 4}
  Credits = {1, 3}
  Lens = {1, 4}
  MaxBytes = 8
  MaxCredit = 7
  MaxDraws = 3
  NULL = NULL
INVARIANTS
  HashesAreRight
  DrawsAreSeeded
  NothingIsDrawnTwice
