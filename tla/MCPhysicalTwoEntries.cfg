SPECIFICATION Spec
CONSTANTS
  PageSize = 2
  Limit = 10
  Top = 20
  Boards <- TwoEntryBoards
  NULL = NULL
INVARIANTS
  AllRamIsFound
