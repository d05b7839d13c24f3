SPECIFICATION Spec
CONSTANTS
  PageSize = 2
  Limit = 10
  Top = 20
  Boards <- LimitBoards
  NULL = NULL
INVARIANTS
  RunsAreNotEmpty
