SPECIFICATION Spec
CONSTANTS
  Blobs <- OneCell
  Initializers <- Layouts
  KernelStart = 5
  KernelEnd = 7
  Word = 4
  NULL = NULL
  NS16550A = 1
  OtherDriver = 2
  RegsSize = 2
  HandlersCap = 1
INVARIANT
  ReservationsFitTheirCells
