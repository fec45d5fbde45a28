SPECIFICATION FairSpec
CONSTANTS
  Obj = {o1, o2}
  Node <- MCNode
  MayFail = TRUE
INVARIANTS NothingLost CellsOwned DeletedIsTrue
PROPERTIES EveryEventPrinted
CHECK_DEADLOCK FALSE
