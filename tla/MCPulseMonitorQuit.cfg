SPECIFICATION FairSpec
CONSTANTS
  Obj = {o1}
  Node <- MCNode
  MayFail = FALSE
PROPERTIES QuitStops
CHECK_DEADLOCK FALSE
