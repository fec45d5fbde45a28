\* jump-or-exec alone: whether a match that has the focus already runs the command.
SPECIFICATION JumpSpec
CONSTANTS
  Windows = {w1, w2}
  MaxChanges = 0
PROPERTIES
  OnlyInactiveActivated
CHECK_DEADLOCK FALSE
