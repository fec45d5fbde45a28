SPECIFICATION Spec
CONSTANTS
  Client = {c1, c2}
  Nick = {n1, n2}
  BadNick = BadNick
  NoNick = NoNick
  Content = {hi}
  MaxReqs = 2
  MaxLog = 3
SYMMETRY MCSymmetry
INVARIANTS NicknamesUnique NoTextIgnored
PROPERTIES ImplementsRoom
CHECK_DEADLOCK FALSE
