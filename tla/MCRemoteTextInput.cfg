SPECIFICATION Spec
CONSTANTS
  Browsers <- MCBrowsers
  MaxTyped = 1
  MaxSends = 1
  MaxFocus = 2
  MaxOther = 1
  MaxSockets = 2
CHECK_DEADLOCK FALSE
CONSTRAINT PhoneFirst
INVARIANTS
  RightField
  AnswerIsTrue
  PreeditOwner
PROPERTIES
  SendAnswered
  InSync
