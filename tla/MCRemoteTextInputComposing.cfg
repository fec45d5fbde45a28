SPECIFICATION Spec
CONSTANTS
  Browsers <- MCBrowsers
  MaxTyped = 2
  MaxSends = 1
  MaxFocus = 1
  MaxOther = 0
  MaxSockets = 1
CHECK_DEADLOCK FALSE
PROPERTIES
  ComposingNotSynced
