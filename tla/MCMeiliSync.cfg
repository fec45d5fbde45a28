SPECIFICATION Spec
CONSTANTS
  Ids = {a, b, c}
  Bad = Bad
  BatchSize = 2
  MaxRows = 2
  MaxRuns = 2
INVARIANTS DeleteWhenComplete SuccessIsSync
CHECK_DEADLOCK FALSE
