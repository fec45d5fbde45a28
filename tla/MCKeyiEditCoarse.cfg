SPECIFICATION KeyiSpec
CONSTANTS
  Original <- MCOriginal
  Edits <- MCEdits
  MaxWrites = 1
  CoarseClock = TRUE
INVARIANTS CopiedBackIfModified
CHECK_DEADLOCK FALSE
