SPECIFICATION Spec
CONSTANTS
  Timeout = 2
  Intervals = {10, 16, 25}
  Capacity = 2
  MaxCallbacks = 3
  MaxErrs = 3
  Iterations = 2
  Jacks = {j1, j2, j3}
  MaxBind = 2
  Windows = {w1, w2}
  MaxChanges = 2
  MAX_SCREEN = 3
  Trees <- MCTrees
  Bases <- MCBases
  Original <- MCOriginal
  Edits <- MCEdits
  MaxWrites = 2
  CoarseClock = FALSE
CHECK_DEADLOCK FALSE
INVARIANTS
  BackBufferFree
  ConsoleRestored
  IntervalsLive
  ExitTellsAll
  
  ZeroMeansRecovered
  LastLineIsTrue
  PreviewCommitted
  DotfilesInstalled
  EditKept
  ExitTells
PROPERTIES
  DisplayEnds
  JumpsIfItCan
