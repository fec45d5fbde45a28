SPECIFICATION FairSpec
CONSTANTS
  Buffer = 14
  Threshold = 4
  Headroom = 0
  MaxError = 2
  Latency = 1
  MaxLate = 2
  MaxFails = 2
  MaxSuspends = 1
INVARIANTS NeverStuckPrepared PunctualNeverUnderruns EveryXrunReported
PROPERTY PlaysAgain
CHECK_DEADLOCK FALSE
