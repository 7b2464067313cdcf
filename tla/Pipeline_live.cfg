SPECIFICATION FairSpec
CONSTANTS
  Loops = {l1}
  NoLoop = none
  Workers = {w1}
  QueueCap = 1
  RingCap = 1
  WireCap = 1
  MaxBreaks = 1
  MaxCycles = 3
  MaxStarts = 2
  MayShutdown = TRUE
PROPERTIES
  StopReturns
  CyclesSettle
CHECK_DEADLOCK FALSE
