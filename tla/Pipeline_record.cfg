SPECIFICATION Spec
CONSTANTS
  Loops = {l1, l2}
  NoLoop = none
  Workers = {w1, w2}
  QueueCap = 1
  RingCap = 2
  WireCap = 1
  MaxBreaks = 1
  MaxCycles = 4
  MaxStarts = 2
  MayShutdown = FALSE
SYMMETRY Symmetry
INVARIANTS
  TypeOK
  SeqUnique
  Accounting
PROPERTIES
  CyclesRecordedOnce
  UplinkIsFifo
CHECK_DEADLOCK FALSE
