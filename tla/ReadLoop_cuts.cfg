SPECIFICATION FairSpec
CONSTANTS
  NumShots = 2
  FrameSizes = {2, 3}
  Reads = {4, 7}
  Slack = 1
  Residues = {0, 3, 14}
  MaxTries = 2
  MaxKicks = 1
  Limits = {0, 1}
  Clocks = {TRUE, FALSE}
  Span = 1
  Laps = 2
INVARIANTS
  LockedToStream
  SlicedAsCut
PROPERTIES
  CutsCycles
  LockSettles
CHECK_DEADLOCK FALSE
