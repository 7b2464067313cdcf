SPECIFICATION Spec
CONSTANTS
  BoardReceivers = 2
  HeaderWords = 1
  Ceiling = 5
  Taps = 5
  Bits = 10
  PreviewMaxPoints = 4
  IndexSpan = 36
  Decimations = {1, 2, 3}
  Asked <- All
INVARIANTS
  NeverMisSliced
CHECK_DEADLOCK FALSE
