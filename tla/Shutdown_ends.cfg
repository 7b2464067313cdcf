SPECIFICATION Spec
CONSTANTS
  Params <- AllParams
  MaxValue = 1
  Offered <- Voltages
  MaxLives = 2
  MaxCalls = 3
  MaxFaults = 1
INVARIANTS
  
  ResultTruthful
  HvOnExplained
PROPERTIES
  ArmsAfterVoltage
  ShutdownEnds
CHECK_DEADLOCK FALSE
