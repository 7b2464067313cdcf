SPECIFICATION Spec
CONSTANTS
  NoReader = NoReader
  NoConfig = NoConfig
  Readers = {r1, r2}
  Configs = {c1, c2}
  HvConfigs = {c1}
  Commands <- SessionCommands
  CmdCap = 2
  MaxCalls = 3
  MaxUnplugs = 1
  MaxKicks = 1
  AutoResume = TRUE
  ExitOnHang = TRUE
  WriteFaults = FALSE
  Firmwares <- FmcBoard
SYMMETRY Loops
CHECK_DEADLOCK FALSE
PROPERTIES
  NeverArmUnconfigured
