SPECIFICATION FairSpec
CONSTANTS
  NoReader = NoReader
  NoConfig = NoConfig
  Readers = {r1, r2}
  Configs = {c1, c2}
  HvConfigs = {c1}
  Commands <- EveryCommand
  CmdCap = 2
  MaxCalls = 2
  MaxUnplugs = 1
  MaxKicks = 1
  AutoResume = TRUE
  ExitOnHang = FALSE
  WriteFaults = FALSE
  Firmwares <- FmcBoard
INVARIANTS
  HvOnlyWhileReported
PROPERTIES
  Recovers
  CommandsServed
CHECK_DEADLOCK FALSE
