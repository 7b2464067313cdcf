SPECIFICATION Spec
CONSTANTS
  NoReader = NoReader
  NoConfig = NoConfig
  Readers = {r1, r2}
  Configs = {c1, c2}
  HvConfigs = {c1}
  Commands <- EveryCommand
  CmdCap = 2
  MaxCalls = 3
  MaxUnplugs = 1
  MaxKicks = 1
  AutoResume = TRUE
  ExitOnHang = FALSE
  WriteFaults = TRUE
  Firmwares <- AnyBoard
SYMMETRY Loops
INVARIANTS
  ReaderMatchesApplied
  OneUncancelledReader
  ReconfigureOnlyDrained
PROPERTIES
  LatchBlocksApplyAndStart
  CommitMeansWritten
