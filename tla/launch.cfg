SPECIFICATION Spec
CONSTANTS
  StableUptime = 2
  StableFrames = 2
  Configs <- AllConfigs
  DurableDir = TRUE
  TornWrites = TRUE
  DiskFails = TRUE
  MaxStreak = 2
INVARIANTS TypeOK SafeModeAfterCrash WatchedLoopRetires
PROPERTIES LaunchProves OnlyLostWriteRecovers
