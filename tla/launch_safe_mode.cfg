SPECIFICATION Spec
CONSTANTS
  StableUptime = 2
  StableFrames = 2
  Configs <- SensorConfigs
  DurableDir = TRUE
  TornWrites = FALSE
  DiskFails = FALSE
  MaxStreak = 2
INVARIANTS SafeModeInert
