SPECIFICATION Spec
CONSTANTS
  Hooks = {h1}
  GpuLoads <- EdgeGpuLoads
  WarmFrames = 1
  BoundVotes = 2
  MaxVotes = 2
  BoundHoldFrames = 2
  MinCalls = 2
  LowYield = 40
  Revive = 60
  MaxCalls = 3
INVARIANTS TypeOK MirrorHolds ActsInTime
PROPERTIES HoldRespected NoChatter
