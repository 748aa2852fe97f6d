SPECIFICATION Spec
CONSTANTS
  FrameTimes = {80, 84, 88, 166}
  Window = 5
  BestDecayFrames = 6
  Tolerance = 6
INVARIANTS TypeOK CadenceRecent
PROPERTIES SteadyEndsPaced LockLostOnce
