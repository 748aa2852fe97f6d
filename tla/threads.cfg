SPECIFICATION Spec
CONSTANTS
  Devices = {"full", "old"}
  MaxSessions = 2
  Libraries = {"gl", "egl"}
  OverlayFrames = 2
  MaxEnables = 2
INVARIANTS TypeOK CallsReachDriver SessionAccounted ChangeShown WaitsEnd
PROPERTIES OnlyOverlapStrays HandlersReturn
CHECK_DEADLOCK FALSE
