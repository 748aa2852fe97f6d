SPECIFICATION Spec
CONSTANTS
  Devices = {"full"}
  MaxSessions = 2
  Libraries = {"gl", "egl"}
  OverlayFrames = 2
  MaxEnables = 2
CHECK_DEADLOCK FALSE
INVARIANTS CallbackNeverWaitsForItself
