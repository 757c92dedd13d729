SPECIFICATION StreamSpec
CONSTANTS
  MaxFrames = 3
  MaxHeartbeats = 2
  MaxBreaks = 2
INVARIANTS
  ResumedExactlyOnce
PROPERTY EverythingArrives
CHECK_DEADLOCK FALSE
