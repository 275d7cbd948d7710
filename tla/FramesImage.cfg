SPECIFICATION Spec
CONSTANTS
  FrameCount = 2
  ImageCount = 2
  EyeCount = 2
INVARIANT CompositedIntoAcquired
CHECK_DEADLOCK FALSE
