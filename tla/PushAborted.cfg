SPECIFICATION LSpec
CONSTANTS
  Boxes <- MCOneBox
  Frames <- MCFrames
  W = 2
  RingCap = 3
  QueueCap = 3
  MaxRetries = 4
  MaxEndRetries = 2
  Faults <- MCNoFaults
  MaxPushes = 1
  MaxReboots = 0
  MaxLosses = 2
  FinalArrives = FALSE
INVARIANT AbortedNeverBoots
CHECK_DEADLOCK FALSE
