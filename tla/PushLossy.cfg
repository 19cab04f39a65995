SPECIFICATION LSpec
CONSTANTS
  Boxes <- MCOneBox
  Frames <- MCFrames
  W = 2
  RingCap = 3
  QueueCap = 3
  MaxRetries = 4
  MaxEndRetries = 3
  Faults <- MCNoFaults
  MaxPushes = 1
  MaxReboots = 0
  MaxLosses = 3
  FinalArrives = TRUE
PROPERTY LossIsHealed
CHECK_DEADLOCK FALSE
