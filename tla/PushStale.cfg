SPECIFICATION Spec
CONSTANTS
  Boxes <- MCOneBox
  Frames <- MCFrames
  W = 2
  RingCap = 2
  QueueCap = 2
  MaxRetries = 1
  MaxEndRetries = 0
  Faults <- MCNoFaults
  MaxPushes = 2
  MaxReboots = 0
INVARIANTS FinalOkIsThisImage
CHECK_DEADLOCK FALSE
