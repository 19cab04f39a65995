SPECIFICATION Spec
CONSTANTS
  Boxes <- MCOneBox
  Frames <- MCFramesSmall
  W = 2
  RingCap = 2
  QueueCap = 2
  MaxRetries = 1
  MaxEndRetries = 0
  Faults <- MCWriteFaults
  MaxPushes = 2
  MaxReboots = 0
INVARIANTS DetailIsOfThisPush
CHECK_DEADLOCK FALSE
