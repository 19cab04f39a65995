SPECIFICATION Spec
CONSTANTS
  Boxes <- MCOneBox
  Frames <- MCFramesFull
  W = 2
  RingCap = 3
  QueueCap = 3
  MaxRetries = 2
  MaxEndRetries = 1
  Faults <- MCFaults
  MaxPushes = 1
  MaxReboots = 1
INVARIANTS TypeOK WrittenIsPrefix DoneIsBooted
CHECK_DEADLOCK FALSE
