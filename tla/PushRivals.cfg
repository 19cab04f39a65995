SPECIFICATION Spec
CONSTANTS
  Boxes <- MCTwoBoxes
  Frames <- MCFramesMixed
  W = 2
  RingCap = 2
  QueueCap = 2
  MaxRetries = 1
  MaxEndRetries = 0
  Faults <- MCBeginFaults
  MaxPushes = 2
  MaxReboots = 0
INVARIANTS BootIsWhole Lockstep PushInv LockInv
CHECK_DEADLOCK FALSE
