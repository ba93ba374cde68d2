CONSTANTS
  Setups <- AllSetups
  MaxFrames = 4
  MaxBuffers = 2
  MaxFaults = 3
SPECIFICATION Spec
INVARIANTS
  ErrorFreeIsWhole
  SequenceCountsFrames
  FramesApart
CHECK_DEADLOCK FALSE
