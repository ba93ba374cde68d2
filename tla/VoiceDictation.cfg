CONSTANTS
  Sessions = {u1, u2}
  Stops = {k1, k2}
  None = none
  MaxPending = 1
  Codecs = {TRUE}
  Faults = {"mic", "graph", "suspend", "meeting"}
  u1 = u1
  u2 = u2
  k1 = k1
  k2 = k2
  none = none
SPECIFICATION FairSpec
INVARIANTS
  StopIsFinal
  MicReleased
  AudioGoesHome
  NeverStuck
PROPERTIES
  ImplementsService
  EveryStopReturns
CHECK_DEADLOCK FALSE
