CONSTANTS
  e1 = e1
  e2 = e2
  None = none
  Sessions <- MCSessions
  Meetings <- TwoOrRescued
  MaxAttempts = 2
  MaxDead = 1
SPECIFICATION Spec
INVARIANTS
  StreamsOwned
  StopIsFinal
  LossReported
  NeverStuck
CHECK_DEADLOCK FALSE
