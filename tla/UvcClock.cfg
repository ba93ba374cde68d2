CONSTANTS
  Size = 3
  SofPeriod = 16
  LowPeriod = 8
  StcPeriod = 64
  MinDiff = 3
  MinOffset = 2
  Hosts = {8}
  Offsets = {0, 7, 14}
  Delays = {0, 1}
  Gaps = {1, 4, 14}
  MaxAge = 6
  Flaws = {"zeroScr", "reset"}
  MaxTime = 24
SPECIFICATION ClockSpec
INVARIANTS
  WindowUsable
  TimestampRight
CHECK_DEADLOCK FALSE
