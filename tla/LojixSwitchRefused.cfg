\* One person runs preflight and then switch; nothing goes wrong.
CONSTANTS
  Operators = {op}
  Unit = unit
  NoProc = nobody
  Sidecars <- NoSidecars
  Faults = {}
  MaxLaunches = 2
  MaxCrashes = 0
  MaxReboots = 0
  op = op
  unit = unit
  nobody = nobody
SPECIFICATION FairSpec
PROPERTY RefusalNamesAnotherRun
CHECK_DEADLOCK FALSE
