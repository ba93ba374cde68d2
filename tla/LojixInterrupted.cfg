\* Failing commands and single signals, every retry after them, and who holds the lock.
CONSTANTS
  Operators = {op}
  Unit = unit
  NoProc = nobody
  Sidecars <- OneSidecar
  Faults = {"error", "signal"}
  MaxLaunches = 4
  MaxCrashes = 1
  MaxReboots = 0
  op = op
  unit = unit
  nobody = nobody
SPECIFICATION FairSpec
INVARIANTS
  CustodySafe
  OneRunAtATime
PROPERTY EveryRunEnds
CHECK_DEADLOCK FALSE
