\* Every fault, several runs one after the other, a power loss in between.
CONSTANTS
  Operators = {op}
  Unit = unit
  NoProc = nobody
  Sidecars <- OneSidecar
  Faults = {"error", "signal", "errorInCleanup", "signalInCleanup", "kill", "reboot"}
  MaxLaunches = 3
  MaxCrashes = 0
  MaxReboots = 1
  op = op
  unit = unit
  nobody = nobody
SPECIFICATION Spec
INVARIANTS
  NewProfileNoOldStore
  ActivationFollowsPreflight
  ReportsTrue
PROPERTY DiscardedNeverOverwritten
CHECK_DEADLOCK FALSE
