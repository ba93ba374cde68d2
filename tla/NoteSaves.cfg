\* A meeting is left and opened again; every fault, a flush at any time.
CONSTANTS
  MaxEdits = 2
  MaxPages = 2
  Flushes = {f1}
  None = none
  Faults = {"fails", "lost", "rejected"}
  f1 = f1
  none = none
SPECIFICATION FairSpec
CONSTRAINT Uncontested
INVARIANTS
  SettledIsSaved
  FlushedIsSaved
PROPERTIES
  NeverGoesBack
  SavingEnds
CHECK_DEADLOCK FALSE
