CONSTANTS
  Devices <- AllDevices
SPECIFICATION FairSpec
INVARIANTS
  ListsSound
  DocumentedFound
  RescuedByFallback
PROPERTY EveryScanEnds
CHECK_DEADLOCK FALSE
