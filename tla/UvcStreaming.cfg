\* Two URBs and two buffers: errors of the bus, failing setups and an unplug at any
\* time, bad frames dropped; no submission is refused without a reason.
CONSTANTS
  NumUrbs = 2
  Buffers = {b1, b2}
  NoBuffer = none
  BufferLength = 1
  MaxPackets = 1
  NoDrop = FALSE
  Faults = {"status", "setup", "unplug"}
  b1 = b1
  b2 = b2
  none = none
SPECIFICATION FairSpec
INVARIANTS
  UrbsSafe
  BuffersSound
  StoppedHoldsNothing
PROPERTIES
  SuspendKeepsQueue
  EveryUrbCirculates
  EveryPathReturns
