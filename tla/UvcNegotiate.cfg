CONSTANTS
  Setups <- AllSetups
  Half = 16
  LowestEstimate = 10
  MaxPackets = 3
  MaxFaults = 2
SPECIFICATION Spec
INVARIANTS
  CommitsWhatWasAnswered
  StreamMatchesFormat
  TransferFits
CHECK_DEADLOCK FALSE
