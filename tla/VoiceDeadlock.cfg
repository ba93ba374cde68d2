CONSTANTS
  Sessions = {u1, u2}
  Stops = {k1}
  None = none
  MaxPending = 1
  Codecs = {FALSE}
  Faults = {"meeting"}
  u1 = u1
  u2 = u2
  k1 = k1
  none = none
SPECIFICATION FairSpec
PROPERTY MeetingWaitEnds
CHECK_DEADLOCK FALSE
