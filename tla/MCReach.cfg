CONSTANTS
  Devices = {d1, d2}
  Clients = {c1, c2}
  None = None
  Taps = 1
  Disconnects = 1
SPECIFICATION
  FairSpec
INVARIANTS
  ReachSound
PROPERTIES
  Reconnects
CHECK_DEADLOCK FALSE
