CONSTANTS
  HostSessions = {s1}
  MaxWire = 3
  MaxGates = 2
  MaxRestarts = 2
SPECIFICATION MirrorFairSpec
INVARIANTS MirrorInv
PROPERTIES EveryStartSettles
CHECK_DEADLOCK FALSE
