CHECK_DEADLOCK FALSE
CONSTANTS
  HostSessions = {s1}
  MaxWire = 2
  MaxGates = 0
  MaxRestarts = 0
SPECIFICATION MirrorSpec
INVARIANTS MirrorInventsNothing
