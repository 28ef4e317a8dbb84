SPECIFICATION SessionsSpec
CONSTANTS
  Grace = 2
  Late = 4
  Clients = {c1, c2}
  MaxDefers = 4
  MaxStarts = 2
  MaxInputs = 2
  MaxWait = 2
INVARIANTS
  NotFinishedWhileWorking
  HoldsExclusive
  InputInv
PROPERTIES
  EveryTurnEndIsReported
  RunningEndsForAReason
  KillPromiseKept
  GraceEnds
  EveryTextIsSubmitted
