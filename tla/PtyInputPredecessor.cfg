CONSTANTS
  MaxStarts = 3
  MaxInputs = 0
  MaxWait = 1
SPECIFICATION InputSpec
INVARIANTS OneProcess
CHECK_DEADLOCK FALSE
