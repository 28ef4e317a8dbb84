SPECIFICATION MCFairSpec
CONSTANTS
  Sessions = {s1}
  PromptIds = {p1, p2}
  Entries = {e1, e2}
  Keys = {k1, k2}
  NoEntry = NoEntry
  e1 = e1
  e2 = e2
  p1 = p1
  p2 = p2
  k1 = k1
  k2 = k2
  Retention = 0
  MaxRecords = 1
  Lifetimes = {1}
  MaxClock = 2
  MaxRevision = 3
INVARIANTS RegistryInv ToldAsItIs
PROPERTIES TerminalIsFinal NothingIsLost
