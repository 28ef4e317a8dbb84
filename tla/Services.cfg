SPECIFICATION ServicesSpec
CONSTANTS
  BootSessions = {codex}
  CodexSessions = {codex}
  Pids = {1, 2}
  AutoMax = 1
  MaxRuns = 3
  MaxReboots = 1
  MaxSpawns = 2
  MaxCodexInputs = 2
  MaxCodexStarts = 1
  ScanCallers = {c1}
  MaxScanners = 2
  MaxWrites = 2
  MaxLines = 2
  MaxFiles = 2
  MaxUpsets = 1
  TailSessions = {s1, s2}
  Transcripts = {f1, f2}
  Subagents = {f2}
  MaxGrowth = 2
  MaxTails = 1
  MaxResumes = 1
  MaxReads = 1
  Claimants = {r1, r2}
  Terminals = {t1}
  MaxAgentExits = 1
  MaxCursorTexts = 2
  MaxCursorStarts = 1
  MaxCursorTurns = 2
  Cards = {c1, c2}
  MaxCopilotStarts = 2
  CacheFiles = {f1, f2}
  TailSize = 2
  MinMissing = 2
  Storm = 2
  Budgets <- CacheBudgets
  ForkFiles = 3
  ForkLines = 2
  MaxChainDepth = 2
  ForkReaders = {r1}
  MaxAgentTurns = 2
  SeenCapacity = 2
  MaxReports = 4
  Hints = {h1, h2}
INVARIANTS
  StoreInv
  AgentsInv
  ClaimInv
  TailInv
  HistoryInv
PROPERTIES
  RowOfLiveKept
  RowsStay
CHECK_DEADLOCK FALSE
