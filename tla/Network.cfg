SPECIFICATION NetworkSpec
CONSTANTS
  Phones = {p1, p2}
  Exchanges = {q1, q2}
  MaxTokens = 2
  Attempts = 1
  MaxPairFaults = 1
  Devices = {d1, d2}
  MaxMessages = 3
  Remembered = 2
  Failures = 1
  Opens = 2
  MaxContexts = 2
  MaxRemovals = 1
  Activities = {a1}
  MaxTurns = 2
  MaxGates = 1
  MaxBegun = 3
  MaxRestarts = 1
  PushTokens = {t1, t2}
  PushDevices = {d1}
  Deliveries = {s1, s2}
  StreakLimit = 2
  BatchSize = 1
  MaxPushCalls = 2
  MaxDeliveries = 2
  MaxErased = 1
  WeekDays = 3
  DayHours = 3
  RelayStreams = {1, 2}
  Window = 2
  MaxPiece = 1
  MaxStreams = 1
  Chunks = {3}
  MaxTunnels = 2
  MaxChunks = 2
  MaxFrames = 1
  Newest = 3
  MajorAt = {3}
  Keep = 2
  MaxDirs = 2
  MaxDeaths = 1
  Clients = {p1, p2}
  Servers = {v1, v2}
  RequestLines = {u1, u2}
  MaxStarted = 2
  MaxAnswered = 2
  MaxCounter = 2
  PressureClients = {p1}
  HostPids = {1, 2}
  Chats = {c1, c2}
  Rollouts = {x1}
  OwnChats = {c1}
  HostBounds <- DiscoveryBounds
  PageIds = {1, 2, 3}
  SortKeys = {1, 2}
  Limits = {1, 2}
  MaxShifts = 2
INVARIANTS
  PairingInv
  AdmissionInv
  RelayInv
  NoticesInv
  UpdaterInv
  HandshakeInv
  PressureInv
  ListInv
CHECK_DEADLOCK FALSE
