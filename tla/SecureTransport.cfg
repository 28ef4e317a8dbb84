SPECIFICATION TransportSpec
CONSTANTS
  Width = 3
  MaxCounter = 5
  Requests = {r1, r2}
  Contexts = {c1, c2, c3}
  NoContext = NoContext
  Sockets = {s1, s2}
  Cap = 2
  TicketTTL = 1
  DrainTime = 1
  Lifetime = 2
  FirstFrame = 1
  PingEvery = 1
INVARIANTS
  RestInv
  SocketsInv
  RevocationCuts
PROPERTIES
  ImplementsReplayGuard
  UsedOutlivesUnused
  DeadContextCloses
