CONSTANTS
  k1 = k1
  k2 = k2
  c1 = c1
  c2 = c2
  b1 = b1
  b2 = b2
  None = None
  NoRequest = NoRequest
  Thr <- MCThr
  Cores <- MCCores
  Clients <- MCClients
  Requests <- MCClients
  Cookies <- MCCookies
  Slow <- MCSlow
  Platforms <- MCPlatforms
  MaxWorkers = 3
SPECIFICATION Spec
INVARIANTS TypeOK StackExclusive AnswersFindTheirThread AnswerIsOwn BuffersHeld WaitersCounted SomebodyListens
PROPERTY RequestsAnswered
