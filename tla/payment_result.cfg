SPECIFICATION Spec
CONSTANTS
  c1 = c1
  c2 = c2
  s1 = s1
  s2 = s2
  Conns = {c1, c2}
  Sessions = {s1, s2}
  SessionFor <- OneSessionEach
  Fds = {4, 5}
  MaxConnections = 1
  NoConn = NoConn
  NoFd = NoFd
  NoSession = NoSession
INVARIANTS ResultTypeOK PageShowsTruth ShownQrIsReachable PaidNeedsConfig SlotsCounted
           PushReachesItsPage
PROPERTIES AnnouncesSettlement WaitingPageIsTold GoneIsForgotten
