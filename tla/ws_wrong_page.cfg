SPECIFICATION WsSpec
CONSTANTS
  c1 = c1
  c2 = c2
  c3 = c3
  s1 = s1
  s2 = s2
  Conns = {c1, c2, c3}
  Sessions = {s1, s2}
  SessionFor <- SessionTwice
  Fds = {4, 5}
  MaxConnections = 3
  NoConn = NoConn
  NoFd = NoFd
  NoSession = NoSession
INVARIANT PushReachesItsPage
