SPECIFICATION Spec
CONSTANTS
  Threads = {t1, t2, t3}
  Conns = {c1, c2, c3}
  PoolSize = 2
  Kinds = {"MySqlPool", "RedisPool", "SessionStore"}
  MaxFaults = 3
  NoConn = NoConn
INVARIANTS TypeOK OneOwner NoLostWakeup ExitClosesAll
PROPERTIES LostOnlyToFailedConnect AcquireEnds
