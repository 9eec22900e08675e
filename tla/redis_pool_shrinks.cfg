SPECIFICATION Spec
CONSTANTS
  Threads = {t1, t2}
  Conns = {c1, c2, c3}
  PoolSize = 2
  Kinds = {"RedisPool"}
  MaxFaults = 1
  NoConn = NoConn
PROPERTY AcquireKeepsTotal
