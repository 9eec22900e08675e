SPECIFICATION FairSpec
CONSTANTS
  Requests = {r1, r2}
  GatewayThreads = 1
  BackendThreads = 2
  GatewayConnections = 3
  BackendConnections = 1
  MinWorkers = 1
  Stops = {"gateway", "backend"}
INVARIANTS ServersTypeOK ServersSlotsExact ServersQueueExact PoolsInv NoMutualWait
PROPERTIES EveryCallAnswered AcceptedIsServed
