SPECIFICATION Spec
CONSTANTS
  Requests = {r1, r2, r3, r4}
  GatewayThreads = 1
  BackendThreads = 1
  GatewayConnections = 8
  BackendConnections = 8
  MinWorkers = 2
  Stops = {}
INVARIANT NoMutualWait
