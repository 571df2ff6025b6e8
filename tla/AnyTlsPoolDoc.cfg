CONSTANTS
  x1 = x1
  x2 = x2
  x3 = x3
  x4 = x4
  Calls <- MCCalls
  MaxClients = 2
  MaxSessions = 2
  MinIdle = 1
  MaxStreams = 1
  MaxTraffic = 2
  ChunkSizes <- MCFitting
SPECIFICATION PoolSpec
INVARIANT UnusedSessionPooled
CHECK_DEADLOCK FALSE
