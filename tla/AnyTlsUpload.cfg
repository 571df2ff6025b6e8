CONSTANTS
  x1 = x1
  x2 = x2
  x3 = x3
  x4 = x4
  Calls <- MCCalls
  MaxClients = 2
  MaxSessions = 1
  MinIdle = 1
  MaxStreams = 1
  MaxTraffic = 2
  ChunkSizes <- MCAnySize
SPECIFICATION SessionSpec
INVARIANT UploadKeepsSession
CHECK_DEADLOCK FALSE
